-------------------------- MODULE SubscriptionProof --------------------------
(***************************************************************************)
(* Proofs about Subscription, for any number of cycles, chunks and faults, *)
(* any bound on the records and any capacity of the channel: the command   *)
(* writes nothing but what the device sent, and as long as no datagram was *)
(* late or came again in order and without gaps, and every batch on its    *)
(* way is one whole cycle.                                                 *)
(*                                                                         *)
(* Neither is inductive. The invariant has two parts. What holds whatever  *)
(* the network repeats says of every place a record passes that it holds   *)
(* only what was sent (KnownInv). What holds as long as it repeats nothing *)
(* (Flow) divides what was sent at cuts: what the command has taken, then  *)
(* one piece for each batch in the channel, then what the goroutine has    *)
(* accumulated and what is still in flight; and it follows the device,     *)
(* which is never more than a chunk ahead.                                 *)
(***************************************************************************)
EXTENDS Subscription, SequenceTheorems, TLAPS, WellFoundedInduction

IsSeq(s) == \E M : s \in Seq(M)

Rec == Int \X Int

ReportData == [kind : {"report"}, rec : Rec, more : BOOLEAN, item : {"data", "bad", "none"}]

(* The reports among the messages of the exchange. *)
Reported == {i \in DOMAIN incoming : incoming[i].kind = "report"}

(* A message that says it is a report has the fields of one. *)
Messages ==
    /\ IsSeq(incoming) /\ \A i \in Reported : incoming[i] \in ReportData
    /\ \A m \in air : m.kind = "report" => m \in ReportData

TypeOK ==
    /\ cmd \in {"request", "priming", "ack", "response", "stream", "ended"}
    /\ gor \in {"none", "recv", "ack", "deliver", "close", "ended"}
    /\ acc \in Seq(ReportData) /\ last \in ReportData
    /\ reports \in Seq(Seq(Rec)) /\ emitted \in Seq(Rec) /\ sent \in Seq(Rec)
    /\ dev \in [rec : Rec, more : BOOLEAN, waits : BOOLEAN, established : BOOLEAN]
    /\ Messages

(* The loop that reads a report, acknowledges it, and at the end of a cycle
   delivers: Subscribe runs it first, for the priming report, then the
   goroutine does. *)
Reads    == cmd \in {"request", "priming"} \/ gor = "recv"
Acks     == cmd = "ack" \/ gor = "ack"
Delivers == cmd = "response" \/ gor = "deliver"
Runs     == Reads \/ Acks \/ Delivers

PhaseInv ==
    /\ cmd \in {"request", "priming", "ack", "response"} => gor = "none"
    /\ gor = "none" => reports = <<>>
    /\ cmd = "request" => dev.waits /\ incoming = <<>> /\ air = {}

(* At most one report is on its way, the one the device has sent last. *)
FlightInv ==
    Runs =>
      /\ \A i, j \in Reported : i = j
      /\ \A i \in Reported : dev.waits /\ incoming[i].rec = dev.rec /\ incoming[i].more = dev.more

(* What is accumulated belongs to one cycle, which goes on until it is
   delivered. *)
CycleInv ==
    /\ Reads => /\ acc = <<>> => (Reported = {} => ~dev.more)
                /\ acc # <<>> => last.rec[1] = dev.rec[1] /\ (Reported = {} => dev.more)
    /\ Acks => /\ acc # <<>> /\ Reported = {} /\ dev.waits
               /\ last.rec = dev.rec /\ last.more = dev.more
    /\ Delivers => IF Reported = {} THEN last.rec[1] = dev.rec[1] /\ ~dev.more
                                    ELSE last.rec[1] < dev.rec[1]
    /\ Runs => \A j \in DOMAIN DataOf(acc) : DataOf(acc)[j][1] = last.rec[1]

(* The device's cycles follow one another. *)
SentInv ==
    /\ \A p, q \in DOMAIN sent : p <= q => sent[p][1] <= sent[q][1]
    /\ \A p \in DOMAIN sent : sent[p][1] <= dev.rec[1]

Finished(cycle) == cycle < dev.rec[1] \/ (cycle = dev.rec[1] /\ ~dev.more)

(* A cut lies between two cycles, the one before it finished. *)
IsCut(k) ==
    /\ k <= Len(sent)
    /\ k > 0 => Finished(sent[k][1]) /\ (k < Len(sent) => sent[k][1] < sent[k + 1][1])

(* b is the piece of sent between the cuts k and l, and one cycle. *)
IsPiece(b, k, l) ==
    /\ k < l /\ Len(b) = l - k
    /\ \A j \in 1 .. Len(b) : b[j] = sent[k + j] /\ b[j][1] = b[1][1]

Cuts(c) ==
    /\ Len(c) = Len(reports) + 1
    /\ \A i \in 1 .. Len(c) : IsCut(c[i])
    /\ \A i \in 1 .. Len(reports) : IsPiece(reports[i], c[i], c[i + 1])

(* The command has taken what is before the cut k. *)
Taken(k) ==
    /\ Len(emitted) <= k /\ (cmd # "ended" => Len(emitted) = k)
    /\ \A j \in 1 .. Len(emitted) : emitted[j] = sent[j]

(* After the cut k comes what is accumulated, then what is in flight. *)
Rest(k) ==
    Runs =>
      /\ \A j \in 1 .. Len(DataOf(acc)) : sent[k + j] = DataOf(acc)[j]
      /\ Reported = {} => Len(sent) = k + Len(DataOf(acc))
      /\ \A i \in Reported :
           IF incoming[i].item = "data"
           THEN Len(sent) = k + Len(DataOf(acc)) + 1 /\ sent[Len(sent)] = dev.rec
           ELSE Len(sent) = k + Len(DataOf(acc))

CutInv == \E c \in Seq(Nat) : Cuts(c) /\ Taken(c[1]) /\ Rest(c[Len(c)])

CountInv ==
    Count > 0 => Len(emitted) <= Count /\ (cmd # "ended" => Len(emitted) < Count)

Flow == FlightInv /\ CycleInv /\ SentInv /\ CutInv

(* Flow speaks of what nothing late or repeated has disturbed. *)
Core == CountInv /\ (~strayed => Flow)

IndInv == TypeOK /\ PhaseInv /\ Core

-----------------------------------------------------------------------------
(* Induction over 1..N, as a fact about sets. *)
LEMMA UpToN ==
    ASSUME NEW N \in Nat, NEW S, N # 0 => 1 \in S,
           \A n \in 1 .. N : n # N /\ n \in S => n + 1 \in S
    PROVE  \A n \in 1 .. N : n \in S
<1>. DEFINE T == {n \in 1 .. N : n \notin S}
<1>. SUFFICES ASSUME T # {} PROVE FALSE
  OBVIOUS
<1>1. T \subseteq Nat
  OBVIOUS
<1>2. PICK n \in T : \A y \in T : ~(<<y, n>> \in OpToRel(<, Nat))
  <2>1. \E x \in T : \A y \in T : ~(<<y, x>> \in OpToRel(<, Nat))
    <3>. HIDE DEF T
    <3>. QED
      BY <1>1, NatLessThanWellFounded, WFMin
  <2>. QED
    BY <2>1
<1>3. n \in 1 .. N /\ n \notin S /\ n # 1
  OBVIOUS
<1>4. n - 1 \in 1 .. N /\ <<n - 1, n>> \in OpToRel(<, Nat) /\ n - 1 # N /\ (n - 1) + 1 = n
  BY <1>3 DEF OpToRel
<1>5. n - 1 \in S
  BY <1>2, <1>4
<1>. QED
  BY <1>3, <1>4, <1>5

(* The function FlattenSeq is defined with, and that there is one. *)
Pieces(f, seqs, n) ==
    f = [i \in 1 .. n |-> IF i = 1 THEN seqs[i] ELSE f[i - 1] \o seqs[i]]

LEMMA PiecesExist ==
    ASSUME NEW seqs, NEW N \in Nat
    PROVE  \A n \in 1 .. N : \E f : Pieces(f, seqs, n)
<1>. DEFINE S == {n \in 1 .. N : \E f : Pieces(f, seqs, n)}
<1>1. N # 0 => 1 \in S
  <2>1. Pieces([i \in 1 .. 1 |-> seqs[1]], seqs, 1)
    BY DEF Pieces
  <2>. QED
    BY <2>1
<1>2. ASSUME NEW n \in 1 .. N, n # N, n \in S PROVE n + 1 \in S
  <2>1. PICK f : Pieces(f, seqs, n)
    BY <1>2
  <2>. DEFINE g == [i \in 1 .. n + 1 |-> IF i = n + 1 THEN f[n] \o seqs[n + 1] ELSE f[i]]
  <2>2. \A i \in 1 .. n + 1 : g[i] = IF i = 1 THEN seqs[i] ELSE g[i - 1] \o seqs[i]
    <3>. SUFFICES ASSUME NEW i \in 1 .. n + 1
                  PROVE  g[i] = IF i = 1 THEN seqs[i] ELSE g[i - 1] \o seqs[i]
      OBVIOUS
    <3>1. CASE i = n + 1
      <4>1. i # 1 /\ i - 1 = n /\ n \in 1 .. n + 1 /\ n # n + 1
        BY <3>1
      <4>2. g[n] = f[n] /\ g[i] = f[n] \o seqs[i]
        BY <3>1, <4>1
      <4>. QED
        BY <4>1, <4>2
    <3>2. CASE i # n + 1
      <4>1. i \in 1 .. n /\ g[i] = f[i]
        BY <3>2
      <4>2. f[i] = IF i = 1 THEN seqs[i] ELSE f[i - 1] \o seqs[i]
        BY <2>1, <4>1 DEF Pieces
      <4>3. i # 1 => i - 1 \in 1 .. n + 1 /\ i - 1 # n + 1
        BY <4>1
      <4>. QED
        BY <4>1, <4>2, <4>3
    <3>. QED
      BY <3>1, <3>2
  <2>3. g = [i \in 1 .. n + 1 |-> g[i]]
    OBVIOUS
  <2>. HIDE DEF g
  <2>4. Pieces(g, seqs, n + 1)
    BY <2>2, <2>3 DEF Pieces
  <2>5. n + 1 \in 1 .. N
    BY <1>2
  <2>. QED
    BY <2>4, <2>5
<1>. HIDE DEF S
<1>3. \A n \in 1 .. N : n \in S
  BY <1>1, <1>2, UpToN
<1>. QED
  BY <1>3 DEF S

(* What FlattenSeq computes, piece by piece. *)
LEMMA FlattenPieces ==
    ASSUME NEW seqs, NEW N \in Nat \ {0}, N = Len(seqs)
    PROVE  \E g : /\ FlattenSeq(seqs) = g[N]
                  /\ \A n \in 1 .. N : g[n] = IF n = 1 THEN seqs[n] ELSE g[n - 1] \o seqs[n]
<1>0. N \in 1 .. N
  OBVIOUS
<1>1. PICK f : Pieces(f, seqs, N)
  BY <1>0, PiecesExist
<1>. DEFINE h == CHOOSE e : e = [i \in 1 .. N |-> IF i = 1 THEN seqs[i] ELSE e[i - 1] \o seqs[i]]
<1>2. FlattenSeq(seqs) = h[N]
  BY DEF FlattenSeq
<1>3. Pieces(h, seqs, N)
  BY <1>1 DEF Pieces
<1>. HIDE DEF h
<1>4. \A n \in 1 .. N : h[n] = IF n = 1 THEN seqs[n] ELSE h[n - 1] \o seqs[n]
  BY <1>3 DEF Pieces
<1>. QED
  BY <1>2, <1>4

LEMMA FlattenEmpty == FlattenSeq(<<>>) = <<>>
BY DEF FlattenSeq

LEMMA FlattenType ==
    ASSUME NEW M, NEW seqs \in Seq(Seq(M))
    PROVE  FlattenSeq(seqs) \in Seq(M)
<1>0. PICK N \in Nat : N = Len(seqs)
  OBVIOUS
<1>1. CASE N = 0
  <2>1. seqs = <<>> /\ <<>> \in Seq(M)
    BY <1>0, <1>1, EmptySeq
  <2>2. FlattenSeq(seqs) = <<>>
    BY <2>1, FlattenEmpty, Zenon
  <2>. QED
    BY <2>1, <2>2
<1>2. CASE N # 0
  <2>0. N \in 1 .. N /\ N \in Nat \ {0}
    BY <1>2
  <2>1. PICK g : /\ FlattenSeq(seqs) = g[N]
                 /\ \A n \in 1 .. N : g[n] = IF n = 1 THEN seqs[n] ELSE g[n - 1] \o seqs[n]
    BY <1>0, <2>0, FlattenPieces
  <2>. DEFINE S == {n \in 1 .. N : g[n] \in Seq(M)}
  <2>2. 1 \in S
    BY <1>0, <2>0, <2>1
  <2>3. ASSUME NEW n \in 1 .. N, n # N, n \in S PROVE n + 1 \in S
    <3>1. n + 1 \in 1 .. N /\ n + 1 # 1 /\ (n + 1) - 1 = n
      BY <2>3
    <3>2. g[n + 1] = g[n] \o seqs[n + 1]
      BY <2>1, <3>1
    <3>3. seqs[n + 1] \in Seq(M) /\ g[n] \in Seq(M)
      BY <1>0, <2>3, <3>1
    <3>4. g[n + 1] \in Seq(M)
      BY <3>2, <3>3
    <3>. QED
      BY <3>1, <3>4
  <2>. HIDE DEF S
  <2>4. N \in S
    BY <2>0, <2>2, <2>3, UpToN
  <2>. QED
    BY <2>1, <2>4 DEF S
<1>. QED
  BY <1>1, <1>2

LEMMA FlattenAppend ==
    ASSUME NEW M, NEW seqs \in Seq(Seq(M)), NEW s \in Seq(M)
    PROVE  FlattenSeq(Append(seqs, s)) = FlattenSeq(seqs) \o s
<1>z. PICK N \in Nat : N = Len(seqs)
  OBVIOUS
<1>0. PICK all : N = Len(seqs) /\ all = Append(seqs, s)
  BY <1>z
<1>1. /\ Len(all) = N + 1 /\ all[N + 1] = s /\ N + 1 \in Nat \ {0}
      /\ \A n \in 1 .. N : all[n] = seqs[n]
  BY <1>0
<1>2. PICK g : /\ FlattenSeq(all) = g[N + 1]
               /\ \A n \in 1 .. N + 1 : g[n] = IF n = 1 THEN all[n] ELSE g[n - 1] \o all[n]
  BY <1>1, FlattenPieces
<1>3. CASE N = 0
  <2>1. seqs = <<>>
    BY <1>0, <1>3, EmptySeq
  <2>2. g[1] = s /\ <<>> \o s = s
    BY <1>1, <1>2, <1>3
  <2>. QED
    BY <1>0, <1>2, <1>3, <2>1, <2>2, FlattenEmpty
<1>4. CASE N # 0
  <2>0. N \in 1 .. N /\ N \in Nat \ {0}
    BY <1>4
  <2>1. PICK f : /\ FlattenSeq(seqs) = f[N]
                 /\ \A n \in 1 .. N : f[n] = IF n = 1 THEN seqs[n] ELSE f[n - 1] \o seqs[n]
    BY <1>0, <2>0, FlattenPieces
  <2>. DEFINE S == {n \in 1 .. N : g[n] = f[n]}
  <2>2. 1 \in S
    BY <1>1, <1>2, <2>0, <2>1
  <2>3. ASSUME NEW n \in 1 .. N, n # N, n \in S PROVE n + 1 \in S
    <3>1. n + 1 \in 1 .. N /\ n + 1 \in 1 .. N + 1 /\ n + 1 # 1 /\ (n + 1) - 1 = n
      BY <2>3
    <3>2. g[n + 1] = g[n] \o all[n + 1]
      BY <1>2, <3>1
    <3>3. f[n + 1] = f[n] \o seqs[n + 1]
      BY <2>1, <3>1
    <3>4. g[n + 1] = f[n + 1]
      BY <1>1, <2>3, <3>1, <3>2, <3>3
    <3>. QED
      BY <3>1, <3>4
  <2>. HIDE DEF S
  <2>4. g[N] = f[N]
    <3>1. N \in S
      BY <2>0, <2>2, <2>3, UpToN
    <3>. QED
      BY <3>1 DEF S
  <2>5. N + 1 \in 1 .. N + 1 /\ N + 1 # 1 /\ (N + 1) - 1 = N
    BY <2>0
  <2>6. g[N + 1] = g[N] \o s
    BY <1>1, <1>2, <2>5
  <2>. QED
    BY <1>0, <1>2, <2>1, <2>4, <2>6
<1>. QED
  BY <1>3, <1>4

-----------------------------------------------------------------------------
(* splitAttributeReports, on one report more. *)
Item(m) == IF m.item = "data" THEN <<m.rec>> ELSE <<>>

LEMMA DataFacts ==
    ASSUME NEW rs \in Seq(ReportData), NEW m \in ReportData
    PROVE  /\ DataOf(rs) \in Seq(Rec)
           /\ DataOf(<<>>) = <<>>
           /\ DataOf(Append(rs, m)) = DataOf(rs) \o Item(m)
<1>. DEFINE D(s) == [i \in DOMAIN s |-> IF s[i].item = "data" THEN <<s[i].rec>> ELSE <<>>]
<1>1. ASSUME NEW x \in ReportData
      PROVE  (IF x.item = "data" THEN <<x.rec>> ELSE <<>>) \in Seq(Rec)
  BY DEF ReportData
<1>2. ASSUME NEW s \in Seq(ReportData)
      PROVE  DOMAIN s = 1 .. Len(s) /\ D(s) \in Seq(Seq(Rec)) /\ Len(D(s)) = Len(s)
  <2>1. DOMAIN s = 1 .. Len(s) /\ Len(s) \in Nat /\ \A i \in DOMAIN s : s[i] \in ReportData
    OBVIOUS
  <2>2. D(s) \in [1 .. Len(s) -> Seq(Rec)]
    BY <1>1, <2>1
  <2>. HIDE DEF D
  <2>. QED
    BY <2>1, <2>2, IsASeq
<1>3. DataOf(rs) \in Seq(Rec)
  <2>1. D(rs) \in Seq(Seq(Rec)) /\ DataOf(rs) = FlattenSeq(D(rs))
    BY <1>2 DEF DataOf
  <2>. HIDE DEF D
  <2>. QED
    BY <2>1, FlattenType
<1>4. DataOf(<<>>) = <<>>
  <2>1. D(<<>>) = <<>> /\ DataOf(<<>>) = FlattenSeq(D(<<>>))
    BY DEF DataOf
  <2>. HIDE DEF D
  <2>. QED
    BY <2>1, FlattenEmpty
<1>5. DataOf(Append(rs, m)) = DataOf(rs) \o Item(m)
  <2>0. Append(rs, m) \in Seq(ReportData)
    OBVIOUS
  <2>1. PICK all \in Seq(ReportData) : all = Append(rs, m)
    BY <2>0, Zenon
  <2>2. Len(all) = Len(rs) + 1 /\ all[Len(rs) + 1] = m /\ \A i \in 1 .. Len(rs) : all[i] = rs[i]
    BY <2>1
  <2>3. Item(m) \in Seq(Rec)
    BY <1>1 DEF Item
  <2>4. /\ D(all) \in Seq(Seq(Rec)) /\ Len(D(all)) = Len(rs) + 1
        /\ D(rs) \in Seq(Seq(Rec)) /\ Len(D(rs)) = Len(rs)
        /\ DOMAIN all = 1 .. Len(rs) + 1 /\ DOMAIN rs = 1 .. Len(rs)
    BY <1>2, <2>2
  <2>5. /\ D(all)[Len(rs) + 1] = Item(m)
        /\ \A i \in 1 .. Len(rs) : D(all)[i] = D(rs)[i]
    BY <2>2, <2>4 DEF Item
  <2>6. DataOf(all) = FlattenSeq(D(all)) /\ DataOf(rs) = FlattenSeq(D(rs))
    BY DEF DataOf
  <2>7. PICK x, y : x = D(all) /\ y = D(rs)
    OBVIOUS
  <2>. HIDE DEF D
  <2>8. x = Append(y, Item(m))
    BY <2>3, <2>4, <2>5, <2>7
  <2>. QED
    BY <2>1, <2>3, <2>4, <2>6, <2>7, <2>8, FlattenAppend
<1>. QED
  BY <1>3, <1>4, <1>5

LEMMA OneMore ==
    ASSUME NEW M, NEW s \in Seq(M), NEW x \in M
    PROVE  /\ s \o <<x>> \in Seq(M) /\ Len(s \o <<x>>) = Len(s) + 1
           /\ (s \o <<x>>)[Len(s) + 1] = x
           /\ \A j \in 1 .. Len(s) : (s \o <<x>>)[j] = s[j]
<1>1. s \o <<x>> = Append(s, x)
  BY AppendIsConcat
<1>2. /\ Append(s, x) \in Seq(M) /\ Len(Append(s, x)) = Len(s) + 1
      /\ Append(s, x)[Len(s) + 1] = x
      /\ \A j \in 1 .. Len(s) : Append(s, x)[j] = s[j]
  OBVIOUS
<1>. QED
  BY <1>1, <1>2, Zenon

LEMMA FirstOnes ==
    ASSUME NEW b \in Seq(Rec), NEW w \in Nat, w <= Len(b)
    PROVE  /\ SubSeq(b, 1, w) \in Seq(Rec) /\ Len(SubSeq(b, 1, w)) = w
           /\ \A j \in 1 .. w : SubSeq(b, 1, w)[j] = b[j]
<1>1. \A j \in 1 .. w : b[j] \in Rec
  OBVIOUS
<1>2. /\ SubSeq(b, 1, w) \in Seq(Rec)
      /\ Len(SubSeq(b, 1, w)) = IF 1 <= w THEN w - 1 + 1 ELSE 0
      /\ \A i \in 1 .. w - 1 + 1 : SubSeq(b, 1, w)[i] = b[1 + i - 1]
  BY <1>1, SubSeqProperties
<1>3. (IF 1 <= w THEN w - 1 + 1 ELSE 0) = w
  OBVIOUS
<1>4. ASSUME NEW j \in 1 .. w PROVE SubSeq(b, 1, w)[j] = b[j]
  <2>1. j \in 1 .. w - 1 + 1 /\ 1 + j - 1 = j
    OBVIOUS
  <2>. QED
    BY <1>2, <2>1, Zenon
<1>5. Len(SubSeq(b, 1, w)) = w
  <2>1. PICK z : z = Len(SubSeq(b, 1, w)) /\ z = (IF 1 <= w THEN w - 1 + 1 ELSE 0)
    BY <1>2
  <2>. QED
    BY <1>3, <2>1
<1>6. SubSeq(b, 1, w) \in Seq(Rec)
  BY <1>2, Zenon
<1>. QED
  BY <1>4, <1>5, <1>6, Zenon

(* What SentIn selects, of any sequence of records; a cycle that lies between
   two positions is all that is selected. *)
Selected(s, cycle) ==
    FlattenSeq([i \in DOMAIN s |-> IF s[i][1] = cycle THEN <<s[i]>> ELSE <<>>])

LEMMA SelectPiece ==
    ASSUME NEW s \in Seq(Rec), NEW k \in Nat, NEW l \in Nat, k < l, l <= Len(s), NEW cycle \in Int,
           \A p \in 1 .. Len(s) : s[p][1] = cycle <=> k < p /\ p <= l,
           NEW b \in Seq(Rec), Len(b) = l - k, \A j \in 1 .. Len(b) : b[j] = s[k + j]
    PROVE  Selected(s, cycle) = b
<1>0. PICK N \in Nat \ {0} : N = Len(s)
  OBVIOUS
<1>1. PICK seqs : seqs = [i \in DOMAIN s |-> IF s[i][1] = cycle THEN <<s[i]>> ELSE <<>>]
  OBVIOUS
<1>2. /\ \A i \in 1 .. N : seqs[i] = IF k < i /\ i <= l THEN <<s[i]>> ELSE <<>>
      /\ DOMAIN seqs = 1 .. N
  BY <1>0, <1>1
<1>3. Len(seqs) = N
  BY <1>2
<1>4. PICK g : /\ FlattenSeq(seqs) = g[N]
               /\ \A n \in 1 .. N : g[n] = IF n = 1 THEN seqs[n] ELSE g[n - 1] \o seqs[n]
  BY <1>3, FlattenPieces
<1>. DEFINE size(n) == IF n <= k THEN 0 ELSE IF n <= l THEN n - k ELSE l - k
            S == {n \in 1 .. N : /\ g[n] \in Seq(Rec) /\ Len(g[n]) = size(n)
                                 /\ \A j \in 1 .. size(n) : g[n][j] = s[k + j]}
<1>5. \A i \in 1 .. N : s[i] \in Rec /\ <<s[i]>> \in Seq(Rec) /\ Len(<<s[i]>>) = 1 /\ <<s[i]>>[1] = s[i]
  BY <1>0
<1>6. <<>> \in Seq(Rec) /\ Len(<<>>) = 0
  OBVIOUS
<1>7. 1 \in S
  <2>1. 1 \in 1 .. N /\ g[1] = seqs[1]
    BY <1>4
  <2>2. CASE k < 1
    <3>1. k = 0 /\ 1 <= l /\ size(1) = 1 /\ g[1] = <<s[1]>>
      BY <1>2, <2>1, <2>2
    <3>2. g[1] \in Seq(Rec) /\ Len(g[1]) = 1 /\ g[1][1] = s[1]
      BY <1>5, <2>1, <3>1
    <3>3. \A j \in 1 .. 1 : g[1][j] = s[k + j]
      BY <3>1, <3>2
    <3>. QED
      BY <2>1, <3>1, <3>2, <3>3
  <2>3. CASE ~(k < 1)
    <3>1. size(1) = 0 /\ g[1] = <<>>
      BY <1>2, <2>1, <2>3
    <3>2. g[1] \in Seq(Rec) /\ Len(g[1]) = size(1) /\ 1 .. size(1) = {}
      BY <1>6, <3>1
    <3>. HIDE DEF size
    <3>. QED
      BY <2>1, <3>2
  <2>. QED
    BY <2>2, <2>3
<1>8. ASSUME NEW n \in 1 .. N, n # N, n \in S PROVE n + 1 \in S
  <2>1. n + 1 \in 1 .. N /\ n + 1 # 1 /\ (n + 1) - 1 = n
    BY <1>8
  <2>2. g[n + 1] = g[n] \o seqs[n + 1]
    BY <1>4, <2>1
  <2>3. /\ g[n] \in Seq(Rec) /\ Len(g[n]) = size(n)
        /\ \A j \in 1 .. size(n) : g[n][j] = s[k + j]
    BY <1>8
  <2>4. CASE k < n + 1 /\ n + 1 <= l
    <3>1. size(n) = n - k /\ size(n + 1) = size(n) + 1 /\ size(n) \in Nat /\ k + (size(n) + 1) = n + 1
      BY <2>4
    <3>2. PICK m \in Nat : m = size(n)
      BY <3>1
    <3>3. g[n + 1] = g[n] \o <<s[n + 1]>>
      BY <1>2, <2>1, <2>2, <2>4
    <3>. HIDE DEF size
    <3>0. g[n] \in Seq(Rec) /\ s[n + 1] \in Rec /\ Len(g[n]) = m
      BY <1>5, <2>1, <2>3, <3>2
    <3>z. PICK x \in Rec : x = s[n + 1]
      BY <3>0, Zenon
    <3>a. PICK old \in Seq(Rec) : old = g[n] /\ Len(old) = m /\ x = s[n + 1]
      BY <3>0, <3>z, Zenon
    <3>b. PICK new : new = old \o <<x>>
      OBVIOUS
    <3>c. /\ new \in Seq(Rec) /\ Len(new) = m + 1 /\ new[m + 1] = x
          /\ \A j \in 1 .. m : new[j] = old[j]
      <4>1. /\ old \o <<x>> \in Seq(Rec) /\ Len(old \o <<x>>) = Len(old) + 1
            /\ (old \o <<x>>)[Len(old) + 1] = x
            /\ \A j \in 1 .. Len(old) : (old \o <<x>>)[j] = old[j]
        BY OneMore
      <4>. QED
        BY <3>a, <3>b, <4>1, Zenon
    <3>4. /\ g[n + 1] \in Seq(Rec) /\ Len(g[n + 1]) = m + 1 /\ g[n + 1][m + 1] = s[n + 1]
          /\ \A j \in 1 .. m : g[n + 1][j] = g[n][j]
      BY <3>3, <3>a, <3>b, <3>c
    <3>5. ASSUME NEW j \in 1 .. m + 1 PROVE g[n + 1][j] = s[k + j]
      <4>1. CASE j = m + 1
        BY <3>1, <3>2, <3>4, <4>1
      <4>2. CASE j # m + 1
        <5>1. j \in 1 .. m
          BY <4>2
        <5>. QED
          BY <2>3, <3>2, <3>4, <5>1
      <4>. QED
        BY <4>1, <4>2
    <3>. QED
      BY <2>1, <3>1, <3>2, <3>4, <3>5
  <2>5. CASE ~(k < n + 1 /\ n + 1 <= l)
    <3>1. size(n + 1) = size(n)
      BY <2>5
    <3>2. g[n + 1] = g[n]
      <4>1. seqs[n + 1] = <<>>
        BY <1>2, <2>1, <2>5
      <4>2. \A t \in Seq(Rec) : t \o <<>> = t
        OBVIOUS
      <4>. QED
        BY <2>2, <2>3, <4>1, <4>2
    <3>. HIDE DEF size
    <3>. QED
      BY <2>1, <2>3, <3>1, <3>2
  <2>. QED
    BY <2>4, <2>5
<1>9. size(N) = l - k
  BY <1>0
<1>10. N \in S
  <2>. HIDE DEF S
  <2>1. \A n \in 1 .. N : n \in S
    BY <1>7, <1>8, UpToN
  <2>. QED
    BY <2>1
<1>11. g[N] \in Seq(Rec) /\ Len(g[N]) = l - k /\ \A j \in 1 .. l - k : g[N][j] = s[k + j]
  <2>1. /\ g[N] \in Seq(Rec) /\ Len(g[N]) = size(N)
        /\ \A j \in 1 .. size(N) : g[N][j] = s[k + j]
    BY <1>10
  <2>. HIDE DEF size, S
  <2>. QED
    BY <1>9, <2>1, Zenon
<1>12. g[N] = b
  <2>1. Len(g[N]) = Len(b) /\ \A j \in 1 .. Len(g[N]) : g[N][j] = b[j]
    <3>. HIDE DEF size, S
    <3>. QED
      BY <1>11, Zenon
  <2>2. PICK h \in Seq(Rec) : h = g[N]
    BY <1>11, Zenon
  <2>3. h = b
    <3>. HIDE DEF size, S
    <3>. QED
      BY <2>1, <2>2, SeqEqual
  <2>. QED
    BY <2>2, <2>3
<1>. QED
  BY <1>1, <1>4, <1>12 DEF Selected

-----------------------------------------------------------------------------
(* The reports on their way stay the same. *)
SameFlight ==
    /\ Reported' = {} <=> Reported = {}
    /\ \A i \in Reported' : \E j \in Reported : incoming'[i] = incoming[j]
    /\ (\A i, j \in Reported : i = j) => (\A i, j \in Reported' : i = j)

LEMMA RecFacts == \A r \in Rec : r[1] \in Int
BY DEF Rec

LEMMA SameFlightSame ==
    ASSUME incoming' = incoming
    PROVE  SameFlight
<1>1. Reported' = Reported
  BY DEF Reported
<1>. QED
  BY <1>1 DEF SameFlight

LEMMA SameFlightAppend ==
    ASSUME TypeOK, NEW m, m.kind # "report", incoming' = Append(incoming, m)
    PROVE  SameFlight
<1>0. PICK M : incoming \in Seq(M)
  BY DEF TypeOK, Messages, IsSeq
<1>1. /\ DOMAIN incoming = 1 .. Len(incoming) /\ Len(incoming) \in Nat
      /\ DOMAIN incoming' = 1 .. Len(incoming) + 1 /\ incoming'[Len(incoming) + 1] = m
      /\ \A i \in 1 .. Len(incoming) : incoming'[i] = incoming[i]
  BY <1>0
<1>2. Reported' = Reported
  BY <1>1 DEF Reported
<1>3. \A i \in Reported : incoming'[i] = incoming[i]
  BY <1>1 DEF Reported
<1>. QED
  BY <1>2, <1>3 DEF SameFlight

(* A message taken from the exchange. *)
LEMMA TakeMessage ==
    ASSUME TypeOK, incoming # <<>>, incoming' = Tail(incoming)
    PROVE  /\ Head(incoming) = incoming[1]
           /\ Reported' \subseteq Nat \ {0}
           /\ \A i \in Reported' : i + 1 \in Reported /\ incoming'[i] = incoming[i + 1]
           /\ \A i \in Reported : i = 1 \/ (i - 1 \in Reported' /\ i \in Nat)
           /\ 1 \in Reported <=> incoming[1].kind = "report"
<1>0. PICK M : incoming \in Seq(M)
  BY DEF TypeOK, Messages, IsSeq
<1>1. /\ Len(incoming) \in Nat \ {0} /\ DOMAIN incoming = 1 .. Len(incoming)
      /\ DOMAIN incoming' = 1 .. Len(incoming) - 1
      /\ \A i \in 1 .. Len(incoming) - 1 : incoming'[i] = incoming[i + 1]
      /\ Head(incoming) = incoming[1]
  BY <1>0
<1>2. \A i \in Reported' : i + 1 \in Reported /\ incoming'[i] = incoming[i + 1]
  BY <1>1 DEF Reported
<1>3. \A i \in Reported : i = 1 \/ (i - 1 \in Reported' /\ i \in Nat)
  <2>. SUFFICES ASSUME NEW i \in Reported, i # 1 PROVE i - 1 \in Reported' /\ i \in Nat
    OBVIOUS
  <2>1. i \in 1 .. Len(incoming) /\ incoming[i].kind = "report"
    BY <1>1 DEF Reported
  <2>2. i - 1 \in 1 .. Len(incoming) - 1 /\ (i - 1) + 1 = i /\ i \in Nat
    BY <1>1, <2>1
  <2>3. incoming'[i - 1] = incoming[i]
    BY <1>1, <2>2
  <2>. QED
    BY <1>1, <2>1, <2>2, <2>3 DEF Reported
<1>4. Reported' \subseteq Nat \ {0}
  BY <1>1 DEF Reported
<1>5. 1 \in Reported <=> incoming[1].kind = "report"
  BY <1>1 DEF Reported
<1>. QED
  BY <1>1, <1>2, <1>3, <1>4, <1>5

LEMMA SameFlightTail ==
    ASSUME TypeOK, incoming # <<>>, incoming' = Tail(incoming), Head(incoming).kind # "report"
    PROVE  SameFlight
<1>1. /\ Reported' \subseteq Nat \ {0}
      /\ \A i \in Reported' : i + 1 \in Reported /\ incoming'[i] = incoming[i + 1]
      /\ \A i \in Reported : i - 1 \in Reported'
  BY TakeMessage
<1>2. Reported' = {} <=> Reported = {}
  BY <1>1
<1>3. \A i \in Reported' : \E j \in Reported : incoming'[i] = incoming[j]
  BY <1>1
<1>4. ASSUME \A i, j \in Reported : i = j, NEW i \in Reported', NEW j \in Reported'
      PROVE  i = j
  <2>1. i + 1 = j + 1 /\ i \in Nat /\ j \in Nat
    BY <1>1, <1>4
  <2>. QED
    BY <2>1
<1>. QED
  BY <1>2, <1>3, <1>4 DEF SameFlight

(* The types of what CutInv is about. *)
LEMMA Typed ==
    ASSUME TypeOK
    PROVE  /\ sent \in Seq(Rec) /\ emitted \in Seq(Rec) /\ reports \in Seq(Seq(Rec))
           /\ Len(sent) \in Nat /\ Len(emitted) \in Nat /\ Len(reports) \in Nat
           /\ dev.rec \in Rec /\ dev.rec[1] \in Int /\ dev.more \in BOOLEAN /\ last.rec[1] \in Int
           /\ DataOf(acc) \in Seq(Rec) /\ Len(DataOf(acc)) \in Nat
           /\ \A i \in 1 .. Len(sent) : sent[i][1] \in Int
<1>0. PICK rs \in Seq(ReportData) : rs = acc
  BY DEF TypeOK
<1>1. DataOf(rs) \in Seq(Rec)
  <2>1. PICK m \in ReportData : m = last
    BY DEF TypeOK
  <2>. QED
    BY DataFacts
<1>2. DataOf(acc) \in Seq(Rec) /\ Len(DataOf(acc)) \in Nat
  BY <1>0, <1>1
<1>3. dev.rec \in Rec /\ dev.more \in BOOLEAN /\ last.rec \in Rec
  BY DEF TypeOK, ReportData
<1>4. sent \in Seq(Rec) /\ emitted \in Seq(Rec) /\ reports \in Seq(Seq(Rec))
  BY DEF TypeOK
<1>5. \A i \in 1 .. Len(sent) : sent[i] \in Rec
  BY <1>4
<1>. QED
  BY <1>2, <1>3, <1>4, <1>5, RecFacts

-----------------------------------------------------------------------------
(* A step that leaves the loop where it is, or stops it. *)
LEMMA FrameStep ==
    ASSUME TypeOK, Core,
           UNCHANGED <<sent, emitted, reports, strayed>>, dev'.rec = dev.rec, dev'.more = dev.more,
           Reads' => Reads, Acks' => Acks, Delivers' => Delivers,
           Runs' => acc' = acc /\ last' = last /\ dev'.waits = dev.waits /\ SameFlight,
           cmd' # "ended" => cmd # "ended"
    PROVE  Core'
<1>c. CountInv'
  BY DEF Core, CountInv
<1>. SUFFICES ASSUME ~strayed, Flow PROVE Flow'
  BY <1>c DEF Core
<1>0. Runs' => Runs
  BY DEF Runs
<1>1. FlightInv'
  <2>. SUFFICES ASSUME Runs'
                PROVE  /\ \A i, j \in Reported' : i = j
                       /\ \A i \in Reported' : /\ dev'.waits /\ incoming'[i].rec = dev'.rec
                                               /\ incoming'[i].more = dev'.more
    BY DEF FlightInv
  <2>. QED
    BY <1>0 DEF Flow, FlightInv, SameFlight
<1>2. CycleInv'
  <2>1. Runs' => DataOf(acc') = DataOf(acc)
    BY Zenon
  <2>. QED
    BY <1>0, <2>1 DEF Flow, CycleInv, Runs, SameFlight
<1>3. SentInv'
  BY DEF Flow, SentInv
<1>4. CutInv'
  <2>1. PICK c \in Seq(Nat) : Cuts(c) /\ Taken(c[1]) /\ Rest(c[Len(c)])
    BY DEF Flow, CutInv
  <2>2. Cuts(c)'
    BY <2>1 DEF Cuts, IsCut, IsPiece, Finished
  <2>3. Taken(c[1])'
    BY <2>1 DEF Taken
  <2>4. Rest(c[Len(c)])'
    <3>1. Runs' => DataOf(acc') = DataOf(acc)
      BY Zenon
    <3>. QED
      BY <1>0, <2>1, <3>1 DEF Rest, SameFlight
  <2>. QED
    BY <2>2, <2>3, <2>4 DEF CutInv
<1>. QED
  BY <1>1, <1>2, <1>3, <1>4 DEF Flow

(* The positions of a piece. *)
LEMMA Between ==
    ASSUME NEW k \in Nat, NEW l \in Nat, NEW n \in Nat, l <= n
    PROVE  \A j \in 1 .. l - k : k + j \in 1 .. n
OBVIOUS

(* The device sends its next chunk: none was on its way, so the loop reads or
   is about to deliver, and a cut keeps a finished cycle before it. *)
LEMMA ReportStep ==
    ASSUME TypeOK, Core, ~dev.waits, NEW m \in ReportData, NEW M, incoming \in Seq(M),
           incoming' = Append(incoming, m), m.rec \in Rec,
           m.rec[1] = IF dev.more THEN dev.rec[1] ELSE dev.rec[1] + 1,
           dev'.rec = m.rec, dev'.more = m.more, dev'.waits = TRUE,
           sent' = IF m.item = "data" THEN Append(sent, m.rec) ELSE sent,
           UNCHANGED <<cmd, gor, acc, last, reports, emitted, strayed>>
    PROVE  Core'
<1>c. CountInv'
  BY DEF Core, CountInv
<1>. SUFFICES ASSUME ~strayed, Flow PROVE Flow'
  BY <1>c DEF Core
<1>. DEFINE r == m.rec
            n == Len(sent)
<1>0. /\ sent \in Seq(Rec) /\ n \in Nat /\ dev.rec[1] \in Int /\ dev.more \in BOOLEAN
      /\ r[1] \in Int /\ dev.rec[1] <= r[1] /\ (~dev.more => dev.rec[1] < r[1])
      /\ \A i \in 1 .. n : sent[i][1] \in Int
  BY Typed
<1>1. /\ Len(sent') \in {n, n + 1} /\ Len(sent') = (IF m.item = "data" THEN n + 1 ELSE n)
      /\ \A i \in 1 .. n : sent'[i] = sent[i]
      /\ Len(sent') = n + 1 => sent'[n + 1] = r
      /\ DOMAIN sent' = 1 .. Len(sent') /\ DOMAIN sent = 1 .. n
  BY <1>0
<1>. HIDE DEF n
<1>2. Reads' = Reads /\ Acks' = Acks /\ Delivers' = Delivers /\ Runs' = Runs
  BY DEF Reads, Acks, Delivers, Runs
<1>3. Runs => Reported = {} /\ ~Acks
  BY DEF Flow, FlightInv, CycleInv, Runs
<1>4. /\ Runs => Reported' = {Len(incoming) + 1}
      /\ incoming'[Len(incoming) + 1] = m
  <2>1. /\ DOMAIN incoming = 1 .. Len(incoming) /\ Len(incoming) \in Nat
        /\ DOMAIN incoming' = 1 .. Len(incoming) + 1 /\ incoming'[Len(incoming) + 1] = m
        /\ \A i \in 1 .. Len(incoming) : incoming'[i] = incoming[i]
    OBVIOUS
  <2>2. m.kind = "report"
    BY DEF ReportData
  <2>. QED
    BY <1>3, <2>1, <2>2 DEF Reported
<1>5. FlightInv'
  BY <1>2, <1>4 DEF FlightInv
<1>6. CycleInv'
  <2>1. DataOf(acc') = DataOf(acc)
    BY Zenon
  <2>2. ASSUME Reads PROVE acc # <<>> => last.rec[1] = r[1]
    BY <2>2, <1>0, <1>3 DEF Flow, CycleInv, Runs
  <2>3. ASSUME Delivers PROVE last.rec[1] < r[1]
    BY <2>3, <1>0, <1>3 DEF Flow, CycleInv, Runs
  <2>4. Runs => \A j \in DOMAIN DataOf(acc) : DataOf(acc)[j][1] = last.rec[1]
    BY DEF Flow, CycleInv
  <2>5. Runs => Reported' # {}
    BY <1>4
  <2>. QED
    BY <1>2, <1>3, <2>1, <2>2, <2>3, <2>4, <2>5 DEF CycleInv, Runs
<1>7. SentInv'
  <2>1. /\ \A p, q \in 1 .. n : p <= q => sent[p][1] <= sent[q][1]
        /\ \A p \in 1 .. n : sent[p][1] <= r[1]
    <3>1. /\ \A p, q \in 1 .. n : p <= q => sent[p][1] <= sent[q][1]
          /\ \A p \in 1 .. n : sent[p][1] <= dev.rec[1]
      BY <1>1 DEF Flow, SentInv
    <3>2. ASSUME NEW p \in 1 .. n PROVE sent[p][1] <= r[1]
      <4>1. sent[p][1] <= dev.rec[1] /\ sent[p][1] \in Int
        BY <1>0, <3>1
      <4>. QED
        BY <1>0, <4>1
    <3>. QED
      BY <3>1, <3>2
  <2>2. \A p \in 1 .. Len(sent') : sent'[p][1] <= r[1] /\ (p = n + 1 => sent'[p][1] = r[1])
    BY <1>0, <1>1, <2>1
  <2>3. ASSUME NEW p \in 1 .. Len(sent'), NEW q \in 1 .. Len(sent'), p <= q
        PROVE  sent'[p][1] <= sent'[q][1]
    <3>1. CASE q = n + 1
      BY <2>2, <3>1
    <3>2. CASE q # n + 1
      <4>1. p \in 1 .. n /\ q \in 1 .. n
        BY <1>0, <1>1, <2>3, <3>2
      <4>. QED
        BY <1>1, <2>1, <2>3, <4>1
    <3>. QED
      BY <3>1, <3>2
  <2>. QED
    BY <1>1, <2>2, <2>3 DEF SentInv
<1>8. CutInv'
  <2>1. PICK c \in Seq(Nat) : Cuts(c) /\ Taken(c[1]) /\ Rest(c[Len(c)])
    BY DEF Flow, CutInv
  <2>2. /\ Len(c) = Len(reports) + 1 /\ Len(c) \in Nat \ {0} /\ Len(reports) \in Nat
        /\ \A i \in 1 .. Len(c) : c[i] \in Nat /\ IsCut(c[i])
        /\ \A i \in 1 .. Len(reports) : IsPiece(reports[i], c[i], c[i + 1])
    <3>1. Len(reports) \in Nat
      BY Typed
    <3>2. Len(c) \in Nat /\ \A i \in 1 .. Len(c) : c[i] \in Nat
      OBVIOUS
    <3>. QED
      BY <2>1, <3>1, <3>2 DEF Cuts
  <2>3. ASSUME NEW k \in Nat, IsCut(k) PROVE IsCut(k)'
    <3>1. k <= Len(sent')
      BY <1>0, <1>1, <2>3 DEF IsCut, n
    <3>2. ASSUME k > 0 PROVE Finished(sent[k][1])' /\ sent'[k] = sent[k] /\ sent[k][1] <= dev.rec[1]
      <4>1. k \in 1 .. n
        BY <1>0, <2>3, <3>2 DEF IsCut, n
      <4>2. Finished(sent[k][1]) /\ sent[k][1] \in Int
        BY <1>0, <2>3, <3>2, <4>1 DEF IsCut
      <4>3. sent[k][1] <= dev.rec[1]
        BY <1>0, <4>2 DEF Finished
      <4>4. sent[k][1] < r[1]  \/ (sent[k][1] = r[1] /\ FALSE)
        BY <1>0, <4>2 DEF Finished
      <4>5. sent'[k] = sent[k]
        BY <1>1, <4>1
      <4>. QED
        BY <4>3, <4>4, <4>5 DEF Finished
    <3>3. ASSUME k > 0, k < Len(sent') PROVE sent[k][1] < sent'[k + 1][1]
      <4>1. k \in 1 .. n /\ Finished(sent[k][1]) /\ sent[k][1] \in Int
        BY <1>0, <2>3, <3>3 DEF IsCut, n
      <4>2. CASE k < n
        <5>1. sent[k][1] < sent[k + 1][1] /\ k + 1 \in 1 .. n
          BY <1>0, <2>3, <3>3, <4>2 DEF IsCut, n
        <5>. QED
          BY <1>1, <5>1
      <4>3. CASE ~(k < n)
        <5>1. k = n /\ sent'[k + 1] = r
          BY <1>0, <1>1, <3>3, <4>1, <4>3
        <5>2. sent[k][1] < r[1]
          BY <1>0, <4>1 DEF Finished
        <5>. QED
          BY <5>1, <5>2
      <4>. QED
        BY <4>2, <4>3
    <3>. QED
      BY <3>1, <3>2, <3>3 DEF IsCut
  <2>4. ASSUME NEW i \in 1 .. Len(reports) PROVE IsPiece(reports[i], c[i], c[i + 1])'
    <3>1. /\ i \in 1 .. Len(c) /\ i + 1 \in 1 .. Len(c) /\ IsPiece(reports[i], c[i], c[i + 1])
          /\ c[i] \in Nat /\ c[i + 1] \in Nat /\ c[i + 1] <= n
      <4>1. i \in 1 .. Len(c) /\ i + 1 \in 1 .. Len(c)
        BY <2>2
      <4>2. IsCut(c[i + 1]) /\ IsPiece(reports[i], c[i], c[i + 1])
        BY <2>2, <4>1
      <4>3. c[i] \in Nat /\ c[i + 1] \in Nat
        BY <2>2, <4>1
      <4>. QED
        BY <4>1, <4>2, <4>3 DEF IsCut, n
    <3>2. \A j \in 1 .. Len(reports[i]) : c[i] + j \in 1 .. n
      <4>1. Len(reports[i]) = c[i + 1] - c[i]
        BY <3>1 DEF IsPiece
      <4>2. n \in Nat
        BY <1>0
      <4>3. PICK k \in Nat : k = c[i]
        BY <3>1
      <4>4. PICK l \in Nat : l = c[i + 1] /\ l <= n
        BY <3>1
      <4>5. \A j \in 1 .. l - k : k + j \in 1 .. n
        BY <4>2, <4>4, Between
      <4>. QED
        BY <4>1, <4>3, <4>4, <4>5
    <3>. QED
      BY <1>1, <3>1, <3>2 DEF IsPiece
  <2>5. Cuts(c)'
    BY <2>2, <2>3, <2>4 DEF Cuts
  <2>6. Taken(c[1])'
    <3>1. c[1] \in Nat /\ c[1] <= n /\ Len(emitted) \in Nat
      <4>1. 1 \in 1 .. Len(c) /\ Len(emitted) \in Nat
        BY <2>2, Typed
      <4>2. IsCut(c[1]) /\ c[1] \in Nat
        BY <2>2, <4>1
      <4>. QED
        BY <4>1, <4>2 DEF IsCut, n
    <3>2. \A j \in 1 .. Len(emitted) : j \in 1 .. n
      BY <1>0, <2>1, <3>1 DEF Taken
    <3>. QED
      BY <1>1, <2>1, <3>2 DEF Taken
  <2>7. Rest(c[Len(c)])'
    <3>. SUFFICES ASSUME Runs
                  PROVE  /\ \A j \in 1 .. Len(DataOf(acc')) : sent'[c[Len(c)] + j] = DataOf(acc')[j]
                         /\ \A i \in Reported' :
                              IF incoming'[i].item = "data"
                              THEN /\ Len(sent') = c[Len(c)] + Len(DataOf(acc')) + 1
                                   /\ sent'[Len(sent')] = dev'.rec
                              ELSE Len(sent') = c[Len(c)] + Len(DataOf(acc'))
      BY <1>2, <1>4 DEF Rest
    <3>1. PICK k \in Nat : k = c[Len(c)]
      BY <2>2
    <3>2. PICK D : D = DataOf(acc) /\ D = DataOf(acc') /\ Len(D) \in Nat
      BY Typed
    <3>3. n = k + Len(D) /\ \A j \in 1 .. Len(D) : sent[k + j] = D[j]
      BY <1>3, <2>1, <3>1, <3>2 DEF Rest, n
    <3>4. \A j \in 1 .. Len(D) : k + j \in 1 .. n
      BY <3>2, <3>3
    <3>5. \A j \in 1 .. Len(D) : sent'[k + j] = D[j]
      BY <1>1, <3>3, <3>4
    <3>6. ASSUME NEW i \in Reported'
          PROVE IF incoming'[i].item = "data" THEN Len(sent') = k + Len(D) + 1 /\ sent'[Len(sent')] = dev'.rec
                                              ELSE Len(sent') = k + Len(D)
      BY <1>1, <1>4, <3>3
    <3>. QED
      BY <3>1, <3>2, <3>5, <3>6
  <2>. QED
    BY <2>5, <2>6, <2>7 DEF CutInv
<1>. QED
  BY <1>5, <1>6, <1>7, <1>8 DEF Flow

(* The loop takes the report on its way. *)
LEMMA TakeReportStep ==
    ASSUME TypeOK, Core, Reads, ~Reads', Acks', ~Delivers',
           incoming # <<>>, Head(incoming).kind = "report", incoming' = Tail(incoming),
           acc' = Append(acc, Head(incoming)), last' = Head(incoming),
           cmd' # "ended" => cmd # "ended",
           UNCHANGED <<dev, sent, reports, emitted, strayed>>
    PROVE  Core'
<1>c. CountInv'
  BY DEF Core, CountInv
<1>. SUFFICES ASSUME ~strayed, Flow PROVE Flow'
  BY <1>c DEF Core
<1>1. 1 \in Reported /\ Head(incoming) = incoming[1]
  BY TakeMessage
<1>2. Runs /\ Runs'
  BY DEF Runs
<1>3. Reported' = {}
  <2>1. Reported' \subseteq Nat \ {0} /\ \A i \in Reported' : i + 1 \in Reported
    BY TakeMessage
  <2>2. \A i \in Reported : i = 1
    BY <1>1, <1>2 DEF Flow, FlightInv
  <2>. QED
    BY <2>1, <2>2
<1>4. PICK m \in ReportData : m = incoming[1]
  BY <1>1 DEF TypeOK, Messages
<1>5. m.rec = dev.rec /\ m.more = dev.more /\ dev.waits
  BY <1>1, <1>2, <1>4 DEF Flow, FlightInv
<1>6. PICK rs \in Seq(ReportData) : rs = acc
  BY DEF TypeOK
<1>7. PICK D \in Seq(Rec) : D = DataOf(rs)
  BY DataFacts
<1>8. PICK N : N = D \o Item(m) /\ N = DataOf(acc')
  <2>1. acc' = Append(rs, m)
    BY <1>1, <1>4, <1>6
  <2>2. DataOf(Append(rs, m)) = DataOf(rs) \o Item(m)
    BY DataFacts
  <2>. QED
    BY <1>7, <2>1, <2>2
<1>9. /\ N \in Seq(Rec) /\ Len(D) \in Nat
      /\ Len(N) = (IF m.item = "data" THEN Len(D) + 1 ELSE Len(D))
      /\ \A j \in 1 .. Len(D) : N[j] = D[j]
      /\ Len(N) = Len(D) + 1 => N[Len(D) + 1] = m.rec
  <2>1. CASE m.item = "data"
    <3>1. PICK x \in Rec : x = m.rec
      BY DEF ReportData
    <3>2. N = D \o <<x>>
      BY <1>8, <2>1, <3>1 DEF Item
    <3>3. /\ D \o <<x>> \in Seq(Rec) /\ Len(D \o <<x>>) = Len(D) + 1
          /\ (D \o <<x>>)[Len(D) + 1] = x
          /\ \A j \in 1 .. Len(D) : (D \o <<x>>)[j] = D[j]
      BY OneMore
    <3>4. Len(D) \in Nat
      OBVIOUS
    <3>5. /\ N \in Seq(Rec) /\ Len(N) = Len(D) + 1
          /\ N[Len(D) + 1] = x
          /\ \A j \in 1 .. Len(D) : N[j] = D[j]
      BY <3>2, <3>3, Zenon
    <3>. QED
      BY <2>1, <3>1, <3>4, <3>5, Zenon
  <2>2. CASE m.item # "data"
    <3>1. N = D
      BY <1>8, <2>2, ConcatEmptySeq DEF Item
    <3>. QED
      BY <2>2, <3>1
  <2>. QED
    BY <2>1, <2>2
<1>10. /\ acc = <<>> => D = <<>>
       /\ acc # <<>> => last.rec[1] = dev.rec[1]
       /\ \A j \in 1 .. Len(D) : D[j][1] = last.rec[1]
  <2>1. acc = <<>> => D = <<>>
    BY <1>6, <1>7, DataFacts
  <2>2. DOMAIN D = 1 .. Len(D)
    OBVIOUS
  <2>3. D = DataOf(acc)
    BY <1>6, <1>7
  <2>. QED
    BY <1>2, <2>1, <2>2, <2>3 DEF Flow, CycleInv
<1>11. FlightInv'
  BY <1>3 DEF FlightInv
<1>12. CycleInv'
  <2>1. acc' # <<>>
    <3>1. acc' = Append(rs, m)
      BY <1>1, <1>4, <1>6
    <3>. QED
      BY <3>1
  <2>2. last' = m
    BY <1>1, <1>4
  <2>3. \A j \in 1 .. Len(D) : D[j][1] = dev.rec[1]
    <3>1. CASE acc = <<>>
      BY <1>10, <3>1
    <3>2. CASE acc # <<>>
      BY <1>10, <3>2
    <3>. QED
      BY <3>1, <3>2
  <2>4. ASSUME NEW j \in DOMAIN N PROVE N[j][1] = dev.rec[1]
    <3>1. j \in 1 .. Len(N)
      BY <1>9
    <3>2. CASE j \in 1 .. Len(D)
      BY <1>9, <2>3, <3>2
    <3>3. CASE j \notin 1 .. Len(D)
      <4>1. j = Len(D) + 1 /\ Len(N) = Len(D) + 1
        BY <1>9, <3>1, <3>3
      <4>. QED
        BY <1>5, <1>9, <4>1
    <3>. QED
      BY <3>2, <3>3
  <2>5. Runs' => \A j \in DOMAIN DataOf(acc') : DataOf(acc')[j][1] = last'.rec[1]
    BY <1>5, <1>8, <2>2, <2>4
  <2>6. last'.rec = dev'.rec /\ last'.more = dev'.more /\ dev'.waits
    BY <1>5, <2>2
  <2>. QED
    BY <1>3, <2>1, <2>5, <2>6 DEF CycleInv
<1>13. SentInv'
  BY DEF Flow, SentInv
<1>14. CutInv'
  <2>1. PICK c \in Seq(Nat) : Cuts(c) /\ Taken(c[1]) /\ Rest(c[Len(c)])
    BY DEF Flow, CutInv
  <2>2. Cuts(c)'
    BY <2>1 DEF Cuts, IsCut, IsPiece, Finished
  <2>3. Taken(c[1])'
    BY <2>1 DEF Taken
  <2>4. Rest(c[Len(c)])'
    <3>0. c[Len(c)] \in Nat
      <4>1. Len(reports) \in Nat
        BY Typed
      <4>2. Len(c) = Len(reports) + 1
        BY <2>1 DEF Cuts
      <4>. QED
        BY <4>1, <4>2
    <3>1. PICK k \in Nat : k = c[Len(c)]
      BY <3>0
    <3>2. D = DataOf(acc)
      BY <1>6, <1>7
    <3>3. /\ \A j \in 1 .. Len(D) : sent[k + j] = D[j]
          /\ IF m.item = "data" THEN Len(sent) = k + Len(D) + 1 /\ sent[Len(sent)] = dev.rec
                                ELSE Len(sent) = k + Len(D)
      BY <1>1, <1>2, <1>4, <2>1, <3>1, <3>2 DEF Rest
    <3>4. Len(sent) = k + Len(N)
      BY <1>9, <3>3
    <3>5. ASSUME NEW j \in 1 .. Len(N) PROVE sent[k + j] = N[j]
      <4>1. CASE j \in 1 .. Len(D)
        BY <1>9, <3>3, <4>1
      <4>2. CASE j \notin 1 .. Len(D)
        <5>1. j = Len(D) + 1 /\ Len(N) = Len(D) + 1 /\ k + j = Len(sent)
          BY <1>9, <3>4, <4>2
        <5>2. m.item = "data"
          BY <1>9, <5>1
        <5>. QED
          BY <1>5, <1>9, <3>3, <5>1, <5>2
      <4>. QED
        BY <4>1, <4>2
    <3>. QED
      BY <1>3, <1>8, <3>1, <3>4, <3>5 DEF Rest
  <2>. QED
    BY <2>2, <2>3, <2>4 DEF CutInv
<1>. QED
  BY <1>11, <1>12, <1>13, <1>14 DEF Flow

(* The loop acknowledges the report it has taken, and reads on or has the
   whole cycle. *)
LEMMA AckStep ==
    ASSUME TypeOK, Core, Acks, ~Acks', Reads' = last.more, Delivers' = ~last.more,
           dev'.rec = dev.rec, dev'.more = dev.more,
           cmd' # "ended" => cmd # "ended",
           UNCHANGED <<incoming, acc, last, sent, reports, emitted, strayed>>
    PROVE  Core'
<1>c. CountInv'
  BY DEF Core, CountInv
<1>. SUFFICES ASSUME ~strayed, Flow PROVE Flow'
  BY <1>c DEF Core
<1>1. /\ acc # <<>> /\ Reported = {} /\ last.rec = dev.rec /\ last.more = dev.more
      /\ \A j \in DOMAIN DataOf(acc) : DataOf(acc)[j][1] = last.rec[1]
  BY DEF Flow, CycleInv, Runs
<1>2. Reported' = {}
  BY <1>1 DEF Reported
<1>3. DataOf(acc') = DataOf(acc)
  BY Zenon
<1>4. FlightInv'
  BY <1>2 DEF FlightInv
<1>5. CycleInv'
  BY <1>1, <1>2, <1>3 DEF CycleInv
<1>6. SentInv'
  BY DEF Flow, SentInv
<1>7. CutInv'
  <2>1. PICK c \in Seq(Nat) : Cuts(c) /\ Taken(c[1]) /\ Rest(c[Len(c)])
    BY DEF Flow, CutInv
  <2>2. Cuts(c)'
    BY <2>1 DEF Cuts, IsCut, IsPiece, Finished
  <2>3. Taken(c[1])'
    BY <2>1 DEF Taken
  <2>4. Rest(c[Len(c)])'
    BY <1>1, <1>2, <1>3, <2>1 DEF Rest, Runs
  <2>. QED
    BY <2>2, <2>3, <2>4 DEF CutInv
<1>. QED
  BY <1>4, <1>5, <1>6, <1>7 DEF Flow

(* The cycle is complete and becomes a batch, unless it holds no data: one
   more cut, after what was accumulated. *)
LEMMA DeliverStep ==
    ASSUME TypeOK, Core, Delivers, Reads', ~Acks', ~Delivers', SameFlight, acc' = <<>>,
           reports' = IF DataOf(acc) = <<>> THEN reports ELSE Append(reports, DataOf(acc)),
           cmd' # "ended" => cmd # "ended",
           UNCHANGED <<dev, sent, emitted, strayed>>
    PROVE  Core'
<1>c. CountInv'
  BY DEF Core, CountInv
<1>. SUFFICES ASSUME ~strayed, Flow PROVE Flow'
  BY <1>c DEF Core
<1>0. Runs /\ Runs'
  BY DEF Runs
<1>1. PICK D \in Seq(Rec) : D = DataOf(acc)
  BY Typed
<1>2. DataOf(acc') = <<>>
  <2>1. PICK rs \in Seq(ReportData) : rs = acc
    BY DEF TypeOK
  <2>2. PICK m \in ReportData : m = last
    BY DEF TypeOK
  <2>3. DataOf(<<>>) = <<>>
    BY DataFacts
  <2>. QED
    BY <2>3, Zenon
<1>3. /\ Reported = {} => last.rec[1] = dev.rec[1] /\ ~dev.more
      /\ Reported # {} => last.rec[1] < dev.rec[1]
      /\ \A j \in 1 .. Len(D) : D[j][1] = last.rec[1]
  <2>1. DOMAIN D = 1 .. Len(D)
    OBVIOUS
  <2>. QED
    BY <1>0, <1>1, <2>1 DEF Flow, CycleInv
<1>4. FlightInv'
  BY <1>0 DEF Flow, FlightInv, SameFlight
<1>5. CycleInv'
  <2>1. DOMAIN DataOf(acc') = {}
    BY <1>2
  <2>2. Reported' = {} => ~dev'.more
    BY <1>3 DEF SameFlight
  <2>. QED
    BY <2>1, <2>2 DEF CycleInv
<1>6. SentInv'
  BY DEF Flow, SentInv
<1>7. CutInv'
  <2>1. PICK c \in Seq(Nat) : Cuts(c) /\ Taken(c[1]) /\ Rest(c[Len(c)])
    BY DEF Flow, CutInv
  <2>2. PICK n \in Nat \ {0} : n = Len(c) /\ n = Len(reports) + 1 /\ n - 1 = Len(reports)
    <3>1. Len(reports) \in Nat
      BY Typed
    <3>2. Len(c) = Len(reports) + 1
      BY <2>1 DEF Cuts
    <3>. QED
      BY <3>1, <3>2
  <2>3. PICK k \in Nat : k = c[n]
    <3>1. n \in 1 .. Len(c)
      BY <2>2
    <3>2. c[n] \in Nat
      BY <3>1
    <3>. QED
      BY <3>2, Zenon
  <2>4. /\ \A j \in 1 .. Len(D) : sent[k + j] = D[j]
        /\ Reported = {} => Len(sent) = k + Len(D)
        /\ \A i \in Reported :
             IF incoming[i].item = "data"
             THEN Len(sent) = k + Len(D) + 1 /\ sent[Len(sent)] = dev.rec
             ELSE Len(sent) = k + Len(D)
    BY <1>0, <1>1, <2>1, <2>2, <2>3 DEF Rest
  <2>5. PICK l \in Nat : l = k + Len(D)
    OBVIOUS
  <2>6. Rest(l)'
    <3>1. Len(DataOf(acc')) = 0 /\ l + Len(DataOf(acc')) = l
      BY <1>2
    <3>2. \A i \in Reported' :
             IF incoming'[i].item = "data"
             THEN Len(sent) = l + 1 /\ sent[Len(sent)] = dev.rec
             ELSE Len(sent) = l
      <4>1. \A i \in Reported :
               IF incoming[i].item = "data"
               THEN Len(sent) = l + 1 /\ sent[Len(sent)] = dev.rec
               ELSE Len(sent) = l
        BY <2>4, <2>5
      <4>2. \A i \in Reported' : \E j \in Reported : incoming'[i] = incoming[j]
        BY DEF SameFlight
      <4>. QED
        BY <4>1, <4>2, Zenon
    <3>3. Reported' = {} => Len(sent) = l
      BY <2>4, <2>5 DEF SameFlight
    <3>. QED
      BY <3>1, <3>2, <3>3 DEF Rest
  <2>7. CASE D = <<>>
    <3>1. reports' = reports /\ l = k
      BY <1>1, <2>5, <2>7
    <3>2. Cuts(c)'
      BY <2>1, <3>1 DEF Cuts, IsCut, IsPiece, Finished
    <3>3. Taken(c[1])'
      BY <2>1 DEF Taken
    <3>. QED
      BY <2>2, <2>3, <2>6, <3>1, <3>2, <3>3 DEF CutInv
  <2>8. CASE D # <<>>
    <3>0. Len(D) \in Nat \ {0} /\ k < l
      BY <2>5, <2>8
    <3>1. /\ reports \in Seq(Seq(Rec)) /\ reports' = Append(reports, D)
          /\ Len(reports) = n - 1
      BY <1>1, <2>2, <2>8, Typed
    <3>2. /\ Len(reports') = n /\ reports'[n] = D
          /\ \A i \in 1 .. n - 1 : reports'[i] = reports[i]
      BY <3>1
    <3>a. /\ Append(c, l) \in Seq(Nat) /\ Len(Append(c, l)) = Len(c) + 1
          /\ \A i \in 1 .. Len(c) : Append(c, l)[i] = c[i]
          /\ Append(c, l)[Len(c) + 1] = l
      BY AppendProperties
    <3>3. PICK e \in Seq(Nat) : e = Append(c, l)
      BY <3>a, Zenon
    <3>4. /\ Len(e) = n + 1 /\ e[n + 1] = l
          /\ \A i \in 1 .. n : e[i] = c[i] /\ e[i] \in Nat
      <4>1. /\ Len(e) = n + 1 /\ e[n + 1] = l /\ \A i \in 1 .. n : e[i] = c[i]
        BY <2>2, <3>a, <3>3, Zenon
      <4>2. \A i \in 1 .. Len(c) : c[i] \in Nat
        OBVIOUS
      <4>. QED
        BY <2>2, <4>1, <4>2, Zenon
    <3>5. IsCut(l)'
      <4>1. /\ Len(sent) \in Nat /\ l <= Len(sent) /\ Len(sent) <= l + 1
            /\ l < Len(sent) => Reported # {} /\ sent[l + 1] = dev.rec
        <5>1. Len(sent) \in Nat
          BY Typed
        <5>2. CASE Reported = {}
          BY <2>4, <2>5, <5>1, <5>2
        <5>3. CASE Reported # {}
          <6>1. PICK i \in Reported : TRUE
            BY <5>3
          <6>2. IF incoming[i].item = "data"
                THEN Len(sent) = l + 1 /\ sent[Len(sent)] = dev.rec
                ELSE Len(sent) = l
            BY <2>4, <2>5, <6>1
          <6>. QED
            BY <5>1, <5>3, <6>2
        <5>. QED
          BY <5>2, <5>3
      <4>2. sent[l] = D[Len(D)] /\ sent[l][1] = last.rec[1]
        <5>1. Len(D) \in 1 .. Len(D)
          BY <3>0
        <5>. QED
          BY <1>3, <2>4, <2>5, <5>1
      <4>3. Finished(sent[l][1])
        BY <1>3, <4>2 DEF Finished
      <4>4. l < Len(sent) => sent[l][1] < sent[l + 1][1]
        BY <1>3, <4>1, <4>2
      <4>5. IsCut(l)
        BY <4>1, <4>3, <4>4 DEF IsCut
      <4>. QED
        BY <4>5 DEF IsCut, Finished
    <3>6. IsPiece(D, k, l)'
      <4>1. Len(D) = l - k
        BY <2>5
      <4>2. \A j \in 1 .. Len(D) : D[j] = sent[k + j] /\ D[j][1] = D[1][1]
        <5>1. 1 \in 1 .. Len(D)
          BY <3>0
        <5>. QED
          BY <1>3, <2>4, <5>1
      <4>. QED
        BY <3>0, <4>1, <4>2 DEF IsPiece
    <3>7. ASSUME NEW i \in 1 .. n + 1 PROVE IsCut(e[i])'
      <4>1. CASE i = n + 1
        BY <3>4, <3>5, <4>1
      <4>2. CASE i # n + 1
        <5>1. i \in 1 .. n
          BY <4>2
        <5>2. IsCut(e[i])
          BY <2>1, <2>2, <3>4, <5>1 DEF Cuts
        <5>. QED
          BY <5>2 DEF IsCut, Finished
      <4>. QED
        BY <4>1, <4>2
    <3>8. ASSUME NEW i \in 1 .. n PROVE IsPiece(reports[i], e[i], e[i + 1])'
      <4>1. CASE i = n
        <5>1. e[i] = k /\ e[i + 1] = l /\ reports'[i] = D
          BY <2>3, <3>2, <3>4, <4>1
        <5>. QED
          BY <3>6, <5>1 DEF IsPiece
      <4>2. CASE i # n
        <5>1. i \in 1 .. n - 1 /\ i \in 1 .. n /\ i + 1 \in 1 .. n
          BY <4>2
        <5>2. IsPiece(reports[i], c[i], c[i + 1])
          BY <2>1, <2>2, <5>1 DEF Cuts
        <5>3. e[i] = c[i] /\ e[i + 1] = c[i + 1] /\ reports'[i] = reports[i]
          BY <3>2, <3>4, <5>1
        <5>. QED
          BY <5>2, <5>3 DEF IsPiece
      <4>. QED
        BY <4>1, <4>2
    <3>9. Cuts(e)'
      BY <3>2, <3>4, <3>7, <3>8 DEF Cuts
    <3>10. Taken(e[1])'
      <4>1. e[1] = c[1]
        <5>1. 1 \in 1 .. n
          BY <2>2
        <5>. QED
          BY <3>4, <5>1
      <4>. QED
        BY <2>1, <4>1 DEF Taken
    <3>11. Rest(e[Len(e)])'
      BY <2>6, <3>4 DEF Rest
    <3>. QED
      BY <3>9, <3>10, <3>11 DEF CutInv
  <2>. QED
    BY <2>7, <2>8
<1>. QED
  BY <1>4, <1>5, <1>6, <1>7 DEF Flow

(* How much of a batch is written, for a batch of a records when e are
   written already. *)
LEMMA MinOfTwo ==
    ASSUME NEW a \in Nat, NEW e \in Int
    PROVE  Min({a, e}) = IF a <= e THEN a ELSE e
<1>1. PICK x : x = (IF a <= e THEN a ELSE e)
  OBVIOUS
<1>2. x \in {a, e} /\ \A y \in {a, e} : x =< y
  BY <1>1
<1>3. \A z \in {a, e} : (\A y \in {a, e} : z =< y) => z = x
  BY <1>1
<1>4. (CHOOSE z \in {a, e} : \A y \in {a, e} : z =< y) = x
  BY <1>2, <1>3, Zenon
<1>. QED
  BY <1>1, <1>4 DEF Min

LEMMA WrittenFacts ==
    ASSUME TypeOK, CountInv, cmd = "stream", NEW b \in Seq(Rec)
    PROVE  /\ Written(b) \in 0 .. Len(b)
           /\ Count > 0 => Len(emitted) + Written(b) <= Count
           /\ ~BoundReached(Len(emitted) + Written(b)) => Written(b) = Len(b)
<1>0. Count \in Nat
  BY SubscriptionAssumption
<1>1. PICK a \in Nat : a = Len(b)
  OBVIOUS
<1>2. PICK e \in Nat : e = Len(emitted)
  BY Typed
<1>3. Count > 0 => Count - e > 0 /\ Count - e \in Int
  BY <1>0, <1>2 DEF CountInv
<1>4. Count > 0 => Min({a, Count - e}) = IF a <= Count - e THEN a ELSE Count - e
  BY <1>3, MinOfTwo
<1>5. Written(b) = IF Count = 0 THEN a ELSE Min({a, Count - e})
  BY <1>1, <1>2 DEF Written
<1>. QED
  BY <1>0, <1>1, <1>2, <1>3, <1>4, <1>5 DEF BoundReached

(* The command takes a batch: the first cut moves up to the next one, unless
   the command ends with a part of the batch written. *)
LEMMA BatchStep ==
    ASSUME TypeOK, Core, cmd = "stream", cmd' \in {"stream", "ended"}, CountInv',
           reports # <<>>, reports' = Tail(reports),
           NEW w \in Nat, w <= Len(reports[1]), cmd' # "ended" => w = Len(reports[1]),
           emitted' = emitted \o SubSeq(reports[1], 1, w),
           UNCHANGED <<gor, acc, last, incoming, dev, sent, strayed>>
    PROVE  Core'
<1>. SUFFICES ASSUME ~strayed, Flow PROVE Flow'
  BY DEF Core
<1>0. /\ Reads' = Reads /\ Acks' = Acks /\ Delivers' = Delivers /\ Runs' = Runs
      /\ Reported' = Reported
  BY DEF Reads, Acks, Delivers, Runs, Reported
<1>1. DataOf(acc') = DataOf(acc)
  BY Zenon
<1>2. FlightInv'
  BY <1>0 DEF Flow, FlightInv
<1>3. CycleInv'
  BY <1>0, <1>1 DEF Flow, CycleInv
<1>4. SentInv'
  BY DEF Flow, SentInv
<1>5. CutInv'
  <2>1. PICK c \in Seq(Nat) : Cuts(c) /\ Taken(c[1]) /\ Rest(c[Len(c)])
    BY DEF Flow, CutInv
  <2>a. reports \in Seq(Seq(Rec)) /\ Len(reports) \in Nat /\ Len(c) = Len(reports) + 1
    BY <2>1, Typed DEF Cuts
  <2>2. PICK n \in Nat \ {0} : n = Len(reports) /\ Len(c) = n + 1
    BY <2>a
  <2>3. PICK old \in Seq(Seq(Rec)) : old = reports
    BY <2>a
  <2>4. /\ Len(reports') = n - 1 /\ \A i \in 1 .. n - 1 : reports'[i] = reports[i + 1]
    BY <2>2, <2>3
  <2>5. /\ Tail(c) \in Seq(Nat) /\ Len(Tail(c)) = n
        /\ \A i \in 1 .. n : Tail(c)[i] = c[i + 1]
    BY <2>2
  <2>6. PICK e \in Seq(Nat) : e = Tail(c)
    BY <2>5, Zenon
  <2>7. Len(e) = n /\ \A i \in 1 .. n : e[i] = c[i + 1]
    BY <2>5, <2>6
  <2>8. Cuts(e)'
    <3>1. ASSUME NEW i \in 1 .. n PROVE IsCut(e[i])'
      <4>1. i + 1 \in 1 .. Len(c)
        BY <2>2
      <4>2. IsCut(c[i + 1])
        BY <2>1, <4>1 DEF Cuts
      <4>. QED
        BY <2>7, <4>2 DEF IsCut, Finished
    <3>2. ASSUME NEW i \in 1 .. n - 1 PROVE IsPiece(reports[i], e[i], e[i + 1])'
      <4>1. i \in 1 .. n /\ i + 1 \in 1 .. n
        OBVIOUS
      <4>2. IsPiece(reports[i + 1], c[i + 1], c[i + 1 + 1])
        BY <2>1, <2>2, <4>1 DEF Cuts
      <4>3. reports'[i] = reports[i + 1] /\ e[i] = c[i + 1] /\ e[i + 1] = c[i + 1 + 1]
        BY <2>4, <2>7, <4>1
      <4>. QED
        BY <4>2, <4>3 DEF IsPiece
    <3>. QED
      BY <2>4, <2>7, <3>1, <3>2 DEF Cuts
  <2>9. PICK b \in Seq(Rec) : b = reports[1]
    <3>1. reports[1] \in Seq(Rec)
      BY <2>2, <2>3
    <3>. QED
      BY <3>1, Zenon
  <2>10. PICK k \in Nat : k = c[1]
    BY <2>2
  <2>11. PICK l \in Nat : l = c[2] /\ l = e[1]
    <3>1. 1 \in 1 .. n /\ 1 + 1 = 2 /\ 2 \in 1 .. Len(c)
      BY <2>2
    <3>2. c[2] \in Nat
      BY <3>1
    <3>3. e[1] = c[2]
      BY <2>7, <3>1
    <3>. QED
      BY <3>2, <3>3, Zenon
  <2>12. Len(b) = l - k /\ k < l /\ \A j \in 1 .. Len(b) : b[j] = sent[k + j]
    <3>1. 1 \in 1 .. Len(reports) /\ 1 + 1 = 2
      BY <2>2
    <3>2. IsPiece(reports[1], c[1], c[2])
      BY <2>1, <3>1 DEF Cuts
    <3>. QED
      BY <2>9, <2>10, <2>11, <3>2 DEF IsPiece
  <2>13. PICK em \in Seq(Rec) : em = emitted
    BY DEF TypeOK
  <2>14. Len(em) = k /\ \A j \in 1 .. k : em[j] = sent[j]
    BY <2>1, <2>10, <2>13 DEF Taken
  <2>15. PICK p \in Seq(Rec) : p = SubSeq(b, 1, w) /\ Len(p) = w /\ \A j \in 1 .. w : p[j] = b[j]
    <3>1. /\ SubSeq(b, 1, w) \in Seq(Rec) /\ Len(SubSeq(b, 1, w)) = w
          /\ \A j \in 1 .. w : SubSeq(b, 1, w)[j] = b[j]
      BY <2>9, FirstOnes
    <3>. QED
      BY <3>1, Zenon
  <2>16. emitted' = em \o p
    BY <2>9, <2>13, <2>15
  <2>17. /\ Len(emitted') = k + w
         /\ \A j \in 1 .. k + w : emitted'[j] = IF j <= k THEN em[j] ELSE p[j - k]
    <3>1. /\ Len(em \o p) = Len(em) + Len(p)
          /\ \A j \in 1 .. Len(em) + Len(p) : (em \o p)[j] =
                      IF j <= Len(em) THEN em[j] ELSE p[j - Len(em)]
      BY ConcatProperties
    <3>. QED
      BY <2>14, <2>15, <2>16, <3>1, Zenon
  <2>18. Taken(e[1])'
    <3>1. k + w <= l /\ (cmd' # "ended" => k + w = l)
      BY <2>9, <2>12
    <3>2. ASSUME NEW j \in 1 .. k + w PROVE emitted'[j] = sent[j]
      <4>1. CASE j <= k
        BY <2>14, <2>17, <4>1
      <4>2. CASE ~(j <= k)
        <5>1. j - k \in 1 .. w /\ j - k \in 1 .. Len(b) /\ k + (j - k) = j
          BY <2>9, <4>2
        <5>2. emitted'[j] = p[j - k] /\ p[j - k] = b[j - k]
          BY <2>15, <2>17, <4>2, <5>1
        <5>. QED
          BY <2>12, <5>1, <5>2
      <4>. QED
        BY <4>1, <4>2
    <3>. QED
      BY <2>11, <2>17, <3>1, <3>2 DEF Taken
  <2>19. Rest(e[Len(e)])'
    <3>1. e[Len(e)] = c[Len(c)]
      <4>1. n \in 1 .. n
        BY <2>2
      <4>. QED
        BY <2>2, <2>7, <4>1
    <3>. QED
      BY <1>0, <1>1, <2>1, <3>1 DEF Rest
  <2>. QED
    BY <2>8, <2>18, <2>19 DEF CutInv
<1>. QED
  BY <1>2, <1>3, <1>4, <1>5 DEF Flow

-----------------------------------------------------------------------------
(* The messages of the exchange keep their types. *)
LEMMA MessagesSame ==
    ASSUME Messages, UNCHANGED <<incoming, air>>
    PROVE  Messages'
BY DEF Messages, Reported, IsSeq

LEMMA MessagesTail ==
    ASSUME TypeOK, incoming # <<>>, incoming' = Tail(incoming), air' = air
    PROVE  Messages'
<1>1. PICK M : incoming \in Seq(M)
  BY DEF TypeOK, Messages, IsSeq
<1>2. incoming' \in Seq(M)
  BY <1>1
<1>3. \A i \in Reported' : incoming'[i] \in ReportData
  BY TakeMessage DEF TypeOK, Messages
<1>4. \A m \in air' : m.kind = "report" => m \in ReportData
  BY DEF TypeOK, Messages
<1>. QED
  BY <1>2, <1>3, <1>4 DEF Messages, IsSeq

LEMMA MessagesLate ==
    ASSUME TypeOK, NEW m, m.kind = "report" => m \in ReportData, incoming' = incoming,
           \A x \in air' : x \in air \/ x = m
    PROVE  Messages'
<1>1. \A x \in air' : x.kind = "report" => x \in ReportData
  BY DEF TypeOK, Messages
<1>2. Reported' = Reported
  BY DEF Reported
<1>. QED
  BY <1>1, <1>2 DEF TypeOK, Messages, IsSeq

LEMMA MessagesAppend ==
    ASSUME TypeOK, NEW m, m.kind = "report" => m \in ReportData, incoming' = Append(incoming, m),
           \A x \in air' : x \in air \/ x = m
    PROVE  Messages'
<1>1. PICK M : incoming \in Seq(M)
  BY DEF TypeOK, Messages, IsSeq
<1>2. PICK N : m \in N /\ incoming \in Seq(N)
  <2>1. PICK s \in Seq(M) : s = incoming
    BY <1>1
  <2>2. PICK N : m \in N /\ \A x \in M : x \in N
    <3>1. m \in M \cup {m} /\ \A x \in M : x \in M \cup {m}
      OBVIOUS
    <3>. QED
      BY <3>1
  <2>3. Len(s) \in Nat /\ s = [i \in 1 .. Len(s) |-> s[i]] /\ \A i \in 1 .. Len(s) : s[i] \in N
    BY <2>2
  <2>4. [i \in 1 .. Len(s) |-> s[i]] \in Seq(N)
    BY <2>3, IsASeq
  <2>. QED
    BY <2>1, <2>2, <2>3, <2>4
<1>3. Append(incoming, m) \in Seq(N)
  BY <1>2
<1>4. ASSUME NEW i \in Reported' PROVE incoming'[i] \in ReportData
  <2>1. /\ DOMAIN incoming = 1 .. Len(incoming) /\ Len(incoming) \in Nat
        /\ DOMAIN incoming' = 1 .. Len(incoming) + 1 /\ incoming'[Len(incoming) + 1] = m
        /\ \A j \in 1 .. Len(incoming) : incoming'[j] = incoming[j]
    BY <1>1
  <2>2. i \in 1 .. Len(incoming) + 1 /\ incoming'[i].kind = "report"
    BY <2>1 DEF Reported
  <2>3. CASE i = Len(incoming) + 1
    BY <2>1, <2>2, <2>3
  <2>4. CASE i # Len(incoming) + 1
    <3>1. i \in 1 .. Len(incoming) /\ incoming'[i] = incoming[i]
      BY <2>1, <2>2, <2>4
    <3>2. i \in Reported
      BY <2>1, <2>2, <3>1 DEF Reported
    <3>. QED
      BY <3>1, <3>2 DEF TypeOK, Messages
  <2>. QED
    BY <2>3, <2>4
<1>5. \A x \in air' : x.kind = "report" => x \in ReportData
  BY DEF TypeOK, Messages
<1>. QED
  BY <1>3, <1>4, <1>5 DEF Messages, IsSeq

(* An acknowledgement. *)
LEMMA AckFacts ==
    ASSUME TypeOK, Acknowledge
    PROVE  /\ dev' \in [rec : Rec, more : BOOLEAN, waits : BOOLEAN, established : BOOLEAN]
           /\ dev'.rec = dev.rec /\ dev'.more = dev.more
<1>1. dev \in [rec : Rec, more : BOOLEAN, waits : BOOLEAN, established : BOOLEAN]
  BY DEF TypeOK
<1>2. dev' = [dev EXCEPT !.waits = FALSE]
  BY DEF Acknowledge
<1>. QED
  BY <1>1, <1>2

(* A step of the command or of the goroutine that only stops it. *)
LEMMA StopStep ==
    ASSUME TypeOK, PhaseInv, Core, Messages',
           UNCHANGED <<last, reports, emitted, sent, strayed>>, acc' \in Seq(ReportData),
           dev' \in [rec : Rec, more : BOOLEAN, waits : BOOLEAN, established : BOOLEAN],
           dev'.rec = dev.rec, dev'.more = dev.more,
           \/ cmd' = "ended" /\ gor' = gor /\ cmd # "stream" /\ cmd # "ended"
           \/ cmd' = cmd /\ gor # "none" /\ gor' \in {"close", "ended"}
    PROVE  TypeOK' /\ PhaseInv' /\ Core'
<1>1. TypeOK'
  BY DEF TypeOK
<1>2. PhaseInv'
  BY DEF TypeOK, PhaseInv
<1>3. ~Runs'
  BY DEF TypeOK, PhaseInv, Runs, Reads, Acks, Delivers
<1>4. Core'
  BY <1>3, FrameStep DEF TypeOK, Runs
<1>. QED
  BY <1>1, <1>2, <1>4

(* A step that leaves the loop alone. *)
LEMMA IdleStep ==
    ASSUME TypeOK, PhaseInv, Core, Messages', SameFlight,
           UNCHANGED <<gor, acc, last, reports, emitted, sent, strayed>>,
           dev' \in [rec : Rec, more : BOOLEAN, waits : BOOLEAN, established : BOOLEAN],
           dev'.rec = dev.rec, dev'.more = dev.more, dev'.waits = dev.waits,
           cmd' = cmd \/ cmd' = "ended",
           cmd' = "request" => UNCHANGED <<incoming, air>>
    PROVE  TypeOK' /\ PhaseInv' /\ Core'
<1>1. TypeOK'
  BY DEF TypeOK
<1>2. PhaseInv'
  BY DEF TypeOK, PhaseInv
<1>3. (Reads' => Reads) /\ (Acks' => Acks) /\ (Delivers' => Delivers)
  BY DEF Reads, Acks, Delivers
<1>4. Core'
  BY <1>3, FrameStep
<1>. QED
  BY <1>1, <1>2, <1>4

-----------------------------------------------------------------------------
(* The steps of Subscribe. *)
LEMMA SubscribeFailsStep ==
    ASSUME IndInv, SubscribeFails, cmd \in {"request", "priming", "ack", "response"}, Messages'
    PROVE  IndInv'
<1>1. TypeOK /\ PhaseInv /\ Core
  BY DEF IndInv
<1>2. /\ UNCHANGED <<last, reports, emitted, sent, acc, dev, gor, strayed>> /\ cmd' = "ended"
  BY DEF SubscribeFails, Return, gorVars, devVars
<1>3. /\ acc' \in Seq(ReportData)
      /\ dev' \in [rec : Rec, more : BOOLEAN, waits : BOOLEAN, established : BOOLEAN]
  BY <1>1, <1>2 DEF TypeOK
<1>4. TypeOK' /\ PhaseInv' /\ Core'
  BY <1>1, <1>2, <1>3, StopStep
<1>. QED
  BY <1>4 DEF IndInv

LEMMA RequestStep ==
    ASSUME IndInv, Request
    PROVE  IndInv'
<1>1. TypeOK /\ PhaseInv /\ Core /\ Messages /\ cmd = "request"
  BY DEF IndInv, TypeOK, Request
<1>2. CASE SubscribeFails /\ UNCHANGED incoming
  BY <1>1, <1>2, MessagesSame, SubscribeFailsStep DEF SubscribeFails, devVars
<1>3. CASE /\ cmd' = "priming" /\ Acknowledge
           /\ UNCHANGED <<outcome, emitted, gorVars, signalled, cancelled, exchange, incoming,
                          sent, lost, nFaults, air, strayed>>
  <2>1. UNCHANGED <<emitted, gor, acc, last, reports, incoming, sent, air, strayed>>
    BY <1>3 DEF gorVars
  <2>2. /\ dev' \in [rec : Rec, more : BOOLEAN, waits : BOOLEAN, established : BOOLEAN]
        /\ dev'.rec = dev.rec /\ dev'.more = dev.more
    BY <1>1, <1>3, AckFacts
  <2>3. Messages'
    BY <1>1, <2>1, MessagesSame
  <2>4. TypeOK'
    BY <1>1, <1>3, <2>1, <2>2, <2>3 DEF TypeOK
  <2>5. PhaseInv'
    BY <1>1, <1>3, <2>1 DEF PhaseInv
  <2>6. gor = "none" /\ incoming = <<>>
    BY <1>1 DEF PhaseInv
  <2>7. Reported = {} /\ Reported' = {}
    BY <2>1, <2>6 DEF Reported
  <2>8. Reads /\ Reads' /\ ~Acks' /\ ~Delivers' /\ Runs /\ Runs'
    BY <1>1, <1>3, <2>1, <2>6 DEF Reads, Acks, Delivers, Runs
  <2>9. DataOf(acc') = DataOf(acc)
    BY <2>1, Zenon
  <2>a. CountInv'
    BY <1>1, <1>3, <2>1 DEF Core, CountInv
  <2>b. SUFFICES ASSUME ~strayed, Flow PROVE Flow'
    BY <1>1, <2>1, <2>4, <2>5, <2>a DEF IndInv, Core
  <2>10. FlightInv' /\ CycleInv' /\ SentInv'
    BY <1>1, <1>3, <2>1, <2>2, <2>7, <2>8, <2>9, <2>b
       DEF Flow, FlightInv, CycleInv, SentInv
  <2>11. CutInv'
    <3>1. PICK c \in Seq(Nat) : Cuts(c) /\ Taken(c[1]) /\ Rest(c[Len(c)])
      BY <2>b DEF Flow, CutInv
    <3>2. Cuts(c)'
      BY <2>1, <2>2, <3>1 DEF Cuts, IsCut, IsPiece, Finished
    <3>3. Taken(c[1])'
      BY <1>1, <1>3, <2>1, <3>1 DEF Taken
    <3>4. Rest(c[Len(c)])'
      BY <2>1, <2>7, <2>8, <2>9, <3>1 DEF Rest
    <3>. QED
      BY <3>2, <3>3, <3>4 DEF CutInv
  <2>. QED
    BY <2>10, <2>11 DEF Flow
<1>. QED
  BY <1>2, <1>3 DEF Request

LEMMA PrimingStep ==
    ASSUME IndInv, Priming
    PROVE  IndInv'
<1>1. TypeOK /\ PhaseInv /\ Core /\ Messages /\ cmd = "priming"
  BY DEF IndInv, TypeOK, Priming
<1>2. CASE SubscribeFails /\ UNCHANGED incoming
  BY <1>1, <1>2, MessagesSame, SubscribeFailsStep DEF SubscribeFails, devVars
<1>3. CASE SubscribeFails /\ HasMessage /\ incoming' = Tail(incoming)
  <2>1. incoming # <<>>
    BY <1>3 DEF HasMessage
  <2>. QED
    BY <1>1, <1>3, <2>1, MessagesTail, SubscribeFailsStep DEF SubscribeFails, devVars
<1>4. CASE /\ HasMessage
           /\ Head(incoming).kind = "report"
           /\ cmd' = "ack"
           /\ last' = Head(incoming)
           /\ acc' = Append(acc, Head(incoming))
           /\ incoming' = Tail(incoming)
           /\ UNCHANGED <<outcome, emitted, gor, reports, reportsClosed, errs, errsClosed, errored,
                          signalled, cancelled, exchange, devVars>>
  <2>1. UNCHANGED <<emitted, gor, reports, dev, sent, air, strayed>> /\ incoming # <<>>
    BY <1>4 DEF devVars, HasMessage
  <2>2. Messages'
    BY <1>1, <1>4, <2>1, MessagesTail
  <2>3. Head(incoming) \in ReportData
    BY <1>1, <1>4, <2>1, TakeMessage DEF Messages
  <2>4. TypeOK'
    <3>1. acc' \in Seq(ReportData) /\ last' \in ReportData
      BY <1>1, <1>4, <2>3 DEF TypeOK
    <3>. QED
      BY <1>1, <1>4, <2>1, <2>2, <3>1 DEF TypeOK
  <2>5. PhaseInv' /\ gor = "none"
    BY <1>1, <1>4, <2>1 DEF PhaseInv
  <2>6. Reads /\ ~Reads' /\ Acks' /\ ~Delivers'
    BY <1>1, <1>4, <2>1, <2>5 DEF Reads, Acks, Delivers
  <2>7. Core'
    BY <1>1, <1>4, <2>1, <2>6, TakeReportStep
  <2>. QED
    BY <2>4, <2>5, <2>7 DEF IndInv
<1>. QED
  BY <1>2, <1>3, <1>4 DEF Priming

LEMMA PrimingAckStep ==
    ASSUME IndInv, PrimingAck
    PROVE  IndInv'
<1>1. TypeOK /\ PhaseInv /\ Core /\ Messages /\ cmd = "ack" /\ gor = "none"
  BY DEF IndInv, TypeOK, PhaseInv, PrimingAck
<1>2. CASE SubscribeFails /\ UNCHANGED incoming
  BY <1>1, <1>2, MessagesSame, SubscribeFailsStep DEF SubscribeFails, devVars
<1>3. CASE /\ Acknowledge
           /\ Return("error")
           /\ UNCHANGED <<emitted, gorVars, signalled, incoming, sent, lost, nFaults, air, strayed>>
  <2>1. UNCHANGED <<emitted, gor, acc, last, reports, incoming, sent, air, strayed>> /\ cmd' = "ended"
    BY <1>3 DEF gorVars, Return
  <2>2. /\ dev' \in [rec : Rec, more : BOOLEAN, waits : BOOLEAN, established : BOOLEAN]
        /\ dev'.rec = dev.rec /\ dev'.more = dev.more
    BY <1>1, <1>3, AckFacts
  <2>3. Messages' /\ acc' \in Seq(ReportData)
    BY <1>1, <2>1, MessagesSame DEF TypeOK
  <2>4. TypeOK' /\ PhaseInv' /\ Core'
    BY <1>1, <2>1, <2>2, <2>3, StopStep
  <2>. QED
    BY <2>4 DEF IndInv
<1>4. CASE /\ Acknowledge
           /\ cmd' = IF last.more THEN "priming" ELSE "response"
           /\ UNCHANGED <<outcome, emitted, gorVars, signalled, cancelled, exchange, incoming,
                          sent, lost, nFaults, air, strayed>>
  <2>1. UNCHANGED <<emitted, gor, acc, last, reports, incoming, sent, air, strayed>>
    BY <1>4 DEF gorVars
  <2>2. /\ dev' \in [rec : Rec, more : BOOLEAN, waits : BOOLEAN, established : BOOLEAN]
        /\ dev'.rec = dev.rec /\ dev'.more = dev.more
    BY <1>1, <1>4, AckFacts
  <2>3. Messages'
    BY <1>1, <2>1, MessagesSame
  <2>4. TypeOK'
    BY <1>1, <1>4, <2>1, <2>2, <2>3 DEF TypeOK
  <2>5. PhaseInv'
    BY <1>1, <1>4, <2>1 DEF PhaseInv
  <2>6. last.more \in BOOLEAN
    BY <1>1 DEF TypeOK, ReportData
  <2>7. Acks /\ ~Acks' /\ Reads' = last.more /\ Delivers' = ~last.more
    BY <1>1, <1>4, <2>1, <2>6 DEF Reads, Acks, Delivers
  <2>8. Core'
    BY <1>1, <1>4, <2>1, <2>2, <2>7, AckStep
  <2>. QED
    BY <2>4, <2>5, <2>8 DEF IndInv
<1>. QED
  BY <1>2, <1>3, <1>4 DEF PrimingAck

LEMMA ResponseStep ==
    ASSUME IndInv, Response
    PROVE  IndInv'
<1>1. TypeOK /\ PhaseInv /\ Core /\ Messages /\ cmd = "response" /\ gor = "none" /\ reports = <<>>
  BY DEF IndInv, TypeOK, PhaseInv, Response
<1>2. CASE SubscribeFails /\ UNCHANGED incoming
  BY <1>1, <1>2, MessagesSame, SubscribeFailsStep DEF SubscribeFails, devVars
<1>3. CASE SubscribeFails /\ HasMessage /\ incoming' = Tail(incoming)
  <2>1. incoming # <<>>
    BY <1>3 DEF HasMessage
  <2>. QED
    BY <1>1, <1>3, <2>1, MessagesTail, SubscribeFailsStep DEF SubscribeFails, devVars
<1>4. CASE /\ HasMessage
           /\ Head(incoming).kind = "response"
           /\ incoming' = Tail(incoming)
           /\ cmd' = "stream"
           /\ gor' = "recv"
           /\ reports' = IF DataOf(acc) = <<>> THEN <<>> ELSE <<DataOf(acc)>>
           /\ acc' = <<>>
           /\ UNCHANGED <<outcome, emitted, last, reportsClosed, errs, errsClosed, errored,
                          signalled, cancelled, exchange, devVars>>
  <2>1. UNCHANGED <<emitted, last, dev, sent, air, strayed>> /\ incoming # <<>> /\ Head(incoming).kind # "report"
    BY <1>4 DEF devVars, HasMessage
  <2>2. Messages' /\ SameFlight
    BY <1>1, <1>4, <2>1, MessagesTail, SameFlightTail
  <2>3. reports' = IF DataOf(acc) = <<>> THEN reports ELSE Append(reports, DataOf(acc))
    BY <1>1, <1>4
  <2>4. TypeOK'
    <3>1. DataOf(acc) \in Seq(Rec) /\ reports \in Seq(Seq(Rec))
      BY <1>1, Typed
    <3>2. reports' \in Seq(Seq(Rec)) /\ acc' \in Seq(ReportData)
      BY <1>4, <2>3, <3>1
    <3>. QED
      BY <1>1, <1>4, <2>1, <2>2, <3>2 DEF TypeOK
  <2>5. PhaseInv'
    BY <1>4 DEF PhaseInv
  <2>6. Delivers /\ Reads' /\ ~Acks' /\ ~Delivers'
    BY <1>1, <1>4 DEF Reads, Acks, Delivers
  <2>7. Core'
    BY <1>1, <1>4, <2>1, <2>2, <2>3, <2>6, DeliverStep
  <2>. QED
    BY <2>4, <2>5, <2>7 DEF IndInv
<1>. QED
  BY <1>2, <1>3, <1>4 DEF Response

-----------------------------------------------------------------------------
(* The steps of the goroutine. *)
LEMMA GorReceiveStep ==
    ASSUME IndInv, GorReceive
    PROVE  IndInv'
<1>1. /\ TypeOK /\ PhaseInv /\ Core /\ Messages /\ gor = "recv"
      /\ UNCHANGED <<cmd, emitted, reports, dev, sent, air, strayed>>
  BY DEF IndInv, TypeOK, GorReceive, cmdVars, devVars
<1>2. /\ cmd \notin {"request", "priming", "ack", "response"}
      /\ dev \in [rec : Rec, more : BOOLEAN, waits : BOOLEAN, established : BOOLEAN]
      /\ acc \in Seq(ReportData)
  BY <1>1 DEF PhaseInv, TypeOK
<1>3. ASSUME incoming # <<>>, incoming' = Tail(incoming), Head(incoming).kind = "report",
             acc' = Append(acc, Head(incoming)), last' = Head(incoming), gor' = "ack"
      PROVE  IndInv'
  <2>1. Messages'
    BY <1>1, <1>3, MessagesTail
  <2>2. Head(incoming) \in ReportData
    BY <1>1, <1>3, TakeMessage DEF Messages
  <2>3. TypeOK'
    <3>1. acc' \in Seq(ReportData) /\ last' \in ReportData
      BY <1>2, <1>3, <2>2
    <3>. QED
      BY <1>1, <1>3, <2>1, <3>1 DEF TypeOK
  <2>4. PhaseInv'
    BY <1>1, <1>2, <1>3 DEF PhaseInv
  <2>5. Reads /\ ~Reads' /\ Acks' /\ ~Delivers'
    BY <1>1, <1>2, <1>3 DEF Reads, Acks, Delivers
  <2>6. Core'
    BY <1>1, <1>3, <2>5, TakeReportStep
  <2>. QED
    BY <2>3, <2>4, <2>6 DEF IndInv
<1>4. ASSUME incoming # <<>>, incoming' = Tail(incoming), Head(incoming).kind # "report",
             UNCHANGED <<gor, acc, last>>
      PROVE  IndInv'
  <2>1. Messages' /\ SameFlight
    BY <1>1, <1>4, MessagesTail, SameFlightTail
  <2>2. TypeOK' /\ PhaseInv' /\ Core'
    BY <1>1, <1>2, <1>4, <2>1, IdleStep
  <2>. QED
    BY <2>2 DEF IndInv
<1>5. ASSUME Messages', UNCHANGED <<acc, last>>, gor' = "close"
      PROVE  IndInv'
  <2>1. TypeOK' /\ PhaseInv' /\ Core'
    BY <1>1, <1>2, <1>5, StopStep
  <2>. QED
    BY <2>1 DEF IndInv
<1>6. CASE HasMessage /\ incoming' = Tail(incoming)
  <2>1. incoming # <<>> /\ Messages'
    BY <1>1, <1>6, MessagesTail DEF HasMessage
  <2>2. CASE Head(incoming).kind = "report" /\ acc' = Append(acc, Head(incoming))
             /\ last' = Head(incoming) /\ gor' = "ack"
    BY <1>3, <1>6, <2>1, <2>2
  <2>3. CASE Head(incoming).kind \in {"success", "other", "response"}
             /\ UNCHANGED <<gor, acc, last, errs, errored>>
    BY <1>4, <1>6, <2>1, <2>3
  <2>4. CASE PutError /\ UNCHANGED <<acc, last>>
    BY <1>5, <2>1, <2>4 DEF PutError
  <2>5. CASE incoming = <<>>
    BY <2>1, <2>5
  <2>6. CASE UNCHANGED <<incoming, acc, last>> /\ gor' = "close"
    BY <1>5, <2>1, <2>6
  <2>. QED
    BY <2>1, <2>2, <2>3, <2>4, <2>5, <2>6 DEF GorReceive, PutError
<1>7. CASE gor' = "close" /\ UNCHANGED <<incoming, acc, last>>
  <2>1. Messages'
    BY <1>1, <1>7, MessagesSame
  <2>. QED
    BY <1>5, <1>7, <2>1
<1>. QED
  BY <1>6, <1>7 DEF GorReceive, PutError

LEMMA GorAckStep ==
    ASSUME IndInv, GorAck
    PROVE  IndInv'
<1>1. /\ TypeOK /\ PhaseInv /\ Core /\ Messages /\ gor = "ack"
      /\ UNCHANGED <<cmd, emitted, acc, last, reports, incoming, sent, air, strayed>>
  BY DEF IndInv, TypeOK, GorAck, cmdVars
<1>2. /\ cmd \notin {"request", "priming", "ack", "response"}
      /\ dev \in [rec : Rec, more : BOOLEAN, waits : BOOLEAN, established : BOOLEAN]
      /\ acc \in Seq(ReportData) /\ last.more \in BOOLEAN
  BY <1>1 DEF PhaseInv, TypeOK, ReportData
<1>3. Messages'
  BY <1>1, MessagesSame
<1>4. CASE PutError /\ UNCHANGED dev
  <2>1. gor' = "close"
    BY <1>4 DEF PutError
  <2>2. TypeOK' /\ PhaseInv' /\ Core'
    BY <1>1, <1>2, <1>3, <1>4, <2>1, StopStep
  <2>. QED
    BY <2>2 DEF IndInv
<1>5. CASE Acknowledge /\ gor' = IF last.more THEN "recv" ELSE "deliver"
  <2>1. /\ dev' \in [rec : Rec, more : BOOLEAN, waits : BOOLEAN, established : BOOLEAN]
        /\ dev'.rec = dev.rec /\ dev'.more = dev.more
    BY <1>1, <1>5, AckFacts
  <2>2. TypeOK'
    BY <1>1, <1>2, <1>3, <1>5, <2>1 DEF TypeOK
  <2>3. PhaseInv'
    BY <1>1, <1>2, <1>5 DEF PhaseInv
  <2>4. Acks /\ ~Acks' /\ Reads' = last.more /\ Delivers' = ~last.more
    BY <1>1, <1>2, <1>5 DEF Reads, Acks, Delivers
  <2>5. Core'
    BY <1>1, <1>5, <2>1, <2>4, AckStep
  <2>. QED
    BY <2>2, <2>3, <2>5 DEF IndInv
<1>. QED
  BY <1>4, <1>5 DEF GorAck

LEMMA DeliverActionStep ==
    ASSUME IndInv, Deliver
    PROVE  IndInv'
<1>1. /\ TypeOK /\ PhaseInv /\ Core /\ Messages /\ gor = "deliver" /\ acc' = <<>>
      /\ UNCHANGED <<cmd, emitted, last, incoming, dev, sent, air, strayed>>
  BY DEF IndInv, TypeOK, Deliver, NextCycle, cmdVars, devVars
<1>2. /\ cmd \notin {"request", "priming", "ack", "response"}
      /\ dev \in [rec : Rec, more : BOOLEAN, waits : BOOLEAN, established : BOOLEAN]
      /\ acc' \in Seq(ReportData)
  BY <1>1 DEF PhaseInv, TypeOK
<1>3. Messages' /\ SameFlight
  BY <1>1, MessagesSame, SameFlightSame
<1>4. CASE gor' = "close" /\ UNCHANGED reports
  <2>1. TypeOK' /\ PhaseInv' /\ Core'
    BY <1>1, <1>2, <1>3, <1>4, StopStep
  <2>. QED
    BY <2>1 DEF IndInv
<1>5. CASE /\ gor' = "recv"
           /\ reports' = IF DataOf(acc) = <<>> THEN reports ELSE Append(reports, DataOf(acc))
  <2>1. TypeOK'
    <3>1. DataOf(acc) \in Seq(Rec) /\ reports \in Seq(Seq(Rec))
      BY <1>1, Typed
    <3>2. reports' \in Seq(Seq(Rec))
      BY <1>5, <3>1
    <3>. QED
      BY <1>1, <1>2, <1>3, <1>5, <3>2 DEF TypeOK
  <2>2. PhaseInv'
    BY <1>1, <1>2, <1>5 DEF PhaseInv
  <2>3. Delivers /\ Reads' /\ ~Acks' /\ ~Delivers'
    BY <1>1, <1>2, <1>5 DEF Reads, Acks, Delivers
  <2>4. Core'
    BY <1>1, <1>3, <1>5, <2>3, DeliverStep
  <2>. QED
    BY <2>1, <2>2, <2>4 DEF IndInv
<1>. QED
  BY <1>4, <1>5 DEF Deliver, PutError

LEMMA CloseStep ==
    ASSUME IndInv, CloseErrs \/ CloseReports
    PROVE  IndInv'
<1>1. /\ TypeOK /\ PhaseInv /\ Core /\ Messages /\ gor = "close" /\ gor' \in {"close", "ended"}
      /\ UNCHANGED <<cmd, emitted, acc, last, reports, incoming, dev, sent, air, strayed>>
  BY DEF IndInv, TypeOK, CloseErrs, CloseReports, cmdVars, devVars
<1>2. /\ dev \in [rec : Rec, more : BOOLEAN, waits : BOOLEAN, established : BOOLEAN]
      /\ acc \in Seq(ReportData)
  BY <1>1 DEF TypeOK
<1>3. Messages'
  BY <1>1, MessagesSame
<1>4. TypeOK' /\ PhaseInv' /\ Core'
  BY <1>1, <1>2, <1>3, StopStep
<1>. QED
  BY <1>4 DEF IndInv

-----------------------------------------------------------------------------
(* The steps of the command in its select. *)
LEMMA TakeBatchStep ==
    ASSUME IndInv, TakeBatch
    PROVE  IndInv'
<1>1. /\ TypeOK /\ PhaseInv /\ Core /\ Messages /\ cmd = "stream"
      /\ reports # <<>> /\ reports' = Tail(reports)
      /\ UNCHANGED <<gor, acc, last, incoming, dev, sent, air, strayed>>
  BY DEF IndInv, TypeOK, TakeBatch
<1>2. reports \in Seq(Seq(Rec)) /\ emitted \in Seq(Rec) /\ CountInv /\ Len(emitted) \in Nat
  BY <1>1, Typed DEF Core
<1>3. Head(reports) = reports[1] /\ reports[1] \in Seq(Rec) /\ reports' \in Seq(Seq(Rec))
  BY <1>1, <1>2
<1>4. PICK b \in Seq(Rec) : b = reports[1]
  BY <1>3, Zenon
<1>5. PICK n \in Nat : n = Written(b) /\ n <= Len(b)
  BY <1>1, <1>2, WrittenFacts
<1>6. /\ Count > 0 => Len(emitted) + n <= Count
      /\ ~BoundReached(Len(emitted) + n) => n = Len(b)
  BY <1>1, <1>2, <1>5, WrittenFacts
<1>7. Messages'
  BY <1>1, MessagesSame
<1>8. PhaseInv' /\ cmd' \in {"stream", "ended"}
  <2>1. cmd' \in {"stream", "ended"}
    BY <1>1 DEF TakeBatch, Return
  <2>2. gor # "none"
    BY <1>1 DEF PhaseInv
  <2>. QED
    BY <1>1, <2>1, <2>2 DEF PhaseInv
<1>9. PICK w \in Nat : /\ w <= n /\ emitted' = emitted \o SubSeq(b, 1, w)
                       /\ \/ w = n /\ (cmd' = "ended" \/ ~BoundReached(Len(emitted')))
                          \/ cmd' = "ended"
  <2>1. CASE /\ emitted' = emitted \o SubSeq(b, 1, Written(b))
             /\ IF BoundReached(Len(emitted')) THEN Return("bound")
                                               ELSE UNCHANGED <<cmd, outcome, cancelled>>
    <3>1. /\ n <= n /\ emitted' = emitted \o SubSeq(b, 1, n)
          /\ cmd' = "ended" \/ ~BoundReached(Len(emitted'))
      BY <1>5, <2>1 DEF Return
    <3>. QED
      BY <1>5, <3>1
  <2>2. CASE /\ Return("error")
             /\ \E k \in 0 .. Written(b) - 1 : emitted' = emitted \o SubSeq(b, 1, k)
    <3>1. PICK k \in 0 .. n - 1 : emitted' = emitted \o SubSeq(b, 1, k)
      BY <1>5, <2>2
    <3>2. k \in Nat /\ k <= n /\ cmd' = "ended"
      BY <2>2 DEF Return
    <3>. QED
      BY <3>1, <3>2
  <2>. QED
    BY <1>3, <1>4, <2>1, <2>2 DEF TakeBatch
<1>10. emitted' \in Seq(Rec) /\ Len(emitted') = Len(emitted) + w
  <2>1. w <= Len(b)
    BY <1>5, <1>9
  <2>2. SubSeq(b, 1, w) \in Seq(Rec) /\ Len(SubSeq(b, 1, w)) = w
    BY <2>1, FirstOnes
  <2>3. PICK p \in Seq(Rec) : p = SubSeq(b, 1, w) /\ Len(p) = w
    BY <2>2, Zenon
  <2>4. PICK em \in Seq(Rec) : em = emitted
    BY <1>2, Zenon
  <2>5. em \o p \in Seq(Rec) /\ Len(em \o p) = Len(em) + Len(p)
    BY ConcatProperties
  <2>. QED
    BY <1>9, <2>3, <2>4, <2>5, Zenon
<1>11. TypeOK'
  BY <1>1, <1>3, <1>7, <1>8, <1>10 DEF TypeOK
<1>12. w <= Len(b) /\ (cmd' # "ended" => w = Len(b))
  <2>1. w <= Len(b)
    BY <1>5, <1>9
  <2>2. cmd' # "ended" => w = n /\ ~BoundReached(Len(emitted'))
    BY <1>9
  <2>3. ASSUME w = n PROVE Len(emitted') = Len(emitted) + n
    BY <1>10, <2>3
  <2>. QED
    BY <1>6, <2>1, <2>2, <2>3
<1>13. CountInv'
  <2>1. Count \in Nat
    BY SubscriptionAssumption
  <2>2. Count > 0 => Len(emitted') <= Count
    BY <1>2, <1>6, <1>9, <1>10, <2>1
  <2>3. Count > 0 /\ cmd' # "ended" => Len(emitted') < Count
    BY <1>2, <1>9, <1>10, <2>1 DEF BoundReached
  <2>. QED
    BY <2>2, <2>3 DEF CountInv
<1>14. Core'
  BY <1>1, <1>4, <1>8, <1>9, <1>12, <1>13, BatchStep
<1>. QED
  BY <1>8, <1>11, <1>14 DEF IndInv

LEMMA ReturnStep ==
    ASSUME IndInv, TakeError \/ StreamEnds \/ SignalSeen \/ Duration \/ Interrupt
    PROVE  IndInv'
<1>1. /\ TypeOK /\ PhaseInv /\ Core /\ Messages /\ (cmd' = cmd \/ cmd' = "ended")
      /\ UNCHANGED <<gor, emitted, acc, last, reports, incoming, dev, sent, air, strayed>>
  BY DEF IndInv, TypeOK, TakeError, StreamEnds, SignalSeen, Duration, Interrupt, Return,
         cmdVars, gorVars, devVars
<1>2. dev \in [rec : Rec, more : BOOLEAN, waits : BOOLEAN, established : BOOLEAN]
  BY <1>1 DEF TypeOK
<1>3. Messages' /\ SameFlight
  BY <1>1, MessagesSame, SameFlightSame
<1>4. TypeOK' /\ PhaseInv' /\ Core'
  BY <1>1, <1>2, <1>3, IdleStep
<1>. QED
  BY <1>4 DEF IndInv

-----------------------------------------------------------------------------
(* The steps of the device and of the connection. *)
LEMMA DeviceReportStep ==
    ASSUME IndInv, DeviceReport
    PROVE  IndInv'
<1>1. /\ TypeOK /\ PhaseInv /\ Core /\ Messages /\ ~dev.waits
      /\ UNCHANGED <<cmd, gor, emitted, acc, last, reports>>
  BY DEF IndInv, TypeOK, DeviceReport, cmdVars, gorVars
<1>2. PICK more \in BOOLEAN, late \in BOOLEAN, item \in {"data", "bad", "none"} :
        LET r == IF dev.more THEN <<dev.rec[1], dev.rec[2] + 1>> ELSE <<dev.rec[1] + 1, 1>>
        IN /\ Transmit([kind |-> "report", rec |-> r, more |-> more, item |-> item], late)
           /\ dev' = [rec |-> r, more |-> more, waits |-> TRUE, established |-> dev.established]
           /\ sent' = IF item = "data" THEN Append(sent, r) ELSE sent
  BY DEF DeviceReport
<1>3. PICK r : r = (IF dev.more THEN <<dev.rec[1], dev.rec[2] + 1>> ELSE <<dev.rec[1] + 1, 1>>)
  OBVIOUS
<1>4. r \in Rec /\ r[1] = IF dev.more THEN dev.rec[1] ELSE dev.rec[1] + 1
  <2>1. dev.rec \in Int \X Int
    BY <1>1 DEF TypeOK, Rec
  <2>2. dev.rec[1] \in Int /\ dev.rec[2] \in Int
    BY <2>1
  <2>. QED
    BY <1>3, <2>2 DEF Rec
<1>5. PICK m : m = [kind |-> "report", rec |-> r, more |-> more, item |-> item]
  OBVIOUS
<1>6. /\ m \in ReportData /\ m.kind = "report" /\ m.rec = r /\ m.more = more /\ m.item = item
  BY <1>4, <1>5 DEF ReportData
<1>7. Transmit(m, late)
  BY <1>2, <1>3, <1>5
<1>8. /\ \A x \in air' : x \in air \/ x = m
      /\ \/ strayed' = TRUE /\ incoming' = incoming
         \/ strayed' = strayed /\ incoming' = Append(incoming, m)
  BY <1>7 DEF Transmit, Deposit
<1>9. Messages'
  BY <1>1, <1>6, <1>8, MessagesLate, MessagesAppend
<1>10. /\ dev' \in [rec : Rec, more : BOOLEAN, waits : BOOLEAN, established : BOOLEAN]
       /\ dev'.rec = m.rec /\ dev'.more = m.more /\ dev'.waits = TRUE
  <2>1. dev.established \in BOOLEAN
    BY <1>1 DEF TypeOK
  <2>. QED
    BY <1>2, <1>3, <1>4, <1>6, <2>1
<1>11. sent' = IF m.item = "data" THEN Append(sent, m.rec) ELSE sent
  BY <1>2, <1>3, <1>6
<1>12. TypeOK'
  <2>1. sent \in Seq(Rec)
    BY <1>1 DEF TypeOK
  <2>2. sent' \in Seq(Rec)
    BY <1>4, <1>6, <1>11, <2>1
  <2>. QED
    BY <1>1, <1>9, <1>10, <2>2 DEF TypeOK
<1>13. PhaseInv'
  BY <1>1 DEF PhaseInv
<1>14. PICK M : incoming \in Seq(M)
  BY <1>1 DEF Messages, IsSeq
<1>15. Core'
  <2>1. CASE strayed' = TRUE
    BY <1>1, <2>1 DEF Core, CountInv
  <2>2. CASE strayed' = strayed /\ incoming' = Append(incoming, m)
    BY <1>1, <1>4, <1>6, <1>10, <1>11, <1>14, <2>2, ReportStep
  <2>. QED
    BY <1>8, <2>1, <2>2
<1>. QED
  BY <1>12, <1>13, <1>15 DEF IndInv

LEMMA DeviceOtherStep ==
    ASSUME IndInv, DeviceResponse \/ DeviceFault \/ Stray \/ Lose
    PROVE  IndInv'
<1>1. /\ TypeOK /\ PhaseInv /\ Core /\ Messages
      /\ UNCHANGED <<cmd, gor, emitted, acc, last, reports, sent>>
  BY DEF IndInv, TypeOK, DeviceResponse, DeviceFault, Stray, Lose, cmdVars, gorVars
<1>2. /\ dev' \in [rec : Rec, more : BOOLEAN, waits : BOOLEAN, established : BOOLEAN]
      /\ dev'.rec = dev.rec /\ dev'.more = dev.more /\ dev'.waits = dev.waits
  <2>1. dev \in [rec : Rec, more : BOOLEAN, waits : BOOLEAN, established : BOOLEAN]
    BY <1>1 DEF TypeOK
  <2>2. dev' = dev \/ dev' = [dev EXCEPT !.established = TRUE]
    BY DEF DeviceResponse, DeviceFault, Stray, Lose
  <2>. QED
    BY <2>1, <2>2
<1>3. Messages' /\ (strayed' = TRUE \/ (strayed' = strayed /\ SameFlight))
  <2>1. CASE Lose
    <3>1. UNCHANGED <<incoming, air, strayed>>
      BY <2>1 DEF Lose
    <3>. QED
      BY <1>1, <3>1, MessagesSame, SameFlightSame
  <2>2. CASE DeviceResponse \/ DeviceFault
    <3>1. PICK k \in {"response", "fail", "success", "broken", "other"} :
            /\ \A x \in air' : x \in air \/ x = [kind |-> k]
            /\ \/ strayed' = TRUE /\ incoming' = incoming
               \/ strayed' = strayed /\ incoming' = Append(incoming, [kind |-> k])
      BY <2>2 DEF DeviceResponse, DeviceFault, Transmit, Deposit
    <3>a. PICK m : m = [kind |-> k]
      OBVIOUS
    <3>2. m.kind # "report" /\ m = [kind |-> k]
      BY <3>a
    <3>. QED
      BY <1>1, <3>1, <3>2, MessagesLate, MessagesAppend, SameFlightAppend
  <2>3. CASE Stray
    <3>1. PICK m \in air : incoming' = Append(incoming, m)
      BY <2>3 DEF Stray, Deposit
    <3>2. strayed' = TRUE /\ air' = air
      BY <2>3 DEF Stray
    <3>3. m.kind = "report" => m \in ReportData
      BY <1>1 DEF Messages
    <3>. QED
      BY <1>1, <3>1, <3>2, <3>3, MessagesAppend
  <2>. QED
    BY <2>1, <2>2, <2>3
<1>4. cmd = "request" => UNCHANGED <<incoming, air>>
  BY <1>1 DEF PhaseInv, DeviceResponse, DeviceFault, Stray, Lose
<1>5. CASE strayed' = TRUE
  <2>1. TypeOK'
    BY <1>1, <1>2, <1>3 DEF TypeOK
  <2>2. PhaseInv'
    BY <1>1, <1>2, <1>4 DEF PhaseInv
  <2>3. Core'
    BY <1>1, <1>5 DEF Core, CountInv
  <2>. QED
    BY <2>1, <2>2, <2>3 DEF IndInv
<1>6. CASE strayed' = strayed /\ SameFlight
  <2>1. TypeOK' /\ PhaseInv' /\ Core'
    BY <1>1, <1>2, <1>3, <1>4, <1>6, IdleStep
  <2>. QED
    BY <2>1 DEF IndInv
<1>. QED
  BY <1>3, <1>5, <1>6

-----------------------------------------------------------------------------
LEMMA InitInv ==
    ASSUME Init
    PROVE  IndInv
<1>1. /\ cmd = "request" /\ gor = "none" /\ emitted = <<>> /\ acc = <<>> /\ last = NoReport
      /\ reports = <<>> /\ incoming = <<>> /\ sent = <<>> /\ air = {}
      /\ dev = [rec |-> <<-1, 1>>, more |-> FALSE, waits |-> TRUE, established |-> FALSE]
  BY DEF Init
<1>2. Reported = {}
  BY <1>1 DEF Reported
<1>3. TypeOK
  <2>1. last \in ReportData
    BY <1>1 DEF NoReport, ReportData, Rec
  <2>2. dev \in [rec : Rec, more : BOOLEAN, waits : BOOLEAN, established : BOOLEAN]
    BY <1>1 DEF Rec
  <2>3. Messages
    <3>1. incoming \in Seq({})
      BY <1>1
    <3>. QED
      BY <1>1, <1>2, <3>1 DEF Messages, IsSeq
  <2>. QED
    BY <1>1, <2>1, <2>2, <2>3 DEF TypeOK
<1>4. PhaseInv
  BY <1>1 DEF PhaseInv
<1>5. DataOf(acc) = <<>>
  <2>1. PICK rs \in Seq(ReportData) : rs = acc
    BY <1>3 DEF TypeOK
  <2>2. PICK m \in ReportData : m = last
    BY <1>3 DEF TypeOK
  <2>3. DataOf(<<>>) = <<>>
    BY DataFacts
  <2>. QED
    BY <1>1, <2>3, Zenon
<1>6. ~Acks /\ ~Delivers
  BY <1>1 DEF Acks, Delivers
<1>7. FlightInv /\ CycleInv /\ SentInv
  <2>1. FlightInv
    BY <1>2 DEF FlightInv
  <2>2. CycleInv
    BY <1>1, <1>2, <1>5, <1>6 DEF CycleInv
  <2>3. SentInv
    BY <1>1 DEF SentInv
  <2>. QED
    BY <2>1, <2>2, <2>3
<1>8. CutInv
  <2>1. <<0>> \in Seq(Nat) /\ Len(<<0>>) = 1 /\ <<0>>[1] = 0
    OBVIOUS
  <2>2. PICK c \in Seq(Nat) : c = <<0>>
    BY <2>1, Zenon
  <2>3. Len(c) = 1 /\ c[1] = 0
    BY <2>1, <2>2
  <2>4. Cuts(c)
    BY <1>1, <2>3 DEF Cuts, IsCut
  <2>5. Taken(c[1])
    BY <1>1, <2>3 DEF Taken
  <2>6. Rest(c[Len(c)])
    BY <1>1, <1>2, <1>5, <2>3 DEF Rest
  <2>. QED
    BY <2>4, <2>5, <2>6 DEF CutInv
<1>9. CountInv
  <2>1. Len(emitted) = 0 /\ Count \in Nat
    BY <1>1, SubscriptionAssumption
  <2>. QED
    BY <2>1 DEF CountInv
<1>. QED
  BY <1>3, <1>4, <1>7, <1>8, <1>9 DEF IndInv, Core, Flow

LEMMA NextInv ==
    ASSUME IndInv, [Next]_vars
    PROVE  IndInv'
<1>1. CASE CmdStep
  BY <1>1, RequestStep, PrimingStep, PrimingAckStep, ResponseStep, TakeBatchStep, ReturnStep
     DEF CmdStep
<1>2. CASE GorStep
  BY <1>2, GorReceiveStep, GorAckStep, DeliverActionStep, CloseStep DEF GorStep
<1>3. CASE Duration \/ Interrupt
  BY <1>3, ReturnStep
<1>4. CASE DeviceReport
  BY <1>4, DeviceReportStep
<1>5. CASE DeviceResponse \/ DeviceFault \/ Stray \/ Lose
  BY <1>5, DeviceOtherStep
<1>6. CASE UNCHANGED vars
  <2>1. /\ TypeOK /\ PhaseInv /\ Core /\ Messages
        /\ UNCHANGED <<cmd, gor, emitted, acc, last, reports, incoming, dev, sent, air, strayed>>
    BY <1>6 DEF IndInv, TypeOK, vars, cmdVars, gorVars, devVars
  <2>2. dev \in [rec : Rec, more : BOOLEAN, waits : BOOLEAN, established : BOOLEAN]
    BY <2>1 DEF TypeOK
  <2>3. Messages' /\ SameFlight
    BY <2>1, MessagesSame, SameFlightSame
  <2>4. TypeOK' /\ PhaseInv' /\ Core'
    BY <2>1, <2>2, <2>3, IdleStep
  <2>. QED
    BY <2>4 DEF IndInv
<1>. QED
  BY <1>1, <1>2, <1>3, <1>4, <1>5, <1>6 DEF Next

(* The invariant holds in every state of the subscription. *)
THEOREM Invariance == Spec => []IndInv
<1>1. Init => IndInv
  BY InitInv
<1>2. IndInv /\ [Next]_vars => IndInv'
  BY NextInv
<1>. QED
  BY <1>1, <1>2, PTL DEF Spec

-----------------------------------------------------------------------------
(* Whatever comes late or again, nothing is told that was not sent. *)
Genuine(m) == m.kind = "report" /\ m.item = "data" => m.rec \in ToSet(sent)

KnownInv ==
    /\ \A m \in air : Genuine(m)
    /\ \A i \in DOMAIN incoming : Genuine(incoming[i])
    /\ ToSet(DataOf(acc)) \subseteq ToSet(sent)
    /\ \A i \in 1 .. Len(reports) : reports[i] # <<>> /\ ToSet(reports[i]) \subseteq ToSet(sent)
    /\ ToSet(emitted) \subseteq ToSet(sent)

LEMMA ElementFacts ==
    ASSUME NEW M, NEW s \in Seq(M)
    PROVE  /\ \A x \in M : ToSet(Append(s, x)) = ToSet(s) \cup {x}
           /\ \A r \in Seq(M) : ToSet(s \o r) = ToSet(s) \cup ToSet(r)
<1>1. ASSUME NEW r \in Seq(M)
      PROVE  ToSet(s \o r) = ToSet(s) \cup ToSet(r)
  <2>1. /\ Len(s) \in Nat /\ Len(r) \in Nat /\ Len(s \o r) = Len(s) + Len(r) /\ s \o r \in Seq(M)
        /\ \A i \in 1 .. Len(s) + Len(r) : (s \o r)[i] = IF i <= Len(s) THEN s[i] ELSE r[i - Len(s)]
    BY ConcatProperties
  <2>2. PICK t \in Seq(M) : t = s \o r
    BY <2>1
  <2>3. DOMAIN s = 1 .. Len(s) /\ DOMAIN r = 1 .. Len(r) /\ DOMAIN t = 1 .. Len(s) + Len(r)
    BY <2>1, <2>2
  <2>4. \A i \in 1 .. Len(s) : i \in 1 .. Len(s) + Len(r) /\ t[i] = s[i]
    BY <2>1, <2>2
  <2>5. \A i \in 1 .. Len(r) : Len(s) + i \in 1 .. Len(s) + Len(r) /\ t[Len(s) + i] = r[i]
    BY <2>1, <2>2
  <2>6. \A i \in 1 .. Len(s) + Len(r) :
          (i \in 1 .. Len(s) /\ t[i] = s[i]) \/ (i - Len(s) \in 1 .. Len(r) /\ t[i] = r[i - Len(s)])
    BY <2>1, <2>2
  <2>7. ToSet(t) \subseteq ToSet(s) \cup ToSet(r)
    BY <2>3, <2>6 DEF ToSet
  <2>8. ToSet(s) \subseteq ToSet(t)
    BY <2>3, <2>4 DEF ToSet
  <2>9. ToSet(r) \subseteq ToSet(t)
    BY <2>3, <2>5 DEF ToSet
  <2>. QED
    BY <2>2, <2>7, <2>8, <2>9
<1>2. ASSUME NEW x \in M
      PROVE  ToSet(Append(s, x)) = ToSet(s) \cup {x}
  <2>1. <<x>> \in Seq(M) /\ Append(s, x) = s \o <<x>>
    BY AppendIsConcat
  <2>2. ToSet(<<x>>) = {x}
    BY DEF ToSet
  <2>. QED
    BY <1>1, <2>1, <2>2
<1>. QED
  BY <1>1, <1>2

LEMMA TailFacts ==
    ASSUME NEW M, NEW s \in Seq(M), s # <<>>
    PROVE  /\ s[1] = Head(s) /\ 1 \in DOMAIN s /\ Tail(s) \in Seq(M)
           /\ \A i \in DOMAIN Tail(s) : i + 1 \in DOMAIN s /\ Tail(s)[i] = s[i + 1]
<1>1. /\ Len(s) \in Nat \ {0} /\ DOMAIN s = 1 .. Len(s) /\ DOMAIN Tail(s) = 1 .. Len(s) - 1
      /\ \A i \in 1 .. Len(s) - 1 : Tail(s)[i] = s[i + 1]
  OBVIOUS
<1>. QED
  BY <1>1

(* A step of the command or of the goroutine, and what it may do with what it
   has been told. *)
LEMMA KnownStep ==
    ASSUME TypeOK, KnownInv, UNCHANGED <<sent, air>>,
           incoming' = incoming \/ (incoming # <<>> /\ incoming' = Tail(incoming)),
           \/ acc' = acc \/ acc' = <<>>
           \/ /\ incoming # <<>> /\ Head(incoming).kind = "report"
              /\ acc' = Append(acc, Head(incoming)),
           \/ reports' = reports
           \/ reports # <<>> /\ reports' = Tail(reports)
           \/ DataOf(acc) # <<>> /\ reports' = Append(reports, DataOf(acc)),
           ToSet(emitted') \subseteq ToSet(sent)
    PROVE  KnownInv'
<1>1. PICK M : incoming \in Seq(M)
  BY DEF TypeOK, Messages, IsSeq
<1>2. \A m : Genuine(m)' = Genuine(m)
  BY DEF Genuine
<1>3. \A i \in DOMAIN incoming' : Genuine(incoming'[i])
  BY <1>1, TailFacts DEF KnownInv
<1>4. ToSet(DataOf(acc')) \subseteq ToSet(sent)
  <2>1. PICK rs \in Seq(ReportData) : rs = acc
    BY DEF TypeOK
  <2>2. PICK z \in ReportData : z = last
    BY DEF TypeOK
  <2>3. CASE acc' = acc
    BY <2>3, Zenon DEF KnownInv
  <2>4. CASE acc' = <<>>
    <3>1. DataOf(<<>>) = <<>>
      BY <2>2, DataFacts
    <3>2. ToSet(<<>>) = {}
      BY DEF ToSet
    <3>3. DataOf(acc') = <<>>
      BY <2>4, <3>1, Zenon
    <3>. QED
      BY <3>2, <3>3, Zenon
  <2>5. CASE /\ incoming # <<>> /\ Head(incoming).kind = "report"
             /\ acc' = Append(acc, Head(incoming))
    <3>1. Head(incoming) = incoming[1] /\ 1 \in DOMAIN incoming
      BY <1>1, <2>5, TailFacts
    <3>2. 1 \in Reported
      BY <2>5, <3>1 DEF Reported
    <3>3. PICK m \in ReportData : m = Head(incoming) /\ m.kind = "report" /\ Genuine(m)
      BY <2>5, <3>1, <3>2 DEF TypeOK, Messages, KnownInv
    <3>4. DataOf(rs) \in Seq(Rec) /\ DataOf(Append(rs, m)) = DataOf(rs) \o Item(m)
      BY DataFacts
    <3>5. PICK d \in Seq(Rec) : d = DataOf(rs)
      BY <3>4, Zenon
    <3>6. Item(m) \in Seq(Rec) /\ ToSet(Item(m)) \subseteq ToSet(sent)
      BY <3>3 DEF Item, Genuine, ToSet, ReportData
    <3>7. PICK e \in Seq(Rec) : e = Item(m)
      BY <3>6, Zenon
    <3>8. ToSet(d \o e) = ToSet(d) \cup ToSet(e)
      BY ElementFacts
    <3>9. DataOf(acc') = d \o e
      BY <2>1, <2>5, <3>3, <3>4, <3>5, <3>7, Zenon
    <3>10. ToSet(d) \subseteq ToSet(sent)
      BY <2>1, <3>5, Zenon DEF KnownInv
    <3>. QED
      BY <3>6, <3>7, <3>8, <3>9, <3>10, Zenon
  <2>. QED
    BY <2>3, <2>4, <2>5
<1>5. \A i \in 1 .. Len(reports') : reports'[i] # <<>> /\ ToSet(reports'[i]) \subseteq ToSet(sent)
  <2>1. PICK rs \in Seq(Seq(Rec)) : rs = reports
    BY DEF TypeOK
  <2>2. \A i \in 1 .. Len(rs) : rs[i] # <<>> /\ ToSet(rs[i]) \subseteq ToSet(sent)
    BY <2>1 DEF KnownInv
  <2>3. CASE reports # <<>> /\ reports' = Tail(reports)
    <3>1. DOMAIN Tail(rs) = 1 .. Len(Tail(rs)) /\ DOMAIN rs = 1 .. Len(rs)
      BY <2>1, <2>3
    <3>2. \A i \in DOMAIN Tail(rs) : i + 1 \in DOMAIN rs /\ Tail(rs)[i] = rs[i + 1]
      BY <2>1, <2>3, TailFacts
    <3>. QED
      BY <2>1, <2>2, <2>3, <3>1, <3>2, Zenon
  <2>4. CASE DataOf(acc) # <<>> /\ reports' = Append(reports, DataOf(acc))
    <3>1. PICK d \in Seq(Rec) : d = DataOf(acc)
      BY Typed
    <3>2. PICK new : new = Append(rs, d)
      OBVIOUS
    <3>3. /\ Len(new) = Len(rs) + 1 /\ new[Len(rs) + 1] = d /\ Len(rs) \in Nat
          /\ \A i \in 1 .. Len(rs) : new[i] = rs[i]
      BY <3>2
    <3>4. reports' = new /\ d # <<>> /\ ToSet(d) \subseteq ToSet(sent)
      BY <2>1, <2>4, <3>1, <3>2, Zenon DEF KnownInv
    <3>5. \A i \in 1 .. Len(new) : i = Len(rs) + 1 \/ i \in 1 .. Len(rs)
      BY <3>3
    <3>. QED
      BY <2>2, <3>3, <3>4, <3>5, Zenon
  <2>. QED
    BY <2>1, <2>2, <2>3, <2>4
<1>6. \A m \in air' : Genuine(m)
  BY DEF KnownInv
<1>. QED
  BY <1>2, <1>3, <1>4, <1>5, <1>6 DEF KnownInv

(* A step of the device or of the network. *)
LEMMA KnownArrival ==
    ASSUME TypeOK, KnownInv, NEW m, UNCHANGED <<acc, reports, emitted>>,
           ToSet(sent) \subseteq ToSet(sent'),
           Genuine(m)' \/ (air' = air /\ incoming' = incoming),
           \A x \in air' : x \in air \/ x = m,
           incoming' = incoming \/ incoming' = Append(incoming, m)
    PROVE  KnownInv'
<1>1. \A x : Genuine(x) => Genuine(x)'
  BY DEF Genuine
<1>2. \A x \in air' : Genuine(x)'
  BY <1>1 DEF KnownInv
<1>3. ASSUME NEW i \in DOMAIN incoming'
      PROVE  (incoming'[i].kind = "report" /\ incoming'[i].item = "data")
               => incoming'[i].rec \in ToSet(sent')
  <2>1. CASE incoming' = incoming
    <3>1. Genuine(incoming[i])
      BY <1>3, <2>1 DEF KnownInv
    <3>. QED
      BY <2>1, <3>1 DEF Genuine
  <2>2. CASE Genuine(m)' /\ incoming' = Append(incoming, m)
    <3>1. PICK M : incoming \in Seq(M)
      BY DEF TypeOK, Messages, IsSeq
    <3>2. /\ DOMAIN incoming = 1 .. Len(incoming) /\ Len(incoming) \in Nat
          /\ DOMAIN incoming' = 1 .. Len(incoming) + 1 /\ incoming'[Len(incoming) + 1] = m
          /\ \A j \in 1 .. Len(incoming) : incoming'[j] = incoming[j]
      BY <2>2, <3>1
    <3>3. CASE i = Len(incoming) + 1
      BY <2>2, <3>2, <3>3 DEF Genuine
    <3>4. CASE i # Len(incoming) + 1
      <4>1. i \in DOMAIN incoming /\ incoming'[i] = incoming[i]
        BY <1>3, <3>2, <3>4
      <4>2. Genuine(incoming[i])
        BY <4>1 DEF KnownInv
      <4>. QED
        BY <4>1, <4>2 DEF Genuine
    <3>. QED
      BY <3>3, <3>4
  <2>. QED
    BY <2>1, <2>2
<1>4. ToSet(DataOf(acc')) \subseteq ToSet(sent')
  <2>1. ToSet(DataOf(acc)) \subseteq ToSet(sent)
    BY DEF KnownInv
  <2>2. DataOf(acc') = DataOf(acc)
    BY Zenon
  <2>. QED
    BY <2>1, <2>2, Zenon
<1>5. /\ \A i \in 1 .. Len(reports') : /\ reports'[i] # <<>>
                                       /\ ToSet(reports'[i]) \subseteq ToSet(sent')
      /\ ToSet(emitted') \subseteq ToSet(sent')
  BY DEF KnownInv
<1>. QED
  BY <1>2, <1>3, <1>4, <1>5 DEF KnownInv, Genuine

(* What the command writes of a batch it was given. *)
LEMMA KnownBatch ==
    ASSUME IndInv, KnownInv, TakeBatch
    PROVE  ToSet(emitted') \subseteq ToSet(sent)
<1>1. TypeOK /\ CountInv /\ cmd = "stream" /\ reports # <<>>
  BY DEF IndInv, Core, TakeBatch
<1>2. PICK rs \in Seq(Seq(Rec)) : rs = reports
  BY <1>1 DEF TypeOK
<1>3. Head(rs) \in Seq(Rec) /\ Head(rs) = rs[1] /\ 1 \in 1 .. Len(rs)
  BY <1>1, <1>2
<1>4. PICK b \in Seq(Rec) : b = Head(reports) /\ ToSet(b) \subseteq ToSet(sent)
  BY <1>2, <1>3 DEF KnownInv
<1>5. Written(b) \in 0 .. Len(b)
  BY <1>1, WrittenFacts
<1>6. PICK w \in 0 .. Len(b) : emitted' = emitted \o SubSeq(b, 1, w)
  <2>1. CASE emitted' = emitted \o SubSeq(b, 1, Written(b))
    BY <1>5, <2>1
  <2>2. CASE \E k \in 0 .. Written(b) - 1 : emitted' = emitted \o SubSeq(b, 1, k)
    <3>1. PICK n \in 0 .. Len(b) : n = Written(b)
      BY <1>5
    <3>2. PICK k \in 0 .. n - 1 : emitted' = emitted \o SubSeq(b, 1, k)
      BY <2>2, <3>1
    <3>3. k \in 0 .. Len(b)
      BY <3>1, <3>2
    <3>. QED
      BY <3>2, <3>3
  <2>. QED
    BY <1>4, <2>1, <2>2 DEF TakeBatch
<1>7. /\ SubSeq(b, 1, w) \in Seq(Rec) /\ Len(SubSeq(b, 1, w)) = w
      /\ \A j \in 1 .. w : SubSeq(b, 1, w)[j] = b[j]
  BY FirstOnes
<1>8. PICK p \in Seq(Rec) : p = SubSeq(b, 1, w) /\ Len(p) = w /\ \A j \in 1 .. w : p[j] = b[j]
  BY <1>7, Zenon
<1>9. ToSet(p) \subseteq ToSet(b)
  <2>1. DOMAIN p = 1 .. w /\ \A j \in 1 .. w : j \in DOMAIN b
    BY <1>8
  <2>. QED
    BY <1>8, <2>1 DEF ToSet
<1>10. PICK e \in Seq(Rec) : e = emitted /\ ToSet(e) \subseteq ToSet(sent)
  BY <1>1 DEF TypeOK, KnownInv
<1>11. ToSet(e \o p) = ToSet(e) \cup ToSet(p)
  BY ElementFacts
<1>12. emitted' = e \o p
  BY <1>6, <1>8, <1>10
<1>. QED
  BY <1>4, <1>9, <1>10, <1>11, <1>12, Zenon

LEMMA KnownNext ==
    ASSUME IndInv, KnownInv, [Next]_vars
    PROVE  KnownInv'
<1>1. TypeOK /\ PhaseInv
  BY DEF IndInv
<1>2. ToSet(emitted) \subseteq ToSet(sent)
  BY DEF KnownInv
<1>3. ASSUME UNCHANGED <<sent, air, acc, reports, emitted>>,
             incoming' = incoming \/ (incoming # <<>> /\ incoming' = Tail(incoming))
      PROVE  KnownInv'
  BY <1>1, <1>2, <1>3, KnownStep
<1>4. CASE Request \/ PrimingAck \/ TakeError \/ StreamEnds \/ SignalSeen
  BY <1>3, <1>4 DEF Request, PrimingAck, TakeError, StreamEnds, SignalSeen, SubscribeFails,
                    gorVars, devVars
<1>5. CASE Priming
  <2>1. UNCHANGED <<sent, air, reports, emitted>>
    BY <1>5 DEF Priming, SubscribeFails, gorVars, devVars
  <2>2. incoming' = incoming \/ (incoming # <<>> /\ incoming' = Tail(incoming))
    BY <1>5 DEF Priming, HasMessage
  <2>3. \/ acc' = acc
        \/ /\ incoming # <<>> /\ Head(incoming).kind = "report"
           /\ acc' = Append(acc, Head(incoming))
    BY <1>5 DEF Priming, HasMessage, SubscribeFails, gorVars
  <2>. QED
    BY <1>1, <1>2, <2>1, <2>2, <2>3, KnownStep
<1>6. CASE Response
  <2>1. UNCHANGED <<sent, air, emitted>>
    BY <1>6 DEF Response, SubscribeFails, devVars
  <2>2. incoming' = incoming \/ (incoming # <<>> /\ incoming' = Tail(incoming))
    BY <1>6 DEF Response, HasMessage
  <2>3. acc' = acc \/ acc' = <<>>
    BY <1>6 DEF Response, SubscribeFails, gorVars
  <2>4. reports = <<>>
    BY <1>1, <1>6 DEF Response, PhaseInv
  <2>5. \/ reports' = reports
        \/ DataOf(acc) # <<>> /\ reports' = Append(reports, DataOf(acc))
    BY <1>6, <2>4 DEF Response, SubscribeFails, gorVars
  <2>. QED
    BY <1>1, <1>2, <2>1, <2>2, <2>3, <2>5, KnownStep
<1>7. CASE TakeBatch
  <2>1. ToSet(emitted') \subseteq ToSet(sent)
    BY <1>7, KnownBatch
  <2>2. UNCHANGED <<sent, air, acc, incoming>> /\ reports # <<>> /\ reports' = Tail(reports)
    BY <1>7 DEF TakeBatch
  <2>. QED
    BY <1>1, <2>1, <2>2, KnownStep
<1>8. CASE GorReceive
  <2>1. UNCHANGED <<sent, air, reports, emitted>>
    BY <1>8 DEF GorReceive, cmdVars, devVars
  <2>2. incoming' = incoming \/ (incoming # <<>> /\ incoming' = Tail(incoming))
    BY <1>8 DEF GorReceive, HasMessage
  <2>3. \/ acc' = acc
        \/ /\ incoming # <<>> /\ Head(incoming).kind = "report"
           /\ acc' = Append(acc, Head(incoming))
    BY <1>8 DEF GorReceive, HasMessage
  <2>. QED
    BY <1>1, <1>2, <2>1, <2>2, <2>3, KnownStep
<1>9. CASE GorAck \/ CloseErrs \/ CloseReports
  BY <1>3, <1>9 DEF GorAck, CloseErrs, CloseReports, cmdVars, devVars
<1>10. CASE Deliver
  <2>1. UNCHANGED <<sent, air, emitted, incoming>> /\ acc' = <<>>
    BY <1>10 DEF Deliver, NextCycle, cmdVars, devVars
  <2>2. \/ reports' = reports
        \/ DataOf(acc) # <<>> /\ reports' = Append(reports, DataOf(acc))
    BY <1>10 DEF Deliver
  <2>. QED
    BY <1>1, <1>2, <2>1, <2>2, KnownStep
<1>11. CASE Duration \/ Interrupt \/ Lose \/ UNCHANGED vars
  BY <1>3, <1>11 DEF Duration, Interrupt, Lose, vars, cmdVars, gorVars, devVars
<1>12. CASE DeviceReport
  <2>1. UNCHANGED <<acc, reports, emitted>>
    BY <1>12 DEF DeviceReport, cmdVars, gorVars
  <2>2. PICK r, late, item, m :
          /\ m.kind = "report" /\ m.rec = r /\ m.item = item /\ Transmit(m, late)
          /\ sent' = IF item = "data" THEN Append(sent, r) ELSE sent
    <3>1. PICK more \in BOOLEAN, late \in BOOLEAN, item \in {"data", "bad", "none"} :
            LET r == IF dev.more THEN <<dev.rec[1], dev.rec[2] + 1>> ELSE <<dev.rec[1] + 1, 1>>
            IN /\ Transmit([kind |-> "report", rec |-> r, more |-> more, item |-> item], late)
               /\ sent' = IF item = "data" THEN Append(sent, r) ELSE sent
      BY <1>12 DEF DeviceReport
    <3>2. PICK r : r = (IF dev.more THEN <<dev.rec[1], dev.rec[2] + 1>> ELSE <<dev.rec[1] + 1, 1>>)
      OBVIOUS
    <3>3. PICK m : m = [kind |-> "report", rec |-> r, more |-> more, item |-> item]
      OBVIOUS
    <3>4. m.kind = "report" /\ m.rec = r /\ m.item = item
      BY <3>3
    <3>. QED
      BY <3>1, <3>2, <3>3, <3>4
  <2>3. /\ ToSet(sent) \subseteq ToSet(sent')
        /\ m.item = "data" => m.rec \in ToSet(sent')
    <3>1. PICK s \in Seq(Rec) : s = sent
      BY <1>1 DEF TypeOK
    <3>2. PICK all : all = Append(s, r)
      OBVIOUS
    <3>3. /\ DOMAIN s = 1 .. Len(s) /\ DOMAIN all = 1 .. Len(s) + 1 /\ Len(s) \in Nat
          /\ all[Len(s) + 1] = r /\ \A i \in 1 .. Len(s) : all[i] = s[i]
      BY <3>2
    <3>4. ToSet(s) \subseteq ToSet(all) /\ r \in ToSet(all)
      BY <3>3 DEF ToSet
    <3>. QED
      BY <2>2, <3>1, <3>2, <3>4
  <2>4. Genuine(m)'
    BY <2>3 DEF Genuine
  <2>5. /\ \A x \in air' : x \in air \/ x = m
        /\ incoming' = incoming \/ incoming' = Append(incoming, m)
    BY <2>2 DEF Transmit, Deposit
  <2>. QED
    BY <1>1, <2>1, <2>3, <2>4, <2>5, KnownArrival
<1>13. CASE DeviceResponse \/ DeviceFault
  <2>1. UNCHANGED <<acc, reports, emitted, sent>>
    BY <1>13 DEF DeviceResponse, DeviceFault, cmdVars, gorVars
  <2>2. PICK k \in {"response", "fail", "success", "broken", "other"} :
          /\ \A x \in air' : x \in air \/ x = [kind |-> k]
          /\ incoming' = incoming \/ incoming' = Append(incoming, [kind |-> k])
    BY <1>13 DEF DeviceResponse, DeviceFault, Transmit, Deposit
  <2>a. PICK m : m = [kind |-> k]
    OBVIOUS
  <2>3. m = [kind |-> k] /\ m.kind # "report"
    BY <2>a
  <2>4. Genuine(m)'
    BY <2>3 DEF Genuine
  <2>. QED
    BY <1>1, <2>1, <2>2, <2>3, <2>4, KnownArrival
<1>14. CASE Stray
  <2>1. UNCHANGED <<acc, reports, emitted, sent, air>>
    BY <1>14 DEF Stray, cmdVars, gorVars
  <2>2. PICK m \in air : incoming' = Append(incoming, m)
    BY <1>14 DEF Stray, Deposit
  <2>3. Genuine(m)'
    BY <2>1 DEF KnownInv, Genuine
  <2>. QED
    BY <1>1, <2>1, <2>2, <2>3, KnownArrival
<1>. QED
  BY <1>4, <1>5, <1>6, <1>7, <1>8, <1>9, <1>10, <1>11, <1>12, <1>13, <1>14
     DEF Next, CmdStep, GorStep

(* Nothing is told that the device has not sent. *)
THEOREM OnlyWhatWasSent == Spec => []KnownInv
<1>1. Init => KnownInv
  <2>. SUFFICES ASSUME Init PROVE KnownInv
    OBVIOUS
  <2>1. /\ air = {} /\ incoming = <<>> /\ acc = <<>> /\ reports = <<>> /\ emitted = <<>>
        /\ TypeOK
    BY InitInv DEF Init, IndInv
  <2>2. PICK m \in ReportData : m = last
    BY <2>1 DEF TypeOK
  <2>3. <<>> \in Seq(ReportData)
    OBVIOUS
  <2>4. DataOf(<<>>) = <<>>
    BY <2>2, <2>3, DataFacts
  <2>5. ToSet(<<>>) = {}
    BY DEF ToSet
  <2>6. ToSet(DataOf(acc)) = {} /\ ToSet(emitted) = {}
    BY <2>1, <2>4, <2>5, Zenon
  <2>. QED
    BY <2>1, <2>6 DEF KnownInv
<1>2. IndInv /\ KnownInv /\ [Next]_vars => KnownInv'
  BY KnownNext
<1>. QED
  BY <1>1, <1>2, Invariance, PTL DEF Spec

LEMMA TakenIsPrefix ==
    ASSUME TypeOK, Flow
    PROVE  IsPrefix(emitted, sent)
<1>0. TypeOK
  OBVIOUS
<1>1. PICK c \in Seq(Nat) : Cuts(c) /\ Taken(c[1])
  BY DEF Flow, CutInv
<1>2. PICK s \in Seq(Rec) : s = sent
  BY <1>0 DEF TypeOK
<1>3. PICK e \in Seq(Rec) : e = emitted
  BY <1>0 DEF TypeOK
<1>4. PICK n \in Nat : n = Len(e)
  OBVIOUS
<1>5. c[1] \in Nat /\ c[1] <= Len(s)
  <2>1. Len(reports) \in Nat /\ Len(c) = Len(reports) + 1
    BY <1>0, <1>1, Typed DEF Cuts
  <2>2. 1 \in 1 .. Len(c)
    BY <2>1
  <2>3. c[1] \in Nat /\ IsCut(c[1])
    BY <1>1, <2>2 DEF Cuts
  <2>. QED
    BY <1>2, <2>3 DEF IsCut
<1>6. n <= Len(s) /\ \A j \in 1 .. n : e[j] = s[j]
  BY <1>1, <1>2, <1>3, <1>4, <1>5 DEF Taken
<1>7. SubSeq(e, 1, n) = SubSeq(s, 1, n)
  <2>1. n <= Len(e)
    BY <1>4
  <2>2. /\ SubSeq(e, 1, n) \in Seq(Rec) /\ Len(SubSeq(e, 1, n)) = n
        /\ \A j \in 1 .. n : SubSeq(e, 1, n)[j] = e[j]
    BY <2>1, FirstOnes
  <2>3. /\ SubSeq(s, 1, n) \in Seq(Rec) /\ Len(SubSeq(s, 1, n)) = n
        /\ \A j \in 1 .. n : SubSeq(s, 1, n)[j] = s[j]
    BY <1>6, FirstOnes
  <2>4. PICK x \in Seq(Rec) : x = SubSeq(e, 1, n)
    BY <2>2, Zenon
  <2>5. PICK y \in Seq(Rec) : y = SubSeq(s, 1, n)
    BY <2>3, Zenon
  <2>6. Len(x) = n /\ Len(y) = n
    BY <2>2, <2>3, <2>4, <2>5
  <2>7. \A j \in 1 .. n : x[j] = y[j]
    BY <1>6, <2>2, <2>3, <2>4, <2>5, Zenon
  <2>8. x = y
    BY <2>6, <2>7, SeqEqual
  <2>. QED
    BY <2>4, <2>5, <2>8
<1>. QED
  BY <1>2, <1>3, <1>4, <1>6, <1>7 DEF IsPrefix

(* The command writes what the device has sent and never more than --count
   records, whatever datagram is late or comes again; while none was, in the
   order sent and leaving nothing out before what it writes: for every bound,
   every number of cycles and chunks, wherever the connection is lost, a
   message is misplaced or the command is interrupted. *)
THEOREM WrittenInOrder == Spec => []InOrder
<1>1. IndInv /\ KnownInv => InOrder
  <2>1. IndInv => (Count > 0 => Len(emitted) <= Count)
    BY DEF IndInv, Core, CountInv
  <2>2. IndInv => (~strayed => IsPrefix(emitted, sent))
    BY TakenIsPrefix DEF IndInv, Core
  <2>3. KnownInv => ToSet(emitted) \subseteq ToSet(sent)
    BY DEF KnownInv
  <2>. QED
    BY <2>1, <2>2, <2>3 DEF InOrder
<1>. QED
  BY <1>1, Invariance, OnlyWhatWasSent, PTL

LEMMA BatchIsCycle ==
    ASSUME TypeOK, Flow, NEW i \in 1 .. Len(reports)
    PROVE  reports[i] = SentIn(reports[i][1][1])
<1>0. TypeOK /\ Flow
  OBVIOUS
<1>1. PICK c \in Seq(Nat) : Cuts(c)
  BY <1>0 DEF Flow, CutInv
<1>2. PICK s \in Seq(Rec) : s = sent
  BY <1>0 DEF TypeOK
<1>3. Len(reports) \in Nat /\ reports \in Seq(Seq(Rec)) /\ Len(c) = Len(reports) + 1
  BY <1>0, <1>1, Typed DEF Cuts
<1>4. reports[i] \in Seq(Rec) /\ i \in 1 .. Len(c) /\ i + 1 \in 1 .. Len(c)
  BY <1>3
<1>5. PICK b \in Seq(Rec) : b = reports[i]
  BY <1>4, Zenon
<1>6. PICK k \in Nat : k = c[i]
  BY <1>4
<1>7. PICK l \in Nat : l = c[i + 1]
  <2>1. c[i + 1] \in Nat
    BY <1>4
  <2>. QED
    BY <2>1, Zenon
<1>8. IsPiece(b, k, l) /\ IsCut(k) /\ IsCut(l)
  BY <1>1, <1>4, <1>5, <1>6, <1>7 DEF Cuts
<1>9. /\ k < l /\ Len(b) = l - k /\ l <= Len(s)
      /\ \A j \in 1 .. Len(b) : b[j] = s[k + j] /\ b[j][1] = b[1][1]
      /\ k > 0 => s[k][1] < s[k + 1][1]
      /\ l < Len(s) => s[l][1] < s[l + 1][1]
  <2>1. /\ k < l /\ Len(b) = l - k /\ \A j \in 1 .. Len(b) : b[j] = s[k + j] /\ b[j][1] = b[1][1]
    BY <1>2, <1>8 DEF IsPiece
  <2>2. l <= Len(s) /\ (l > 0 /\ l < Len(s) => s[l][1] < s[l + 1][1])
    BY <1>2, <1>8 DEF IsCut
  <2>3. k > 0 /\ k < Len(s) => s[k][1] < s[k + 1][1]
    BY <1>2, <1>8 DEF IsCut
  <2>4. l > 0 /\ k < Len(s)
    BY <2>1, <2>2
  <2>. QED
    BY <2>1, <2>2, <2>3, <2>4
<1>10. /\ \A p \in 1 .. Len(s) : s[p][1] \in Int
       /\ \A p, q \in 1 .. Len(s) : p <= q => s[p][1] <= s[q][1]
  <2>1. DOMAIN s = 1 .. Len(s)
    OBVIOUS
  <2>2. \A p \in 1 .. Len(s) : s[p] \in Rec
    OBVIOUS
  <2>. QED
    BY <1>0, <1>2, <2>1, <2>2, RecFacts DEF Flow, SentInv
<1>11. PICK cycle \in Int : cycle = b[1][1]
  <2>1. 1 \in 1 .. Len(b)
    BY <1>9
  <2>2. b[1] \in Rec
    BY <2>1
  <2>. QED
    BY <2>2, RecFacts, Zenon
<1>12. ASSUME NEW p \in 1 .. Len(s), k < p, p <= l PROVE s[p][1] = cycle
  <2>1. p - k \in 1 .. Len(b) /\ k + (p - k) = p
    BY <1>9, <1>12
  <2>2. b[p - k] = s[k + (p - k)] /\ b[p - k][1] = b[1][1]
    BY <1>9, <2>1, Zenon
  <2>. QED
    BY <1>11, <2>1, <2>2
<1>13. ASSUME NEW p \in 1 .. Len(s), p <= k PROVE s[p][1] # cycle
  <2>1. k \in 1 .. Len(s) /\ k + 1 \in 1 .. Len(s) /\ k < k + 1 /\ k + 1 <= l
    BY <1>9, <1>13
  <2>2. s[k + 1][1] = cycle
    BY <1>12, <2>1
  <2>3. s[p][1] <= s[k][1] /\ s[k][1] < s[k + 1][1] /\ s[p][1] \in Int /\ s[k][1] \in Int
        /\ s[k + 1][1] \in Int
    BY <1>9, <1>10, <1>13, <2>1
  <2>. QED
    BY <2>2, <2>3
<1>14. ASSUME NEW p \in 1 .. Len(s), l < p PROVE s[p][1] # cycle
  <2>1. l \in 1 .. Len(s) /\ l + 1 \in 1 .. Len(s) /\ k < l /\ l <= l /\ l + 1 <= p /\ l < Len(s)
    BY <1>9, <1>14
  <2>2. s[l][1] = cycle
    BY <1>12, <2>1
  <2>3. s[l + 1][1] <= s[p][1] /\ s[l][1] < s[l + 1][1] /\ s[p][1] \in Int /\ s[l][1] \in Int
        /\ s[l + 1][1] \in Int
    BY <1>9, <1>10, <2>1
  <2>. QED
    BY <2>2, <2>3
<1>15. \A p \in 1 .. Len(s) : s[p][1] = cycle <=> k < p /\ p <= l
  <2>. SUFFICES ASSUME NEW p \in 1 .. Len(s) PROVE s[p][1] = cycle <=> k < p /\ p <= l
    OBVIOUS
  <2>1. CASE p <= k
    BY <1>13, <2>1
  <2>2. CASE l < p
    BY <1>14, <2>2
  <2>3. CASE k < p /\ p <= l
    BY <1>12, <2>3
  <2>. QED
    BY <2>1, <2>2, <2>3
<1>16. Selected(s, cycle) = b
  <2>1. k < l /\ l <= Len(s) /\ Len(b) = l - k /\ \A j \in 1 .. Len(b) : b[j] = s[k + j]
    BY <1>9
  <2>. QED
    BY <1>15, <2>1, SelectPiece
<1>17. SentIn(cycle) = b
  BY <1>2, <1>16 DEF SentIn, Selected
<1>. QED
  BY <1>5, <1>11, <1>17

(* Every batch in the channel holds something, and only what the device sent,
   whatever datagram is late or comes again; while none was, it is the data of
   one report cycle, all of it: whatever the capacity of the channel and
   however the chunks of a cycle, their acknowledgements and the reader of the
   channel interleave. *)
THEOREM BatchesAreCycles == Spec => []WholeCycles
<1>1. IndInv /\ KnownInv => WholeCycles
  <2>1. ASSUME IndInv, ~strayed, NEW i \in 1 .. Len(reports)
        PROVE  reports[i] = SentIn(reports[i][1][1])
    BY <2>1, BatchIsCycle DEF IndInv, Core
  <2>. QED
    BY <2>1 DEF KnownInv, WholeCycles
<1>. QED
  BY <1>1, Invariance, OnlyWhatWasSent, PTL

=============================================================================
