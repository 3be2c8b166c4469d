-------------------------- MODULE InteractionProof --------------------------
(***************************************************************************)
(* Proofs about Interaction, for any cluster and any number of repeated    *)
(* messages: what a write or an invoke tells the user is what the device   *)
(* did, the daemon and a session of the command's own tell the same of the *)
(* same answer, and a read shows every attribute asked for with the value  *)
(* the device holds, however the reports were cut into messages.           *)
(***************************************************************************)
EXTENDS Interaction, FiniteSetTheorems, SequenceTheorems, TLAPS, WellFoundedInduction

Waiting == {"read", "write", "timed", "invoke"}

(* The status that stands for each hidden attribute. *)
Coded(h) == \A a \in DOMAIN h : h[a] \in {Success, Denied}

IsDev(d) ==
    /\ d = [left |-> d.left, timed |-> d.timed, done |-> d.done, ran |-> d.ran,
            sent |-> d.sent, hidden |-> d.hidden]
    /\ Coded(d.hidden)

TypeOK ==
    /\ op \in Ops
    /\ pc \in Waiting \cup {"start", "done"}
    /\ IsDev(dev)
    /\ dev.done \in BOOLEAN /\ dev.ran \in Nat
    /\ \A x \in toCli : x = [n |-> x.n, msg |-> x.msg]

(* The call waits for the answer to what its operation sends. *)
CallInv ==
    /\ pc \in {"read", "write", "timed"} => op.kind = pc
    /\ pc = "invoke" => op.kind \in {"invoke", "timed"}
    /\ pc = "start" => toDev = {} /\ toCli = {}

-----------------------------------------------------------------------------
(* A request the device acts on. *)
Pending == \E m \in toDev : m.op \in {"WriteRequest", "InvokeRequest"}

RequestInv ==
    \A m \in toDev :
      /\ op.kind = "read" => m.op \in {"ReadRequest", "StatusResponse"}
      /\ op.kind = "write" => m = WriteRequest(op.attr, Item)
      /\ op.kind = "invoke" => m = InvokeRequest(FALSE)
      /\ op.kind = "timed" => m \in {TimedRequest, InvokeRequest(TRUE)}

(* Such a request is on its way once, and nothing has been done before it
   arrives; the client sends a timed one only after the window is granted. *)
ActInv ==
    /\ dev.ran <= 1
    /\ pc \in {"start", "timed"} => ~Pending
    /\ Pending \/ pc \in {"start", "timed"} => dev.ran = 0 /\ ~dev.done
    /\ Pending => \A x \in toCli : x.msg = StatusResponse(Success)
    /\ op.kind = "timed" /\ TimedRequest \in toDev =>
         /\ toCli = {} /\ ~Pending /\ pc \in {"timed", "done"} /\ dev.ran = 0 /\ ~dev.done
    /\ pc = "timed" => \E c \in {Success, Denied} : \A x \in toCli : x.msg = StatusResponse(c)

(* The answers a device may give to something it has done, and has not. *)
Reports(done) ==
    IF done THEN {WriteResponse(<<Success>>), InvokeResponse(<<InvokeResponseIB(Success, None)>>),
                  InvokeResponse(<<InvokeResponseIB(None, "fields")>>)}
            ELSE {WriteResponse(<<Denied>>), InvokeResponse(<<InvokeResponseIB(Denied, None)>>),
                  StatusResponse(Denied)}

AnswerInv ==
    op.kind # "read" =>
      \A x \in toCli : \/ x.msg = StatusResponse(Success)
                       \/ x.msg \in Reports(dev.done) /\ ~Pending

ResultInv ==
    op.kind # "read" /\ result # None =>
      /\ result.ok => dev.done
      /\ result.status # None => ~dev.done /\ ~Pending /\ pc = "done"

TruthInv == CallInv /\ RequestInv /\ ActInv /\ AnswerInv /\ ResultInv

-----------------------------------------------------------------------------
(* What the device reports of its attributes. *)
Data == {Value[a] : a \in Attrs} \cup Seq(STRING) \cup STRING \cup {None}

Wire == [attr : Attrs, status : {None, Success, Denied}, append : BOOLEAN, value : Data]

ReportInv ==
    /\ reports \in Seq(Wire)
    /\ dev.left = None \/ dev.left \in Seq(Wire)
    /\ \A x \in toCli : x.msg.op = "ReportData" => x.msg.reports \in Seq(Wire)

RespInv ==
    resp = None \/ \/ \E c : resp = StatusError(c) /\ c # Success
                   \/ resp = Error
                   \/ \E b : resp = Returned(b) /\ (op.kind = "write" => \E c : b = <<c>>)

IndInv == TypeOK /\ TruthInv /\ ReportInv /\ RespInv

-----------------------------------------------------------------------------
(* Induction over 1..N, as a fact about sets. *)
LEMMA UpToN ==
    ASSUME NEW N \in Nat, NEW S, N # 0 => 1 \in S,
           \A n \in 1 .. N : n # N /\ n \in S => n + 1 \in S
    PROVE  \A n \in 1 .. N : n \in S
<1>. DEFINE T == {n \in 1 .. N : n \notin S}
<1>. SUFFICES ASSUME T # {} PROVE FALSE
  OBVIOUS
<1>1. T \subseteq Nat
  OBVIOUS
<1>2. PICK n \in T : \A y \in T : ~(<<y, n>> \in OpToRel(<, Nat))
  <2>1. \E x \in T : \A y \in T : ~(<<y, x>> \in OpToRel(<, Nat))
    <3>. HIDE DEF T
    <3>. QED
      BY <1>1, NatLessThanWellFounded, WFMin
  <2>. QED
    BY <2>1
<1>3. n \in 1 .. N /\ n \notin S /\ n # 1
  OBVIOUS
<1>4. n - 1 \in 1 .. N /\ <<n - 1, n>> \in OpToRel(<, Nat) /\ n - 1 # N /\ (n - 1) + 1 = n
  BY <1>3 DEF OpToRel
<1>5. n - 1 \in S
  BY <1>2, <1>4
<1>. QED
  BY <1>3, <1>4, <1>5

(* The function FlattenSeq is defined with, and that there is one. *)
Pieces(f, seqs, n) ==
    f = [i \in 1 .. n |-> IF i = 1 THEN seqs[i] ELSE f[i - 1] \o seqs[i]]

LEMMA PiecesExist ==
    ASSUME NEW seqs, NEW N \in Nat
    PROVE  \A n \in 1 .. N : \E f : Pieces(f, seqs, n)
<1>. DEFINE S == {n \in 1 .. N : \E f : Pieces(f, seqs, n)}
<1>1. N # 0 => 1 \in S
  <2>1. Pieces([i \in 1 .. 1 |-> seqs[1]], seqs, 1)
    BY DEF Pieces
  <2>. QED
    BY <2>1
<1>2. ASSUME NEW n \in 1 .. N, n # N, n \in S PROVE n + 1 \in S
  <2>1. PICK f : Pieces(f, seqs, n)
    BY <1>2
  <2>. DEFINE g == [i \in 1 .. n + 1 |-> IF i = n + 1 THEN f[n] \o seqs[n + 1] ELSE f[i]]
  <2>2. \A i \in 1 .. n + 1 : g[i] = IF i = 1 THEN seqs[i] ELSE g[i - 1] \o seqs[i]
    <3>. SUFFICES ASSUME NEW i \in 1 .. n + 1
                  PROVE  g[i] = IF i = 1 THEN seqs[i] ELSE g[i - 1] \o seqs[i]
      OBVIOUS
    <3>1. CASE i = n + 1
      <4>1. i # 1 /\ i - 1 = n /\ n \in 1 .. n + 1 /\ n # n + 1
        BY <3>1
      <4>2. g[n] = f[n] /\ g[i] = f[n] \o seqs[i]
        BY <3>1, <4>1
      <4>. QED
        BY <4>1, <4>2
    <3>2. CASE i # n + 1
      <4>1. i \in 1 .. n /\ g[i] = f[i]
        BY <3>2
      <4>2. f[i] = IF i = 1 THEN seqs[i] ELSE f[i - 1] \o seqs[i]
        BY <2>1, <4>1 DEF Pieces
      <4>3. i # 1 => i - 1 \in 1 .. n + 1 /\ i - 1 # n + 1
        BY <4>1
      <4>. QED
        BY <4>1, <4>2, <4>3
    <3>. QED
      BY <3>1, <3>2
  <2>3. g = [i \in 1 .. n + 1 |-> g[i]]
    OBVIOUS
  <2>. HIDE DEF g
  <2>4. Pieces(g, seqs, n + 1)
    BY <2>2, <2>3 DEF Pieces
  <2>5. n + 1 \in 1 .. N
    BY <1>2
  <2>. QED
    BY <2>4, <2>5
<1>. HIDE DEF S
<1>3. \A n \in 1 .. N : n \in S
  BY <1>1, <1>2, UpToN
<1>. QED
  BY <1>3 DEF S

(* What FlattenSeq computes, piece by piece. *)
LEMMA FlattenPieces ==
    ASSUME NEW seqs, NEW N \in Nat \ {0}, N = Len(seqs)
    PROVE  \E g : /\ FlattenSeq(seqs) = g[N]
                  /\ \A n \in 1 .. N : g[n] = IF n = 1 THEN seqs[n] ELSE g[n - 1] \o seqs[n]
<1>0. N \in 1 .. N
  OBVIOUS
<1>1. PICK f : Pieces(f, seqs, N)
  BY <1>0, PiecesExist
<1>. DEFINE h == CHOOSE e : e = [i \in 1 .. N |-> IF i = 1 THEN seqs[i] ELSE e[i - 1] \o seqs[i]]
<1>2. FlattenSeq(seqs) = h[N]
  BY DEF FlattenSeq
<1>3. Pieces(h, seqs, N)
  BY <1>1 DEF Pieces
<1>. HIDE DEF h
<1>4. \A n \in 1 .. N : h[n] = IF n = 1 THEN seqs[n] ELSE h[n - 1] \o seqs[n]
  BY <1>3 DEF Pieces
<1>. QED
  BY <1>2, <1>4

LEMMA FlattenEmpty == FlattenSeq(<<>>) = <<>>
BY DEF FlattenSeq

(* What is concatenated comes from its parts. *)
LEMMA FlattenType ==
    ASSUME NEW M, NEW seqs \in Seq(Seq(M))
    PROVE  FlattenSeq(seqs) \in Seq(M)
<1>0. PICK N \in Nat : N = Len(seqs)
  OBVIOUS
<1>1. CASE N = 0
  <2>1. seqs = <<>> /\ <<>> \in Seq(M)
    BY <1>0, <1>1, EmptySeq
  <2>2. FlattenSeq(seqs) = <<>>
    BY <2>1, FlattenEmpty, Zenon
  <2>. QED
    BY <2>1, <2>2
<1>2. CASE N # 0
  <2>0. N \in 1 .. N /\ N \in Nat \ {0}
    BY <1>2
  <2>1. PICK g : /\ FlattenSeq(seqs) = g[N]
                 /\ \A n \in 1 .. N : g[n] = IF n = 1 THEN seqs[n] ELSE g[n - 1] \o seqs[n]
    BY <1>0, <2>0, FlattenPieces
  <2>. DEFINE S == {n \in 1 .. N : g[n] \in Seq(M)}
  <2>2. 1 \in S
    BY <1>0, <2>0, <2>1
  <2>3. ASSUME NEW n \in 1 .. N, n # N, n \in S PROVE n + 1 \in S
    <3>1. n + 1 \in 1 .. N /\ n + 1 # 1 /\ (n + 1) - 1 = n
      BY <2>3
    <3>2. g[n + 1] = g[n] \o seqs[n + 1]
      BY <2>1, <3>1
    <3>3. seqs[n + 1] \in Seq(M) /\ g[n] \in Seq(M)
      BY <1>0, <2>3, <3>1
    <3>4. g[n + 1] \in Seq(M)
      BY <3>2, <3>3
    <3>. QED
      BY <3>1, <3>4
  <2>. HIDE DEF S
  <2>4. N \in S
    BY <2>0, <2>2, <2>3, UpToN
  <2>. QED
    BY <2>1, <2>4 DEF S
<1>. QED
  BY <1>1, <1>2

(* A sequence that has each element of a set once. *)
Enumerates(s, E) ==
    /\ s \in Seq(E)
    /\ \A e \in E : \E n \in 1 .. Len(s) : s[n] = e
    /\ \A m, n \in 1 .. Len(s) : s[m] = s[n] => m = n

LEMMA EnumeratesNothing == Enumerates(<<>>, {})
BY DEF Enumerates

LEMMA EnumeratesMore ==
    ASSUME NEW E, NEW s, Enumerates(s, E), NEW e, e \notin E
    PROVE  Enumerates(s \o <<e>>, E \cup {e})
<1>. DEFINE t == s \o <<e>>
<1>1. s \in Seq(E) /\ s \in Seq(E \cup {e}) /\ <<e>> \in Seq(E \cup {e})
  BY DEF Enumerates
<1>2. PICK N \in Nat : N = Len(s)
  BY <1>1
<1>3. /\ t \in Seq(E \cup {e}) /\ Len(t) = N + 1 /\ t[N + 1] = e
      /\ \A n \in 1 .. N : t[n] = s[n]
  BY <1>1, <1>2
<1>. HIDE DEF t
<1>4. \A n \in 1 .. N : s[n] \in E
  BY <1>1, <1>2
<1>5. \A n \in 1 .. N + 1 : n \in 1 .. N \/ n = N + 1
  BY <1>2
<1>6. \A x \in E \cup {e} : \E n \in 1 .. N + 1 : t[n] = x
  <2>1. \A n \in 1 .. N : n \in 1 .. N + 1
    OBVIOUS
  <2>2. N + 1 \in 1 .. N + 1
    OBVIOUS
  <2>. QED
    BY <1>2, <1>3, <2>1, <2>2 DEF Enumerates
<1>7. ASSUME NEW m \in 1 .. N + 1, NEW n \in 1 .. N + 1, t[m] = t[n] PROVE m = n
  <2>1. CASE m \in 1 .. N /\ n \in 1 .. N
    BY <1>2, <1>3, <1>7, <2>1, Zenon DEF Enumerates
  <2>2. CASE m \in 1 .. N /\ n = N + 1
    <3>1. t[m] = s[m] /\ s[m] \in E /\ t[n] = e
      BY <1>3, <1>4, <2>2, Zenon
    <3>. QED
      BY <1>7, <3>1, Zenon
  <2>3. CASE m = N + 1 /\ n \in 1 .. N
    <3>1. t[n] = s[n] /\ s[n] \in E /\ t[m] = e
      BY <1>3, <1>4, <2>3, Zenon
    <3>. QED
      BY <1>7, <3>1, Zenon
  <2>. QED
    BY <1>5, <2>1, <2>2, <2>3, Zenon
<1>8. Enumerates(t, E \cup {e})
  BY <1>3, <1>6, <1>7 DEF Enumerates
<1>. QED
  BY <1>8 DEF t

Values(w, P) == {w[i] : i \in P}

(* The places P of a sequence, flattened, leave one piece each. *)
LEMMA FlattenSingles ==
    ASSUME NEW N \in Nat, NEW P \in SUBSET (1 .. N), NEW w,
           \A i, j \in P : w[i] = w[j] => i = j,
           NEW seqs, Len(seqs) = N, N = 0 => seqs = <<>>,
           \A i \in 1 .. N : seqs[i] = IF i \in P THEN <<w[i]>> ELSE <<>>
    PROVE  Enumerates(FlattenSeq(seqs), Values(w, P))
<1>1. CASE N = 0
  <2>1. P = {} /\ Values(w, P) = {}
    BY <1>1 DEF Values
  <2>2. seqs = <<>>
    BY <1>1
  <2>. QED
    BY <2>1, <2>2, FlattenEmpty, EnumeratesNothing
<1>2. CASE N # 0
  <2>0. N \in Nat \ {0} /\ N = Len(seqs) /\ N \in 1 .. N /\ 1 \in 1 .. N
    BY <1>2
  <2>1. PICK g : /\ FlattenSeq(seqs) = g[N]
                 /\ \A n \in 1 .. N : g[n] = IF n = 1 THEN seqs[n] ELSE g[n - 1] \o seqs[n]
    BY <2>0, FlattenPieces, Zenon
  <2>. DEFINE E(n) == {w[i] : i \in {j \in P : j <= n}}
              S == {n \in 1 .. N : Enumerates(g[n], E(n))}
  <2>2. \A n \in 1 .. N : seqs[n] = IF n \in P THEN <<w[n]>> ELSE <<>>
    OBVIOUS
  <2>u. \A n \in 1 .. N : /\ n \in P => {j \in P : j <= n} = {j \in P : j < n} \cup {n}
                          /\ n \notin P => {j \in P : j <= n} = {j \in P : j < n}
                          /\ {j \in P : j <= n} = {j \in P : j < n + 1}
    <3>. SUFFICES ASSUME NEW n \in 1 .. N
                  PROVE  /\ n \in P => {j \in P : j <= n} = {j \in P : j < n} \cup {n}
                         /\ n \notin P => {j \in P : j <= n} = {j \in P : j < n}
                         /\ {j \in P : j <= n} = {j \in P : j < n + 1}
      OBVIOUS
    <3>1. \A j \in P : (j <= n <=> (j < n \/ j = n)) /\ (j <= n <=> j < n + 1)
      OBVIOUS
    <3>. QED
      BY <3>1, Zenon
  <2>3. ASSUME NEW s, NEW n \in 1 .. N, NEW D, Enumerates(s, D), D = {w[i] : i \in {j \in P : j < n}}
        PROVE  Enumerates(s \o seqs[n], E(n))
    <3>1. CASE n \in P
      <4>1. w[n] \notin D
        BY <2>3, <3>1
      <4>2. E(n) = D \cup {w[n]}
        <5>1. {j \in P : j <= n} = {j \in P : j < n} \cup {n}
          BY <2>u, <3>1, Zenon
        <5>. QED
          BY <2>3, <5>1
      <4>. HIDE DEF E
      <4>3. seqs[n] = <<w[n]>>
        BY <2>2, <3>1
      <4>. QED
        BY <2>3, <4>1, <4>2, <4>3, EnumeratesMore
    <3>2. CASE n \notin P
      <4>1. {j \in P : j <= n} = {j \in P : j < n}
        BY <2>u, <3>2, Zenon
      <4>2. E(n) = D
        BY <2>3, <4>1
      <4>3. s \in Seq(D) /\ seqs[n] = <<>>
        BY <2>2, <2>3, <3>2 DEF Enumerates
      <4>4. s \o seqs[n] = s
        BY <4>3
      <4>. HIDE DEF E
      <4>. QED
        BY <2>3, <4>2, <4>4
    <3>. QED
      BY <3>1, <3>2
  <2>4. 1 \in S
    <3>1. {w[i] : i \in {j \in P : j < 1}} = {}
      <4>1. {j \in P : j < 1} = {}
        <5>1. \A j \in P : ~(j < 1)
          OBVIOUS
        <5>. QED
          BY <5>1, Zenon
      <4>. QED
        BY <4>1
    <3>2. Enumerates(<<>> \o seqs[1], E(1))
      BY <2>0, <2>3, <3>1, EnumeratesNothing
    <3>3. <<>> \o seqs[1] = g[1]
      <4>1. seqs[1] = <<w[1]>> \/ seqs[1] = <<>>
        BY <2>0, <2>2
      <4>2. <<>> \o seqs[1] = seqs[1]
        BY <4>1
      <4>. QED
        BY <2>0, <2>1, <4>2
    <3>. QED
      BY <2>0, <3>2, <3>3
  <2>5. ASSUME NEW n \in 1 .. N, n # N, n \in S PROVE n + 1 \in S
    <3>1. n + 1 \in 1 .. N /\ n + 1 # 1 /\ (n + 1) - 1 = n
      BY <2>5
    <3>2. g[n + 1] = g[n] \o seqs[n + 1]
      BY <2>1, <3>1
    <3>3. E(n) = {w[i] : i \in {j \in P : j < n + 1}}
      <4>1. {j \in P : j <= n} = {j \in P : j < n + 1}
        BY <2>u
      <4>. QED
        BY <4>1
    <3>4. Enumerates(g[n], E(n))
      BY <2>5
    <3>5. Enumerates(g[n] \o seqs[n + 1], E(n + 1))
      <4>1. PICK D : D = E(n)
        OBVIOUS
      <4>. HIDE DEF E
      <4>. QED
        BY <2>3, <3>1, <3>3, <3>4, <4>1
    <3>. QED
      BY <3>1, <3>2, <3>5
  <2>. HIDE DEF S
  <2>8. N \in S
    BY <2>0, <2>4, <2>5, UpToN
  <2>7. {j \in P : j <= N} = P
    <3>1. \A j \in P : j <= N
      OBVIOUS
    <3>. QED
      BY <3>1, Zenon
  <2>. QED
    BY <2>1, <2>7, <2>8 DEF S, Values
<1>. QED
  BY <1>1, <1>2

-----------------------------------------------------------------------------
(* Sequences in two parts. *)
LEMMA ConcatAt ==
    ASSUME NEW M, NEW s \in Seq(M), NEW t \in Seq(M), NEW m \in Nat, m = Len(s), NEW n \in Nat, n = Len(t)
    PROVE  /\ s \o t \in Seq(M) /\ Len(s \o t) = m + n
           /\ \A i \in 1 .. m : (s \o t)[i] = s[i]
           /\ \A i \in 1 .. n : (s \o t)[m + i] = t[i]
<1>1. s \o t \in Seq(M) /\ Len(s \o t) = m + n
  OBVIOUS
<1>2. \A i \in 1 .. m : (s \o t)[i] = s[i]
  OBVIOUS
<1>3. \A i \in 1 .. n : (s \o t)[m + i] = t[i]
  OBVIOUS
<1>. QED
  BY <1>1, <1>2, <1>3

(* What joins m places of s and n places of t. *)
Joins(T, x, s, m, t, n) ==
    /\ x \in T /\ Len(x) = m + n
    /\ \A i \in 1 .. m : x[i] = s[i]
    /\ \A i \in 1 .. n : x[m + i] = t[i]

LEMMA JoinsAt ==
    ASSUME NEW M, NEW s \in Seq(M), NEW t \in Seq(M), NEW m \in Nat, m = Len(s), NEW n \in Nat, n = Len(t)
    PROVE  Joins(Seq(M), s \o t, s, m, t, n)
<1>1. s \o t \in Seq(M) /\ Len(s \o t) = m + n
  OBVIOUS
<1>2. \A i \in 1 .. m : (s \o t)[i] = s[i]
  OBVIOUS
<1>3. \A i \in 1 .. n : (s \o t)[m + i] = t[i]
  OBVIOUS
<1>. QED
  BY <1>1, <1>2, <1>3 DEF Joins

(* Concatenation in a set of sequences. *)
Associative(T) == \A x, y, z \in T : (x \o y) \o z = x \o (y \o z)

LEMMA ConcatIsAssociative ==
    ASSUME NEW M
    PROVE  Associative(Seq(M))
<1>. SUFFICES ASSUME NEW x \in Seq(M), NEW y \in Seq(M), NEW z \in Seq(M)
              PROVE  (x \o y) \o z = x \o (y \o z)
  BY Zenon DEF Associative
<1>1. PICK m, n, k \in Nat : m = Len(x) /\ n = Len(y) /\ k = Len(z)
  OBVIOUS
<1>2. PICK p, q : p = x \o y /\ q = y \o z
  OBVIOUS
<1>3. Joins(Seq(M), p, x, m, y, n) /\ Joins(Seq(M), q, y, n, z, k)
  BY <1>1, <1>2, JoinsAt
<1>4. PICK l, r : l = p \o z /\ r = x \o q
  OBVIOUS
<1>5. Joins(Seq(M), l, p, m + n, z, k)
  <2>1. p \in Seq(M) /\ m + n \in Nat /\ m + n = Len(p)
    BY <1>3 DEF Joins
  <2>. QED
    BY <1>1, <1>4, <2>1, JoinsAt
<1>6. Joins(Seq(M), r, x, m, q, n + k)
  <2>1. q \in Seq(M) /\ n + k \in Nat /\ n + k = Len(q)
    BY <1>3 DEF Joins
  <2>. QED
    BY <1>1, <1>4, <2>1, JoinsAt
<1>7. \A i \in 1 .. (m + n + k) : l[i] = r[i]
  <2>. SUFFICES ASSUME NEW i \in 1 .. (m + n + k) PROVE l[i] = r[i]
    OBVIOUS
  <2>1. CASE i <= m
    <3>1. i \in 1 .. m /\ i \in 1 .. (m + n)
      BY <2>1
    <3>2. l[i] = p[i] /\ p[i] = x[i] /\ r[i] = x[i]
      BY <1>3, <1>5, <1>6, <3>1 DEF Joins
    <3>. QED
      BY <3>2
  <2>2. CASE i > m /\ i <= m + n
    <3>1. PICK j \in 1 .. n : i = m + j
      <4>1. i - m \in 1 .. n /\ i = m + (i - m)
        BY <2>2
      <4>. QED
        BY <4>1
    <3>2. i \in 1 .. (m + n) /\ j \in 1 .. (n + k)
      BY <2>2
    <3>3. l[i] = p[i] /\ p[i] = y[j] /\ r[i] = q[j] /\ q[j] = y[j]
      BY <1>3, <1>5, <1>6, <3>1, <3>2 DEF Joins
    <3>. QED
      BY <3>3
  <2>3. CASE i > m + n
    <3>1. PICK j \in 1 .. k : i = m + n + j /\ i = m + (n + j)
      <4>1. i - (m + n) \in 1 .. k /\ i = m + n + (i - (m + n)) /\ i = m + (n + (i - (m + n)))
        BY <2>3
      <4>. QED
        BY <4>1
    <3>2. n + j \in 1 .. (n + k)
      OBVIOUS
    <3>3. l[i] = z[j]
      BY <1>5, <3>1 DEF Joins
    <3>4. r[i] = q[n + j]
      BY <1>6, <3>1, <3>2 DEF Joins
    <3>5. q[n + j] = z[j]
      BY <1>3, <3>1 DEF Joins
    <3>. QED
      BY <3>3, <3>4, <3>5
  <2>. QED
    BY <2>1, <2>2, <2>3
<1>8. l \in Seq(M) /\ r \in Seq(M) /\ Len(l) = m + n + k /\ Len(r) = m + n + k
  BY <1>5, <1>6 DEF Joins
<1>9. l = r
  BY <1>7, <1>8, SeqEqual
<1>. QED
  BY <1>2, <1>4, <1>9

LEMMA TailFrom ==
    ASSUME NEW M, NEW v \in Seq(M), NEW k \in 0 .. Len(v), NEW n \in Nat, n = Len(v) - k
    PROVE  LET r == [t \in 1 .. n |-> v[k + t]]
           IN  r \in Seq(M) /\ Len(r) = n /\ \A i \in 1 .. n : r[i] = v[k + i]
<1>. DEFINE r == [t \in 1 .. n |-> v[k + t]]
<1>1. \A i \in 1 .. n : v[k + i] \in M
  OBVIOUS
<1>2. r \in [1 .. n -> M] /\ \A i \in 1 .. n : r[i] = v[k + i]
  BY <1>1
<1>. HIDE DEF r
<1>3. r \in Seq(M) /\ Len(r) = n
  BY <1>2
<1>4. r \in Seq(M) /\ Len(r) = n /\ \A i \in 1 .. n : r[i] = v[k + i]
  BY <1>2, <1>3
<1>. QED
  BY <1>4 DEF r

LEMMA CutInTwo ==
    ASSUME NEW M, NEW v \in Seq(M), NEW k \in 0 .. Len(v), NEW n \in Nat, n = Len(v) - k
    PROVE  SubSeq(v, 1, k) \o [t \in 1 .. n |-> v[k + t]] = v
<1>. DEFINE r == [t \in 1 .. n |-> v[k + t]]
<1>1. PICK l : l = SubSeq(v, 1, k)
  OBVIOUS
<1>2. l \in Seq(M) /\ Len(l) = k /\ \A i \in 1 .. k : l[i] = v[i]
  BY <1>1
<1>3. r \in Seq(M) /\ Len(r) = n /\ \A i \in 1 .. n : r[i] = v[k + i]
  BY TailFrom
<1>. HIDE DEF r
<1>k. k \in Nat /\ k = Len(l) /\ n = Len(r) /\ l \in Seq(M) /\ r \in Seq(M)
  BY <1>2, <1>3
<1>4. /\ l \o r \in Seq(M) /\ Len(l \o r) = k + n
      /\ \A i \in 1 .. k : (l \o r)[i] = l[i]
      /\ \A i \in 1 .. n : (l \o r)[k + i] = r[i]
  <2>1. l \o r \in Seq(M) /\ Len(l \o r) = k + n
    BY <1>k
  <2>2. \A i \in 1 .. k : (l \o r)[i] = l[i]
    BY <1>k
  <2>3. \A i \in 1 .. n : (l \o r)[k + i] = r[i]
    BY <1>k
  <2>. QED
    BY <2>1, <2>2, <2>3
<1>5. Len(v) \in Nat /\ k \in Nat /\ k + n = Len(v)
  OBVIOUS
<1>6. \A i \in 1 .. Len(v) : (l \o r)[i] = v[i]
  <2>. SUFFICES ASSUME NEW i \in 1 .. Len(v) PROVE (l \o r)[i] = v[i]
    OBVIOUS
  <2>1. CASE i \in 1 .. k
    BY <1>2, <1>4, <2>1
  <2>2. CASE i \notin 1 .. k
    <3>1. i - k \in 1 .. n /\ k + (i - k) = i
      BY <1>5, <2>2
    <3>. QED
      BY <1>3, <1>4, <3>1
  <2>. QED
    BY <2>1, <2>2
<1>7. l \o r = v
  BY <1>4, <1>5, <1>6, SeqEqual
<1>. QED
  BY <1>1, <1>7 DEF r

(* A message takes some of what is left. *)
LEMMA SplitLeft ==
    ASSUME NEW s, s \in Seq(Wire), NEW l, l \in Seq(Wire), NEW n, n \in 0 .. Len(l)
    PROVE  \E a, b : /\ a = SubSeq(l, 1, n) /\ b = SubSeq(l, n + 1, Len(l))
                     /\ a \in Seq(Wire) /\ b \in Seq(Wire)
                     /\ (s \o a) \o b = s \o l
                     /\ n = Len(l) => b = <<>>
<1>1. PICK a, b : a = SubSeq(l, 1, n) /\ b = SubSeq(l, n + 1, Len(l))
  OBVIOUS
<1>2. a \in Seq(Wire) /\ b \in Seq(Wire) /\ (n = Len(l) => b = <<>>)
  BY <1>1
<1>3. a \o b = l
  <2>1. 1 \in 1 .. Len(l) + 1 /\ n \in 1 - 1 .. Len(l) /\ Len(l) \in n .. Len(l)
    OBVIOUS
  <2>2. SubSeq(l, 1, n) \o SubSeq(l, n + 1, Len(l)) = SubSeq(l, 1, Len(l))
    BY <2>1, ConcatAdjacentSubSeq
  <2>. QED
    BY <1>1, <2>2, SubSeqFull
<1>4. Associative(Seq(Wire))
  BY ConcatIsAssociative, Zenon
<1>5. (s \o a) \o b = s \o (a \o b)
  BY <1>2, <1>4, Zenon DEF Associative
<1>. QED
  BY <1>1, <1>2, <1>3, <1>5, Zenon

-----------------------------------------------------------------------------
(* buildReadRecords: what it makes of reports does not depend on their order. *)
(* The place of a report among those of E, by the attribute. *)
Rank(E, e) == Cardinality({f \in E : f.attr <= e.attr})

Sortable(E) ==
    /\ IsFiniteSet(E)
    /\ \A e \in E : e.attr \in Nat
    /\ \A e, f \in E : e.attr = f.attr => e = f

LEMMA RankBijective ==
    ASSUME NEW E, Sortable(E)
    PROVE  /\ \A e \in E : Rank(E, e) \in 1 .. Cardinality(E)
           /\ \A n \in 1 .. Cardinality(E) : \E e \in E : Rank(E, e) = n
           /\ \A e, f \in E : Rank(E, e) = Rank(E, f) => e = f
<1>. DEFINE Up(e) == {f \in E : f.attr <= e.attr}
<1>1. PICK N \in Nat : N = Cardinality(E)
  BY FS_CardinalityType DEF Sortable
<1>2. ASSUME NEW e \in E
      PROVE  Rank(E, e) \in 1 .. N
  <2>1. Up(e) \in SUBSET E /\ e \in Up(e) /\ Rank(E, e) = Cardinality(Up(e))
    BY DEF Sortable, Rank
  <2>. HIDE DEF Up
  <2>2. IsFiniteSet(Up(e)) /\ Cardinality(Up(e)) <= N
    BY <1>1, <2>1, FS_Subset DEF Sortable
  <2>3. Cardinality(Up(e)) \in Nat /\ Cardinality(Up(e)) # 0
    BY <2>1, <2>2, FS_CardinalityType, FS_EmptySet
  <2>. QED
    BY <1>1, <2>1, <2>2, <2>3
<1>3. ASSUME NEW e \in E, NEW f \in E, Rank(E, e) = Rank(E, f), e.attr < f.attr
      PROVE  FALSE
  <2>1. Up(e) \in SUBSET Up(f) /\ f \in Up(f) /\ f \notin Up(e) /\ Up(f) \in SUBSET E
    BY <1>3 DEF Sortable
  <2>2. Cardinality(Up(e)) = Cardinality(Up(f))
    BY <1>3 DEF Rank
  <2>. HIDE DEF Up
  <2>3. IsFiniteSet(Up(f))
    BY <2>1, FS_Subset DEF Sortable
  <2>4. Up(f) = Up(e)
    BY <2>1, <2>2, <2>3, FS_Subset
  <2>. QED
    BY <2>1, <2>4
<1>4. ASSUME NEW e \in E, NEW f \in E, Rank(E, e) = Rank(E, f)
      PROVE  e = f
  <2>1. ~(e.attr < f.attr) /\ ~(f.attr < e.attr)
    BY <1>3, <1>4
  <2>2. e.attr \in Nat /\ f.attr \in Nat
    BY DEF Sortable
  <2>3. e.attr = f.attr
    BY <2>1, <2>2
  <2>. QED
    BY <2>3 DEF Sortable
<1>5. \A n \in 1 .. N : \E e \in E : Rank(E, e) = n
  <2>. DEFINE r == [e \in E |-> Rank(E, e)]
  <2>1. r \in [E -> 1 .. N] /\ \A e, f \in E : r[e] = r[f] => e = f
    BY <1>2, <1>4
  <2>2. r \in Injection(E, 1 .. N)
    BY <2>1 DEF Injection, IsInjective
  <2>3. IsFiniteSet(1 .. N) /\ Cardinality(1 .. N) = N
    BY <1>1, FS_Interval
  <2>. HIDE DEF r
  <2>4. r \in Surjection(E, 1 .. N)
    BY <1>1, <2>2, <2>3, FS_Injection
  <2>5. \A n \in 1 .. N : \E e \in E : r[e] = n
    BY <2>4 DEF Surjection
  <2>. QED
    BY <2>5 DEF r
<1>. QED
  BY <1>1, <1>2, <1>4, <1>5

LEMMA EnumerationLen ==
    ASSUME NEW E, NEW s, Enumerates(s, E)
    PROVE  IsFiniteSet(E) /\ Len(s) = Cardinality(E) /\ s \in [1 .. Len(s) -> E]
<1>1. PICK N \in Nat : N = Len(s)
  BY DEF Enumerates
<1>2. s \in [1 .. N -> E]
  BY <1>1 DEF Enumerates
<1>3. s \in Bijection(1 .. N, E)
  BY <1>1, <1>2 DEF Enumerates, Bijection, Injection, Surjection, IsInjective
<1>4. IsFiniteSet(1 .. N) /\ Cardinality(1 .. N) = N
  BY FS_Interval
<1>5. ExistsBijection(1 .. N, E)
  BY <1>3 DEF ExistsBijection
<1>. QED
  BY <1>1, <1>2, <1>4, <1>5, FS_Bijection

LEMMA EnumerationExists ==
    ASSUME NEW E, IsFiniteSet(E)
    PROVE  Enumerates(SetToSeq(E), E)
<1>1. PICK N \in Nat : N = Cardinality(E)
  BY FS_CardinalityType
<1>2. PICK b : b \in Bijection(1 .. N, E)
  BY <1>1, FS_CardinalityType DEF ExistsBijection
<1>3. b \in [1 .. N -> E] /\ IsInjective(b)
  BY <1>2 DEF Bijection, Injection, IsInjective
<1>. DEFINE s == SetToSeq(E)
<1>4. s \in [1 .. N -> E] /\ IsInjective(s)
  BY <1>1, <1>3 DEF SetToSeq
<1>5. IsFiniteSet(1 .. N) /\ Cardinality(1 .. N) = N
  BY FS_Interval
<1>. HIDE DEF s
<1>6. s \in Injection(1 .. N, E)
  BY <1>4 DEF Injection, IsInjective
<1>7. s \in Surjection(1 .. N, E)
  BY <1>1, <1>5, <1>6, FS_Injection
<1>8. \A e \in E : \E n \in 1 .. N : s[n] = e
  BY <1>7 DEF Surjection
<1>9. s \in Seq(E) /\ Len(s) = N
  BY <1>4
<1>10. \A m, n \in 1 .. N : s[m] = s[n] => m = n
  BY <1>4 DEF IsInjective
<1>11. Enumerates(s, E)
  BY <1>8, <1>9, <1>10 DEF Enumerates
<1>. QED
  BY <1>11 DEF s

(* What BuildReadRecords sorts: the attribute of each report and its place. *)
SortKeys(rs) == {<<rs[i].attr, i>> : i \in DOMAIN rs}

KeysUpTo(rs, k) == {l \in SortKeys(rs) : l[1] < k[1] \/ (l[1] = k[1] /\ l[2] <= k[2])}

SortedIndex(rs, n) == (CHOOSE k \in SortKeys(rs) : Cardinality(KeysUpTo(rs, k)) = n)[2]

LEMMA BuildByIndex ==
    ASSUME NEW rs
    PROVE  BuildReadRecords(rs) = [n \in DOMAIN rs |-> rs[SortedIndex(rs, n)]]
BY DEF BuildReadRecords, SortedIndex, KeysUpTo, SortKeys

LEMMA KeyFacts ==
    ASSUME NEW E, Sortable(E), NEW s, Enumerates(s, E), NEW N \in Nat, N = Len(s)
    PROVE  /\ \A k \in SortKeys(s) : /\ k[2] \in 1 .. N /\ s[k[2]] \in E
                                     /\ k = <<s[k[2]].attr, k[2]>> /\ k[1] = s[k[2]].attr
           /\ \A i \in 1 .. N : <<s[i].attr, i>> \in SortKeys(s)
           /\ \A e \in E : \E k \in SortKeys(s) : s[k[2]] = e
<1>1. DOMAIN s = 1 .. N /\ \A i \in 1 .. N : s[i] \in E
  BY DEF Enumerates
<1>2. ASSUME NEW k \in SortKeys(s)
      PROVE  /\ k[2] \in 1 .. N /\ s[k[2]] \in E
             /\ k = <<s[k[2]].attr, k[2]>> /\ k[1] = s[k[2]].attr
  <2>1. PICK i \in 1 .. N : k = <<s[i].attr, i>>
    BY <1>1 DEF SortKeys
  <2>2. k[1] = s[i].attr /\ k[2] = i
    BY <2>1
  <2>. QED
    BY <1>1, <2>1, <2>2
<1>3. \A i \in 1 .. N : <<s[i].attr, i>> \in SortKeys(s)
  BY <1>1 DEF SortKeys
<1>4. ASSUME NEW e \in E PROVE \E k \in SortKeys(s) : s[k[2]] = e
  <2>1. PICK i \in 1 .. N : s[i] = e
    BY DEF Enumerates
  <2>2. <<s[i].attr, i>>[2] = i
    OBVIOUS
  <2>. QED
    BY <1>3, <2>1, <2>2
<1>. QED
  BY <1>2, <1>3, <1>4, Zenon

LEMMA KeysUpToRank ==
    ASSUME NEW E, Sortable(E), NEW s, Enumerates(s, E), NEW k \in SortKeys(s)
    PROVE  Cardinality(KeysUpTo(s, k)) = Rank(E, s[k[2]])
<1>1. PICK N \in Nat : N = Len(s)
  BY DEF Enumerates
<1>2. /\ \A l \in SortKeys(s) : /\ l[2] \in 1 .. N /\ s[l[2]] \in E
                                /\ l = <<s[l[2]].attr, l[2]>> /\ l[1] = s[l[2]].attr
      /\ \A e \in E : \E l \in SortKeys(s) : s[l[2]] = e
  BY <1>1, KeyFacts
<1>. DEFINE A == KeysUpTo(s, k)
            B == {f \in E : f.attr <= s[k[2]].attr}
            b == [l \in A |-> s[l[2]]]
<1>3. ASSUME NEW l \in SortKeys(s)
      PROVE  l \in A <=> s[l[2]] \in B
  <2>1. l[2] \in 1 .. N /\ k[2] \in 1 .. N /\ s[l[2]] \in E /\ s[k[2]] \in E
        /\ l[1] = s[l[2]].attr /\ k[1] = s[k[2]].attr
    BY <1>2
  <2>2. l[1] \in Nat /\ k[1] \in Nat
    BY <2>1 DEF Sortable
  <2>3. l[1] = k[1] => l[2] = k[2]
    <3>. SUFFICES ASSUME l[1] = k[1] PROVE l[2] = k[2]
      OBVIOUS
    <3>1. s[l[2]] = s[k[2]]
      BY <2>1 DEF Sortable
    <3>. QED
      BY <1>1, <2>1, <3>1 DEF Enumerates
  <2>4. l \in A <=> l[1] <= k[1]
    <3>1. PICK x, y : x = l[2] /\ y = k[2] /\ x \in Int /\ y \in Int
      BY <2>1
    <3>2. l \in A <=> (l[1] < k[1] \/ (l[1] = k[1] /\ x <= y))
      BY <3>1 DEF KeysUpTo
    <3>. QED
      BY <2>2, <2>3, <3>1, <3>2
  <2>5. s[l[2]] \in B <=> l[1] <= k[1]
    BY <2>1
  <2>. QED
    BY <2>4, <2>5
<1>4. A \subseteq SortKeys(s)
  BY DEF KeysUpTo
<1>5. Rank(E, s[k[2]]) = Cardinality(B) /\ B \subseteq E
  BY DEF Rank
<1>. HIDE DEF A, B
<1>6. b \in [A -> B]
  BY <1>3, <1>4
<1>7. \A l, m \in A : b[l] = b[m] => l = m
  <2>. SUFFICES ASSUME NEW l \in A, NEW m \in A, b[l] = b[m] PROVE l = m
    OBVIOUS
  <2>1. s[l[2]] = s[m[2]] /\ l[2] \in 1 .. N /\ m[2] \in 1 .. N
    BY <1>2, <1>4
  <2>2. l[2] = m[2]
    BY <1>1, <2>1 DEF Enumerates
  <2>. QED
    BY <1>2, <1>4, <2>2
<1>8. \A f \in B : \E l \in A : b[l] = f
  <2>. SUFFICES ASSUME NEW f \in B PROVE \E l \in A : b[l] = f
    OBVIOUS
  <2>1. PICK l \in SortKeys(s) : s[l[2]] = f
    BY <1>2, <1>5
  <2>. QED
    BY <1>3, <2>1
<1>. HIDE DEF b
<1>9. b \in Bijection(A, B)
  BY <1>6, <1>7, <1>8 DEF Bijection, Injection, Surjection, IsInjective
<1>10. ExistsBijection(A, B)
  BY <1>9 DEF ExistsBijection
<1>11. IsFiniteSet(A)
  <2>1. IsFiniteSet(B)
    BY <1>5, FS_Subset DEF Sortable
  <2>2. b \in Injection(A, B)
    BY <1>9 DEF Bijection
  <2>. QED
    BY <2>1, <2>2, FS_Injection
<1>12. Cardinality(A) = Cardinality(B)
  BY <1>10, <1>11, FS_Bijection
<1>. QED
  BY <1>5, <1>12 DEF A

(* The sorted reports do not depend on their order before. *)
LEMMA BuildSorted ==
    ASSUME NEW E, Sortable(E), NEW s, Enumerates(s, E)
    PROVE  BuildReadRecords(s) = [n \in 1 .. Cardinality(E) |-> CHOOSE e \in E : Rank(E, e) = n]
<1>1. PICK N \in Nat : N = Len(s) /\ N = Cardinality(E) /\ DOMAIN s = 1 .. N
  <2>1. PICK N \in Nat : N = Len(s) /\ DOMAIN s = 1 .. N
    BY DEF Enumerates
  <2>2. Len(s) = Cardinality(E)
    BY EnumerationLen
  <2>. QED
    BY <2>1, <2>2
<1>2. ASSUME NEW n \in 1 .. N
      PROVE  s[SortedIndex(s, n)] = CHOOSE e \in E : Rank(E, e) = n
  <2>1. PICK e \in E : Rank(E, e) = n
    BY <1>1, RankBijective
  <2>2. \A f \in E : Rank(E, f) = n => f = e
    BY <2>1, RankBijective
  <2>3. e = CHOOSE f \in E : Rank(E, f) = n
    BY <2>1, <2>2
  <2>4. \A k \in SortKeys(s) : s[k[2]] \in E /\ Cardinality(KeysUpTo(s, k)) = Rank(E, s[k[2]])
    BY <1>1, KeyFacts, KeysUpToRank
  <2>5. PICK k \in SortKeys(s) : s[k[2]] = e
    BY <1>1, KeyFacts
  <2>. DEFINE c == CHOOSE l \in SortKeys(s) : Cardinality(KeysUpTo(s, l)) = n
  <2>6. c \in SortKeys(s) /\ Cardinality(KeysUpTo(s, c)) = n
    BY <2>1, <2>4, <2>5
  <2>7. SortedIndex(s, n) = c[2]
    BY DEF SortedIndex
  <2>. HIDE DEF c
  <2>8. s[c[2]] = e
    BY <2>2, <2>4, <2>6
  <2>. QED
    BY <2>3, <2>7, <2>8
<1>3. BuildReadRecords(s) = [n \in 1 .. N |-> s[SortedIndex(s, n)]]
  BY <1>1, BuildByIndex
<1>. QED
  BY <1>1, <1>2, <1>3

LEMMA BuildSame ==
    ASSUME NEW E, Sortable(E), NEW s, Enumerates(s, E), NEW t, Enumerates(t, E)
    PROVE  BuildReadRecords(s) = BuildReadRecords(t)
BY BuildSorted

-----------------------------------------------------------------------------
USE InteractionAssumption

-----------------------------------------------------------------------------
(* What the reports of a read amount to. h is the status of each attribute
   that the device hides. *)
WholeReport(h, a) == IF a \in DOMAIN h THEN StatusReport(a, h[a]) ELSE DataReport(a, Value[a])

(* The reports rs are one group for each attribute of S, and each group makes
   the whole report of its attribute: nothing is missing and nothing is left. *)
Openings(rs) == {i \in DOMAIN rs : ~rs[i].append}

Whole(rs, S, h) ==
    /\ \A i \in Openings(rs) : /\ rs[i].attr \in S
                               /\ FinalizeListGroup(rs[i], Appends(rs, i)) = WholeReport(h, rs[i].attr)
    /\ \A i \in DOMAIN rs \ Openings(rs) : \E j \in DOMAIN rs : Continues(rs, i, j)
    /\ \A a \in S : \E i \in Openings(rs) : rs[i].attr = a
    /\ \A i, j \in Openings(rs) : rs[i].attr = rs[j].attr => i = j


(* The reports of the attributes S. *)
Answers(h, S) == {WholeReport(h, a) : a \in S}

LEMMA WholeFields ==
    ASSUME NEW h, NEW a
    PROVE  /\ WholeReport(h, a).attr = a
           /\ WholeReport(h, a).status = IF a \in DOMAIN h THEN h[a] ELSE None
           /\ a \notin DOMAIN h => WholeReport(h, a).value = Value[a]
BY DEF WholeReport, StatusReport, DataReport

(* Reassembling whole reports gives one report for each attribute. *)
LEMMA ReassembledWhole ==
    ASSUME NEW rs \in Seq(Wire), NEW S, NEW h, Whole(rs, S, h)
    PROVE  Enumerates(ReassembleListChunks(rs), Answers(h, S))
<1>1. PICK N \in Nat : N = Len(rs) /\ DOMAIN rs = 1 .. N
  OBVIOUS
<1>. DEFINE P == Openings(rs)
            w == [i \in 1 .. N |-> WholeReport(h, rs[i].attr)]
            seqs == [i \in DOMAIN rs |-> IF \E j \in DOMAIN rs : Continues(rs, i, j) THEN <<>>
                                         ELSE <<FinalizeListGroup(rs[i], Appends(rs, i))>>]
<1>2. ReassembleListChunks(rs) = FlattenSeq(seqs)
  BY DEF ReassembleListChunks
<1>3. P \in SUBSET (1 .. N) /\ \A i \in 1 .. N : i \in P <=> ~rs[i].append
  BY <1>1 DEF Openings
<1>4. ASSUME NEW i \in P PROVE ~\E j \in DOMAIN rs : Continues(rs, i, j)
  <2>. SUFFICES ASSUME NEW j \in 1 .. N, Continues(rs, i, j) PROVE FALSE
    BY <1>1
  <2>1. i \in (j + 1) .. i
    BY <1>3 DEF Continues
  <2>2. rs[i].append
    BY <2>1 DEF Continues
  <2>. QED
    BY <1>3, <2>2
<1>5. Len(seqs) = N /\ (N = 0 => seqs = <<>>)
  BY <1>1
<1>6. \A i \in 1 .. N : seqs[i] = IF i \in P THEN <<w[i]>> ELSE <<>>
  <2>. SUFFICES ASSUME NEW i \in 1 .. N PROVE seqs[i] = IF i \in P THEN <<w[i]>> ELSE <<>>
    OBVIOUS
  <2>1. CASE i \in P
    <3>1. FinalizeListGroup(rs[i], Appends(rs, i)) = w[i]
      BY <2>1 DEF Whole
    <3>2. seqs[i] = <<FinalizeListGroup(rs[i], Appends(rs, i))>>
      BY <1>1, <1>4, <2>1
    <3>. QED
      BY <2>1, <3>1, <3>2
  <2>2. CASE i \notin P
    <3>1. \E j \in DOMAIN rs : Continues(rs, i, j)
      BY <1>1, <2>2 DEF Whole
    <3>. QED
      BY <1>1, <2>2, <3>1
  <2>. QED
    BY <2>1, <2>2
<1>. HIDE DEF seqs
<1>7. \A i, j \in P : w[i] = w[j] => i = j
  <2>. SUFFICES ASSUME NEW i \in P, NEW j \in P, w[i] = w[j] PROVE i = j
    OBVIOUS
  <2>1. rs[i].attr = rs[j].attr
    BY <1>3, WholeFields
  <2>. QED
    BY <2>1 DEF Whole
<1>8. Values(w, P) = Answers(h, S)
  <2>1. \A i \in P : rs[i].attr \in S /\ w[i] = WholeReport(h, rs[i].attr)
    BY <1>3 DEF Whole
  <2>2. \A a \in S : \E i \in P : rs[i].attr = a
    BY DEF Whole
  <2>. HIDE DEF w, P
  <2>. QED
    BY <2>1, <2>2 DEF Values, Answers
<1>. HIDE DEF w, P
<1>9. Enumerates(FlattenSeq(seqs), Values(w, P))
  BY <1>1, <1>3, <1>5, <1>6, <1>7, FlattenSingles, Zenon
<1>. QED
  BY <1>2, <1>8, <1>9

(* What is shown of an attribute. *)
Shown(v, h, a) ==
    IF a \notin DOMAIN h THEN AttrReport(a, None, Value[a])
    ELSE AttrReport(a, IF v = "daemon" /\ h[a] = Success THEN None ELSE h[a], None)

AllShown(v, h, S) == {Shown(v, h, a) : a \in S}

LEMMA ShownSortable ==
    ASSUME NEW S, S \subseteq Attrs, NEW v, NEW h
    PROVE  Sortable(AllShown(v, h, S))
<1>. DEFINE E == AllShown(v, h, S)
            f == [a \in S |-> Shown(v, h, a)]
<1>1. \A a : Shown(v, h, a).attr = a
  BY DEF Shown, AttrReport
<1>2. f \in Surjection(S, E)
  BY DEF Surjection, AllShown
<1>3. IsFiniteSet(S)
  BY FS_Subset
<1>4. IsFiniteSet(E)
  <2>. HIDE DEF f, E
  <2>. QED
    BY <1>2, <1>3, FS_Surjection
<1>5. ASSUME NEW e \in E PROVE e.attr \in Nat
  <2>1. PICK a \in S : e = Shown(v, h, a)
    BY DEF AllShown
  <2>2. a \in Attrs /\ Attrs \subseteq Nat
    OBVIOUS
  <2>. QED
    BY <1>1, <2>1, <2>2
<1>6. ASSUME NEW e \in E, NEW g \in E, e.attr = g.attr PROVE e = g
  <2>1. PICK a \in S : e = Shown(v, h, a)
    BY DEF AllShown
  <2>2. PICK b \in S : g = Shown(v, h, b)
    BY DEF AllShown
  <2>. QED
    BY <1>1, <1>6, <2>1, <2>2
<1>. HIDE DEF E
<1>7. Sortable(E)
  BY <1>4, <1>5, <1>6 DEF Sortable
<1>. QED
  BY <1>7 DEF E

(* A conversion that tells of each report what is to be shown. *)
LEMMA ConvertedShown ==
    ASSUME NEW S, NEW v, NEW h, NEW rs, Enumerates(rs, Answers(h, S)),
           NEW ds, ds = [i \in DOMAIN rs |-> ds[i]],
           \A i \in DOMAIN rs, a \in S : rs[i] = WholeReport(h, a) => ds[i] = Shown(v, h, a)
    PROVE  Enumerates(ds, AllShown(v, h, S))
<1>1. PICK N \in Nat : N = Len(rs) /\ DOMAIN rs = 1 .. N
  BY DEF Enumerates
<1>2. \A i \in 1 .. N : \E a \in S : rs[i] = WholeReport(h, a)
  BY <1>1 DEF Enumerates, Answers
<1>3. \A i \in 1 .. N, a \in S : rs[i] = WholeReport(h, a) => ds[i] = Shown(v, h, a)
  BY <1>1
<1>4. DOMAIN ds = 1 .. N /\ Len(ds) = N /\ ds = [i \in 1 .. N |-> ds[i]]
  BY <1>1
<1>. DEFINE E == AllShown(v, h, S)
<1>5. \A i \in 1 .. N : ds[i] \in E
  BY <1>2, <1>3 DEF AllShown
<1>6. ds \in Seq(E)
  <2>. HIDE DEF E
  <2>. QED
    BY <1>4, <1>5
<1>7. \A e \in E : \E n \in 1 .. N : ds[n] = e
  <2>. SUFFICES ASSUME NEW a \in S PROVE \E n \in 1 .. N : ds[n] = Shown(v, h, a)
    BY DEF AllShown
  <2>1. PICK n \in 1 .. N : rs[n] = WholeReport(h, a)
    BY <1>1 DEF Enumerates, Answers
  <2>. QED
    BY <1>3, <2>1
<1>8. ASSUME NEW m \in 1 .. N, NEW n \in 1 .. N, ds[m] = ds[n] PROVE m = n
  <2>1. PICK a \in S : rs[m] = WholeReport(h, a)
    BY <1>2
  <2>2. PICK b \in S : rs[n] = WholeReport(h, b)
    BY <1>2
  <2>3. Shown(v, h, a) = Shown(v, h, b)
    BY <1>3, <1>8, <2>1, <2>2
  <2>4. a = b
    <3>1. \A x : Shown(v, h, x).attr = x
      BY DEF Shown, AttrReport
    <3>. QED
      BY <2>3, <3>1
  <2>. QED
    BY <1>1, <2>1, <2>2, <2>4 DEF Enumerates
<1>. HIDE DEF E
<1>9. Enumerates(ds, E)
  BY <1>4, <1>6, <1>7, <1>8 DEF Enumerates
<1>. QED
  BY <1>9 DEF E

LEMMA FieldsRoundTrip == ASSUME NEW d PROVE DecodeFields(EncodeFields(d)) = d
<1>1. <<"base64", d>> # <<>> /\ <<"base64", d>>[2] = d
  OBVIOUS
<1>. QED
  BY <1>1 DEF DecodeFields, EncodeFields

(* The two conversions; in the daemon's answer the number 0 stands for no
   status and the empty string for no data. *)
LEMMA BothShown ==
    ASSUME NEW S, NEW h, Coded(h), NEW rs, Enumerates(rs, Answers(h, S))
    PROVE  /\ Enumerates(DirectAttrReports(rs), AllShown("direct", h, S))
           /\ Enumerates(DaemonAttrReports(ReadResp(rs)), AllShown("daemon", h, S))
<1>1. ASSUME NEW i \in DOMAIN rs, NEW a \in S, rs[i] = WholeReport(h, a)
      PROVE  /\ rs[i].attr = a /\ rs[i].status = IF a \in DOMAIN h THEN h[a] ELSE None
             /\ rs[i].value = IF a \in DOMAIN h THEN None ELSE Value[a]
             /\ a \in DOMAIN h => h[a] # None
  <2>1. /\ WholeReport(h, a).attr = a
        /\ WholeReport(h, a).status = IF a \in DOMAIN h THEN h[a] ELSE None
        /\ WholeReport(h, a).value = IF a \in DOMAIN h THEN None ELSE Value[a]
    BY DEF WholeReport, StatusReport, DataReport
  <2>2. a \in DOMAIN h => h[a] # None
    BY DEF Coded, Success, Denied
  <2>. QED
    BY <1>1, <2>1, <2>2
<1>2. Enumerates(DirectAttrReports(rs), AllShown("direct", h, S))
  <2>. DEFINE ds == DirectAttrReports(rs)
  <2>1. ds = [i \in DOMAIN rs |-> ds[i]]
    BY DEF DirectAttrReports
  <2>2. ASSUME NEW i \in DOMAIN rs, NEW a \in S, rs[i] = WholeReport(h, a)
        PROVE  ds[i] = Shown("direct", h, a)
    <3>1. ds[i] = IF rs[i].status # None THEN AttrReport(rs[i].attr, rs[i].status, None)
                  ELSE AttrReport(rs[i].attr, None, rs[i].value)
      BY DEF DirectAttrReports
    <3>. QED
      BY <1>1, <2>2, <3>1 DEF Shown
  <2>. HIDE DEF ds
  <2>3. Enumerates(ds, AllShown("direct", h, S))
    BY <2>1, <2>2, ConvertedShown
  <2>. QED
    BY <2>3 DEF ds
<1>3. Enumerates(DaemonAttrReports(ReadResp(rs)), AllShown("daemon", h, S))
  <2>. DEFINE a1 == ReadResp(rs)
              ds == DaemonAttrReports(a1)
  <2>0. DOMAIN a1 = DOMAIN rs
    BY DEF ReadResp
  <2>1. ds = [i \in DOMAIN rs |-> ds[i]]
    BY <2>0 DEF DaemonAttrReports
  <2>2. ASSUME NEW i \in DOMAIN rs, NEW a \in S, rs[i] = WholeReport(h, a)
        PROVE  ds[i] = Shown("daemon", h, a)
    <3>1. /\ a1[i].attr = rs[i].attr
          /\ a1[i].code = IF rs[i].status # None THEN rs[i].status ELSE Success
          /\ a1[i].data = EncodeFields(rs[i].value)
      BY DEF ReadResp
    <3>. HIDE DEF a1
    <3>2. ds[i] = IF a1[i].code # Success THEN AttrReport(a1[i].attr, a1[i].code, None)
                  ELSE AttrReport(a1[i].attr, None, DecodeFields(a1[i].data))
      BY <2>0 DEF DaemonAttrReports
    <3>. HIDE DEF ds
    <3>3. DecodeFields(a1[i].data) = rs[i].value
      BY <3>1, FieldsRoundTrip
    <3>4. CASE a \notin DOMAIN h
      BY <1>1, <2>2, <3>1, <3>2, <3>3, <3>4 DEF Shown
    <3>5. CASE a \in DOMAIN h
      <4>1. rs[i].attr = a /\ rs[i].status = h[a] /\ rs[i].value = None /\ h[a] # None
        BY <1>1, <2>2, <3>5
      <4>2. CASE h[a] = Success
        BY <3>1, <3>2, <3>3, <3>5, <4>1, <4>2 DEF Shown
      <4>3. CASE h[a] # Success
        BY <3>1, <3>2, <3>5, <4>1, <4>3 DEF Shown
      <4>. QED
        BY <4>2, <4>3
    <3>. QED
      BY <3>4, <3>5
  <2>. HIDE DEF ds
  <2>3. Enumerates(ds, AllShown("daemon", h, S))
    BY <2>1, <2>2, ConvertedShown
  <2>. QED
    BY <2>3 DEF ds
<1>. QED
  BY <1>2, <1>3

(* A read that collected whole reports shows what was asked for. *)
LEMMA WholeIsShown ==
    ASSUME NEW rs \in Seq(Wire), NEW S, S \subseteq Attrs, NEW h, Coded(h), Whole(rs, S, h)
    PROVE  /\ BuildReadRecords(DirectAttrReports(ReassembleListChunks(rs)))
                = BuildReadRecords(SetToSeq(AllShown("direct", h, S)))
           /\ BuildReadRecords(DaemonAttrReports(ReadResp(ReassembleListChunks(rs))))
                = BuildReadRecords(SetToSeq(AllShown("daemon", h, S)))
<1>1. PICK b : b = ReassembleListChunks(rs)
  OBVIOUS
<1>2. Enumerates(b, Answers(h, S))
  BY <1>1, ReassembledWhole
<1>3. /\ Enumerates(DirectAttrReports(b), AllShown("direct", h, S))
      /\ Enumerates(DaemonAttrReports(ReadResp(b)), AllShown("daemon", h, S))
  BY <1>2, BothShown, Zenon
<1>4. ASSUME NEW v, NEW ds, Enumerates(ds, AllShown(v, h, S))
      PROVE  BuildReadRecords(ds) = BuildReadRecords(SetToSeq(AllShown(v, h, S)))
  <2>1. Sortable(AllShown(v, h, S))
    BY ShownSortable
  <2>2. Enumerates(SetToSeq(AllShown(v, h, S)), AllShown(v, h, S))
    BY <2>1, EnumerationExists DEF Sortable
  <2>. QED
    BY <1>4, <2>1, <2>2, BuildSame
<1>. QED
  BY <1>1, <1>3, <1>4

-----------------------------------------------------------------------------
(* What the device sends. *)
(* Fragments, of a device that hides h. *)
FragmentsOf(h, a, k) ==
    IF a \in DOMAIN h THEN <<StatusReport(a, h[a])>>
    ELSE IF a \in Lists THEN ListFragments(a, k)
    ELSE <<DataReport(a, Value[a])>>

(* The opening of a group and its q appended items are the report of a. *)
Group(fs, q, h, a) ==
    /\ fs \in Seq(Wire) /\ q \in Nat /\ Len(fs) = q + 1
    /\ ~fs[1].append /\ fs[1].attr = a
    /\ \A t \in 2 .. q + 1 : fs[t].append /\ fs[t].attr = a /\ HasKey(fs[t])
    /\ q > 0 => a \in Lists /\ HasKey(fs[1])
    /\ FinalizeListGroup(fs[1], [t \in 1 .. q |-> fs[1 + t].value]) = WholeReport(h, a)

LEMMA FinalizeNothing == ASSUME NEW r PROVE FinalizeListGroup(r, <<>>) = r
BY DEF FinalizeListGroup

LEMMA SingleGroup ==
    ASSUME NEW h, NEW a, NEW r \in Wire, r = WholeReport(h, a)
    PROVE  Group(<<r>>, 0, h, a)
<1>1. ~r.append /\ r.attr = a
  BY DEF WholeReport, StatusReport, DataReport
<1>. DEFINE fs == <<r>>
<1>2. fs \in Seq(Wire) /\ Len(fs) = 1 /\ fs[1] = r
  OBVIOUS
<1>. HIDE DEF fs
<1>3. [t \in 1 .. 0 |-> fs[1 + t].value] = <<>>
  OBVIOUS
<1>4. Group(fs, 0, h, a)
  BY <1>1, <1>2, <1>3, FinalizeNothing DEF Group
<1>. QED
  BY <1>4 DEF fs

(* However a device cuts a list, what it sends is the report of it. *)
LEMMA FragmentsGroup ==
    ASSUME NEW h, Coded(h), NEW a \in Attrs, NEW k \in Nat, a \in Lists => k <= Len(Value[a])
    PROVE  \E q \in Nat : Group(FragmentsOf(h, a, k), q, h, a)
<1>1. ASSUME NEW v \in Data PROVE DataReport(a, v) \in Wire /\ AppendItem(a, v) \in Wire
  BY DEF DataReport, AppendItem, Wire
<1>2. a \in DOMAIN h => StatusReport(a, h[a]) \in Wire
  BY DEF StatusReport, Wire, Data, Coded
<1>3. CASE a \in DOMAIN h
  BY <1>2, <1>3, SingleGroup DEF FragmentsOf, WholeReport
<1>4. CASE a \notin DOMAIN h /\ a \in Lists
  <2>1. PICK v \in Seq(STRING) : v = Value[a] /\ k \in 0 .. Len(v)
    BY <1>4
  <2>2. PICK q \in Nat : q = Len(v) - k
    BY <2>1
  <2>. DEFINE b == DataReport(a, SubSeq(v, 1, k))
              s == [i \in 1 .. q |-> AppendItem(a, v[k + i])]
              fs == <<b>> \o s
  <2>3. b \in Wire
    <3>1. SubSeq(v, 1, k) \in Data
      BY <2>1 DEF Data
    <3>. QED
      BY <1>1, <3>1
  <2>4. \A i \in 1 .. q : v[k + i] \in STRING /\ v[k + i] \in Data
    BY <2>1, <2>2 DEF Data
  <2>5. s \in Seq(Wire) /\ Len(s) = q /\ \A i \in 1 .. q : s[i] = AppendItem(a, v[k + i])
    <3>1. \A i \in 1 .. q : AppendItem(a, v[k + i]) \in Wire
      BY <1>1, <2>4
    <3>2. s \in [1 .. q -> Wire]
      BY <3>1
    <3>3. \A i \in 1 .. q : s[i] = AppendItem(a, v[k + i])
      OBVIOUS
    <3>. HIDE DEF s
    <3>. QED
      BY <3>2, <3>3
  <2>6. b.attr = a /\ ~b.append /\ HasKey(b) /\ b.value = SubSeq(v, 1, k)
    BY DEF DataReport, HasKey
  <2>7. \A x : AppendItem(a, x).append /\ AppendItem(a, x).attr = a /\ HasKey(AppendItem(a, x))
               /\ AppendItem(a, x).value = x
    BY DEF AppendItem, HasKey
  <2>8. \A x : [b EXCEPT !.value = x] = DataReport(a, x)
    <3>. SUFFICES ASSUME NEW x PROVE [b EXCEPT !.value = x] = DataReport(a, x)
      OBVIOUS
    <3>1. b = [attr |-> a, status |-> None, append |-> FALSE, value |-> SubSeq(v, 1, k)]
      BY DEF DataReport
    <3>. HIDE DEF b
    <3>. DEFINE R == [attr : {a}, status : {None}, append : {FALSE}, value : {x}]
    <3>2. [b EXCEPT !.value = x] \in R
      BY <3>1
    <3>3. DataReport(a, x) \in R
      BY DEF DataReport
    <3>. QED
      BY <3>2, <3>3
  <2>9. FragmentsOf(h, a, k) = fs
    BY <1>4, <2>1, <2>2 DEF FragmentsOf, ListFragments
  <2>. HIDE DEF b, s
  <2>10. /\ fs \in Seq(Wire) /\ Len(fs) = q + 1 /\ fs[1] = b
         /\ \A t \in 1 .. q : fs[1 + t] = s[t]
    <3>1. <<b>> \in Seq(Wire) /\ Len(<<b>>) = 1 /\ <<b>>[1] = b
      BY <2>3
    <3>2. PICK o \in Seq(Wire) : o = <<b>> /\ Len(o) = 1 /\ o[1] = b
      BY <3>1
    <3>3. fs = o \o s
      BY <3>2
    <3>. HIDE DEF fs
    <3>. QED
      <4>1. /\ fs \in Seq(Wire) /\ Len(fs) = 1 + q
            /\ \A i \in 1 .. 1 + q : fs[i] = IF i <= 1 THEN o[i] ELSE s[i - 1]
        BY <2>5, <3>2, <3>3, ConcatProperties
      <4>2. \A t \in 1 .. q : 1 + t \in 1 .. 1 + q /\ ~(1 + t <= 1) /\ (1 + t) - 1 = t
        BY <2>2
      <4>3. \A t \in 1 .. q : fs[1 + t] = s[t]
        BY <4>1, <4>2
      <4>4. fs[1] = o[1] /\ 1 + q = q + 1
        BY <2>2, <4>1
      <4>. QED
        BY <3>2, <4>1, <4>3, <4>4
  <2>. HIDE DEF fs
  <2>11. \A t \in 1 .. q : fs[1 + t] = AppendItem(a, v[k + t])
    BY <2>5, <2>10
  <2>12. \A t \in 2 .. q + 1 : fs[t].append /\ fs[t].attr = a /\ HasKey(fs[t])
    <3>. SUFFICES ASSUME NEW t \in 2 .. q + 1 PROVE fs[t].append /\ fs[t].attr = a /\ HasKey(fs[t])
      OBVIOUS
    <3>1. t - 1 \in 1 .. q /\ 1 + (t - 1) = t
      BY <2>2
    <3>2. fs[t] = AppendItem(a, v[k + (t - 1)])
      BY <2>11, <3>1
    <3>. QED
      BY <2>7, <3>2
  <2>13. [t \in 1 .. q |-> fs[1 + t].value] = [t \in 1 .. q |-> v[k + t]]
    BY <2>7, <2>11
  <2>14. FinalizeListGroup(b, [t \in 1 .. q |-> v[k + t]]) = DataReport(a, v)
    <3>1. SubSeq(v, 1, k) \o [t \in 1 .. q |-> v[k + t]] = v
      BY <2>1, <2>2, CutInTwo
    <3>2. CASE q = 0
      <4>1. [t \in 1 .. q |-> v[k + t]] = <<>> /\ k = Len(v)
        BY <2>1, <2>2, <3>2
      <4>2. SubSeq(v, 1, k) = v
        BY <2>1, <4>1, SubSeqFull
      <4>3. b = DataReport(a, v)
        BY <4>2 DEF b
      <4>. QED
        BY <4>1, <4>3, FinalizeNothing
    <3>3. CASE q # 0
      <4>. DEFINE ap == [t \in 1 .. q |-> v[k + t]]
      <4>1. ap # <<>>
        <5>1. DOMAIN ap = 1 .. q /\ 1 \in 1 .. q
          BY <2>2, <3>3
        <5>2. DOMAIN <<>> = {}
          OBVIOUS
        <5>. HIDE DEF ap
        <5>. QED
          BY <5>1, <5>2
      <4>2. SpliceListItems(b.value, ap) = v
        BY <2>6, <3>1 DEF SpliceListItems
      <4>. HIDE DEF ap
      <4>3. FinalizeListGroup(b, ap) = [b EXCEPT !.value = SpliceListItems(b.value, ap)]
        BY <1>4, <2>6, <4>1 DEF FinalizeListGroup
      <4>4. FinalizeListGroup(b, ap) = DataReport(a, v)
        BY <2>8, <4>2, <4>3
      <4>. QED
        BY <4>4 DEF ap
    <3>. QED
      BY <3>2, <3>3
  <2>15. WholeReport(h, a) = DataReport(a, v)
    BY <1>4, <2>1 DEF WholeReport
  <2>16. FinalizeListGroup(fs[1], [t \in 1 .. q |-> fs[1 + t].value]) = WholeReport(h, a)
    BY <2>10, <2>13, <2>14, <2>15
  <2>17. Group(fs, q, h, a)
    BY <1>4, <2>6, <2>10, <2>12, <2>16 DEF Group
  <2>. QED
    BY <2>9, <2>17
<1>5. CASE a \notin DOMAIN h /\ a \notin Lists
  <2>1. Value[a] \in Data
    BY DEF Data
  <2>. QED
    BY <1>1, <1>5, <2>1, SingleGroup DEF FragmentsOf, WholeReport
<1>. QED
  BY <1>3, <1>4, <1>5

(* Where report i of rs is continued. *)
Continued(rs, j) == {i \in DOMAIN rs : Continues(rs, i, j)}

LEMMA ContinuedBound ==
    ASSUME NEW rs \in Seq(Wire), NEW N \in Nat, N = Len(rs), NEW j \in 1 .. N
    PROVE  Cardinality(Continued(rs, j)) \in Nat /\ j + Cardinality(Continued(rs, j)) <= N
<1>1. Continued(rs, j) \in SUBSET ((j + 1) .. N)
  BY DEF Continued, Continues
<1>2. IsFiniteSet((j + 1) .. N) /\ Cardinality((j + 1) .. N) = N - j
  <2>1. j + 1 \in Int /\ N \in Int
    OBVIOUS
  <2>2. IF j + 1 > N THEN N - j = 0 ELSE N - (j + 1) + 1 = N - j
    OBVIOUS
  <2>. QED
    BY <2>1, <2>2, FS_Interval
<1>3. IsFiniteSet(Continued(rs, j)) /\ Cardinality(Continued(rs, j)) <= N - j
  BY <1>1, <1>2, FS_Subset
<1>4. Cardinality(Continued(rs, j)) \in Nat
  BY <1>3, FS_CardinalityType
<1>. QED
  BY <1>3, <1>4

LEMMA AppendsOf ==
    ASSUME NEW rs, NEW j
    PROVE  Appends(rs, j) = [i \in 1 .. Cardinality(Continued(rs, j)) |-> rs[j + i].value]
BY DEF Appends, Continued

(* A group that is opened after the reports rs. *)
Joined(l, rs, fs, N, q) ==
    /\ rs \in Seq(Wire) /\ N \in Nat /\ N = Len(rs)
    /\ l = rs \o fs
    /\ l \in Seq(Wire) /\ Len(l) = N + 1 + q
    /\ \A i \in 1 .. N : l[i] = rs[i]
    /\ \A t \in 1 .. q + 1 : l[N + t] = fs[t]

LEMMA JoinedFacts ==
    ASSUME NEW rs \in Seq(Wire), NEW fs \in Seq(Wire), NEW N \in Nat, N = Len(rs),
           NEW q \in Nat, Len(fs) = q + 1
    PROVE  Joined(rs \o fs, rs, fs, N, q)
<1>1. PICK l : l = rs \o fs
  OBVIOUS
<1>2. PICK n \in Nat : n = q + 1
  OBVIOUS
<1>3. /\ rs \o fs \in Seq(Wire) /\ Len(rs \o fs) = N + n
      /\ \A i \in 1 .. N : (rs \o fs)[i] = rs[i]
      /\ \A i \in 1 .. n : (rs \o fs)[N + i] = fs[i]
  BY <1>2, ConcatAt
<1>4. N + n = N + 1 + q
  BY <1>2
<1>5. Joined(l, rs, fs, N, q)
  BY <1>1, <1>2, <1>3, <1>4 DEF Joined
<1>. QED
  BY <1>1, <1>5

LEMMA OldGroups ==
    ASSUME NEW l, NEW rs, NEW fs, NEW N, NEW q, NEW h, NEW a,
           Joined(l, rs, fs, N, q), Group(fs, q, h, a), NEW j \in 1 .. N
    PROVE  /\ \A i \in DOMAIN l : Continues(l, i, j) <=> i \in 1 .. N /\ Continues(rs, i, j)
           /\ Appends(l, j) = Appends(rs, j)
<1>0. N \in Nat /\ q \in Nat /\ DOMAIN l = 1 .. N + 1 + q /\ DOMAIN rs = 1 .. N /\ 1 \in 1 .. q + 1
  BY DEF Joined, Group
<1>1. ASSUME NEW i \in 1 .. N
      PROVE  Continues(l, i, j) <=> Continues(rs, i, j)
  <2>1. \A c \in (j + 1) .. i : l[c] = rs[c]
    BY <1>0 DEF Joined
  <2>2. l[j] = rs[j]
    BY DEF Joined
  <2>. QED
    BY <2>1, <2>2 DEF Continues
<1>2. ASSUME NEW i \in (N + 1) .. (N + 1 + q), Continues(l, i, j)
      PROVE  FALSE
  <2>1. N + 1 \in (j + 1) .. i
    BY <1>0
  <2>2. l[N + 1].append
    BY <1>2, <2>1 DEF Continues
  <2>3. l[N + 1] = fs[1]
    BY <1>0 DEF Joined
  <2>. QED
    BY <2>2, <2>3 DEF Group
<1>3. \A i \in DOMAIN l : i \in 1 .. N \/ i \in (N + 1) .. (N + 1 + q)
  BY <1>0
<1>4. \A i \in 1 .. N : i \in DOMAIN l
  BY <1>0
<1>5. \A i \in DOMAIN l : Continues(l, i, j) <=> i \in 1 .. N /\ Continues(rs, i, j)
  BY <1>1, <1>2, <1>3
<1>6. Continued(l, j) = Continued(rs, j)
  BY <1>0, <1>4, <1>5 DEF Continued
<1>7. PICK n : n = Cardinality(Continued(rs, j))
  OBVIOUS
<1>8. n \in Nat /\ j + n <= N
  BY <1>7, ContinuedBound DEF Joined
<1>9. \A i \in 1 .. n : l[j + i] = rs[j + i]
  <2>1. \A i \in 1 .. n : j + i \in 1 .. N
    BY <1>0, <1>8
  <2>. QED
    BY <2>1 DEF Joined
<1>10. Appends(l, j) = [i \in 1 .. n |-> l[j + i].value]
  BY <1>6, <1>7, AppendsOf
<1>11. Appends(rs, j) = [i \in 1 .. n |-> rs[j + i].value]
  BY <1>7, AppendsOf
<1>. QED
  BY <1>5, <1>9, <1>10, <1>11

LEMMA NewGroup ==
    ASSUME NEW l, NEW rs, NEW fs, NEW N, NEW q, NEW h, NEW a,
           Joined(l, rs, fs, N, q), Group(fs, q, h, a)
    PROVE  /\ \A i \in (N + 2) .. (N + 1 + q) : Continues(l, i, N + 1)
           /\ Appends(l, N + 1) = [t \in 1 .. q |-> fs[1 + t].value]
<1>0. N \in Nat /\ q \in Nat /\ DOMAIN l = 1 .. N + 1 + q
  BY DEF Joined, Group
<1>1. l[N + 1] = fs[1]
  <2>1. 1 \in 1 .. q + 1
    BY <1>0
  <2>. QED
    BY <2>1 DEF Joined
<1>2. ASSUME NEW c \in (N + 2) .. (N + 1 + q)
      PROVE  HasKey(l[c]) /\ l[c].append /\ l[c].attr = l[N + 1].attr
  <2>1. c - N \in 2 .. q + 1 /\ c - N \in 1 .. q + 1 /\ N + (c - N) = c
    BY <1>0
  <2>2. l[c] = fs[c - N]
    BY <2>1 DEF Joined
  <2>. QED
    BY <1>1, <2>1, <2>2 DEF Group
<1>3. ASSUME NEW i \in (N + 2) .. (N + 1 + q)
      PROVE  Continues(l, i, N + 1)
  <2>1. q > 0 /\ N + 1 < i
    BY <1>0
  <2>2. HasKey(l[N + 1]) /\ ~l[N + 1].append /\ l[N + 1].attr \in Lists
    BY <1>1, <2>1 DEF Group
  <2>3. \A c \in ((N + 1) + 1) .. i : c \in (N + 2) .. (N + 1 + q)
    BY <1>0
  <2>. QED
    BY <1>2, <2>1, <2>2, <2>3 DEF Continues
<1>4. Continued(l, N + 1) = (N + 2) .. (N + 1 + q)
  <2>1. \A i \in DOMAIN l : Continues(l, i, N + 1) => i \in (N + 2) .. (N + 1 + q)
    BY <1>0 DEF Continues
  <2>2. \A i \in (N + 2) .. (N + 1 + q) : i \in DOMAIN l
    BY <1>0
  <2>. QED
    BY <1>3, <2>1, <2>2 DEF Continued
<1>5. Cardinality(Continued(l, N + 1)) = q
  <2>1. N + 2 \in Int /\ N + 1 + q \in Int
    BY <1>0
  <2>2. q = IF N + 2 > N + 1 + q THEN 0 ELSE (N + 1 + q) - (N + 2) + 1
    BY <1>0
  <2>. QED
    BY <1>4, <2>1, <2>2, FS_Interval
<1>6. Appends(l, N + 1) = [t \in 1 .. q |-> l[(N + 1) + t].value]
  BY <1>5, AppendsOf, Zenon
<1>7. \A t \in 1 .. q : l[(N + 1) + t] = fs[1 + t]
  <2>1. \A t \in 1 .. q : 1 + t \in 1 .. q + 1 /\ N + (1 + t) = (N + 1) + t
    BY <1>0
  <2>. QED
    BY <2>1 DEF Joined
<1>. QED
  BY <1>3, <1>6, <1>7

(* One more whole report. *)
LEMMA WholeMore ==
    ASSUME NEW rs \in Seq(Wire), NEW S, NEW h, Whole(rs, S, h), NEW a, a \notin S,
           NEW fs, NEW q, Group(fs, q, h, a)
    PROVE  rs \o fs \in Seq(Wire) /\ Whole(rs \o fs, S \cup {a}, h)
<1>0. PICK N \in Nat : N = Len(rs)
  OBVIOUS
<1>1. PICK l : l = rs \o fs
  OBVIOUS
<1>2. Joined(l, rs, fs, N, q)
  BY <1>0, <1>1, JoinedFacts DEF Group
<1>3. q \in Nat /\ DOMAIN l = 1 .. N + 1 + q /\ DOMAIN rs = 1 .. N /\ l \in Seq(Wire)
  BY <1>2 DEF Joined, Group
<1>4. l[N + 1] = fs[1] /\ ~l[N + 1].append /\ l[N + 1].attr = a
  <2>1. 1 \in 1 .. q + 1
    BY <1>3
  <2>. QED
    BY <1>2, <2>1 DEF Joined, Group
<1>5. \A i \in DOMAIN l : i \in 1 .. N \/ i = N + 1 \/ i \in (N + 2) .. (N + 1 + q)
  BY <1>3
<1>6. /\ \A i \in 1 .. N : i \in DOMAIN l /\ l[i] = rs[i]
      /\ N + 1 \in DOMAIN l
  BY <1>2, <1>3 DEF Joined
<1>7. \A i \in (N + 2) .. (N + 1 + q) : Continues(l, i, N + 1)
  BY <1>2, NewGroup
<1>8. \A i \in (N + 2) .. (N + 1 + q) : l[i].append
  <2>. SUFFICES ASSUME NEW i \in (N + 2) .. (N + 1 + q) PROVE l[i].append
    OBVIOUS
  <2>1. i \in ((N + 1) + 1) .. i
    BY <1>3
  <2>. QED
    BY <1>7, <2>1 DEF Continues
<1>9. Openings(l) = Openings(rs) \cup {N + 1}
  BY <1>3, <1>4, <1>5, <1>6, <1>8 DEF Openings
<1>10. ASSUME NEW i \in Openings(l)
       PROVE  l[i].attr \in S \cup {a} /\ FinalizeListGroup(l[i], Appends(l, i)) = WholeReport(h, l[i].attr)
  <2>1. CASE i \in Openings(rs)
    <3>1. i \in 1 .. N
      BY <1>3, <2>1 DEF Openings
    <3>2. Appends(l, i) = Appends(rs, i)
      BY <1>2, <3>1, OldGroups
    <3>3. l[i] = rs[i]
      BY <1>6, <3>1
    <3>. QED
      BY <2>1, <3>2, <3>3 DEF Whole
  <2>2. CASE i = N + 1
    <3>1. Appends(l, N + 1) = [t \in 1 .. q |-> fs[1 + t].value]
      BY <1>2, NewGroup
    <3>. QED
      BY <1>4, <2>2, <3>1 DEF Group
  <2>. QED
    BY <1>9, <2>1, <2>2
<1>11. ASSUME NEW i \in DOMAIN l, i \notin Openings(l)
       PROVE  \E j \in DOMAIN l : Continues(l, i, j)
  <2>1. CASE i \in 1 .. N
    <3>1. i \in DOMAIN rs \ Openings(rs)
      BY <1>3, <1>9, <1>11, <2>1
    <3>2. PICK j \in 1 .. N : Continues(rs, i, j)
      BY <1>3, <3>1 DEF Whole
    <3>3. Continues(l, i, j)
      BY <1>2, <2>1, <3>2, OldGroups
    <3>. QED
      BY <1>6, <3>3
  <2>2. CASE i \in (N + 2) .. (N + 1 + q)
    BY <1>6, <1>7, <2>2
  <2>. QED
    BY <1>5, <1>9, <1>11, <2>1, <2>2
<1>12. \A b \in S \cup {a} : \E i \in Openings(l) : l[i].attr = b
  <2>1. ASSUME NEW b \in S PROVE \E i \in Openings(l) : l[i].attr = b
    <3>1. PICK i \in Openings(rs) : rs[i].attr = b
      BY DEF Whole
    <3>2. l[i] = rs[i]
      BY <1>3, <1>6, <3>1 DEF Openings
    <3>. QED
      BY <1>9, <3>1, <3>2
  <2>2. \E i \in Openings(l) : l[i].attr = a
    BY <1>4, <1>9
  <2>. QED
    BY <2>1, <2>2
<1>13. ASSUME NEW i \in Openings(l), NEW j \in Openings(l), l[i].attr = l[j].attr PROVE i = j
  <2>1. \A c \in Openings(rs) : l[c] = rs[c] /\ rs[c].attr \in S
    BY <1>3, <1>6 DEF Openings, Whole
  <2>2. CASE i \in Openings(rs) /\ j \in Openings(rs)
    BY <1>13, <2>1, <2>2 DEF Whole
  <2>. QED
    BY <1>4, <1>9, <1>13, <2>1, <2>2
<1>14. Whole(l, S \cup {a}, h)
  BY <1>10, <1>11, <1>12, <1>13 DEF Whole
<1>. QED
  BY <1>1, <1>3, <1>14

(* No report is the report of nothing. *)
LEMMA WholeNothing == ASSUME NEW h PROVE <<>> \in Seq(Wire) /\ Whole(<<>>, {}, h)
BY DEF Whole, Openings

LEMMA OrderFacts ==
    ASSUME NEW S, IsFiniteSet(S), NEW ord \in SetToSeqs(S), NEW n \in Nat, n = Cardinality(S)
    PROVE  /\ ord \in [1 .. n -> S]
           /\ \A i, j \in 1 .. n : i # j => ord[i] # ord[j]
           /\ Values(ord, 1 .. n) = S
<1>1. ord \in [1 .. n -> S] /\ \A i, j \in 1 .. n : i # j => ord[i] # ord[j]
  BY DEF SetToSeqs
<1>2. ord \in Injection(1 .. n, S)
  BY <1>1 DEF Injection, IsInjective
<1>3. IsFiniteSet(1 .. n) /\ Cardinality(1 .. n) = n
  BY FS_Interval
<1>4. ord \in Surjection(1 .. n, S)
  BY <1>2, <1>3, FS_Injection
<1>5. Values(ord, 1 .. n) = S
  BY <1>1, <1>4 DEF Values, Surjection
<1>. QED
  BY <1>1, <1>5

LEMMA FirstValues ==
    ASSUME NEW ord, NEW m \in Nat
    PROVE  Values(ord, 1 .. m + 1) = Values(ord, 1 .. m) \cup {ord[m + 1]}
<1>1. 1 .. m + 1 = (1 .. m) \cup {m + 1}
  OBVIOUS
<1>. QED
  BY <1>1 DEF Values

(* What the device sends of the attributes S, in any order and however cut. *)
LEMMA WholeAnswer ==
    ASSUME NEW S, S \subseteq Attrs, NEW ord \in SetToSeqs(S), NEW h,
           NEW n \in Nat, n = Cardinality(S), NEW seqs, Len(seqs) = n, n = 0 => seqs = <<>>,
           \A i \in 1 .. n : \E q \in Nat : Group(seqs[i], q, h, ord[i])
    PROVE  FlattenSeq(seqs) \in Seq(Wire) /\ Whole(FlattenSeq(seqs), S, h)
<1>1. /\ ord \in [1 .. n -> S]
      /\ \A i, j \in 1 .. n : i # j => ord[i] # ord[j]
      /\ Values(ord, 1 .. n) = S
  <2>1. IsFiniteSet(S)
    BY FS_Subset
  <2>. QED
    BY <2>1, OrderFacts
<1>2. CASE n = 0
  <2>1. S = {}
    BY <1>1, <1>2 DEF Values
  <2>2. FlattenSeq(seqs) = <<>>
    BY <1>2, FlattenEmpty
  <2>. QED
    BY <2>1, <2>2, WholeNothing
<1>3. CASE n # 0
  <2>0. n \in Nat \ {0} /\ n \in 1 .. n /\ 1 \in 1 .. n /\ n = Len(seqs)
    BY <1>3
  <2>1. PICK g : /\ FlattenSeq(seqs) = g[n]
                 /\ \A i \in 1 .. n : g[i] = IF i = 1 THEN seqs[i] ELSE g[i - 1] \o seqs[i]
    BY <2>0, FlattenPieces
  <2>. DEFINE Good(s, m) == s \in Seq(Wire) /\ Whole(s, Values(ord, 1 .. m), h)
              T == {m \in 1 .. n : Good(g[m], m)}
  <2>2. ASSUME NEW m \in 0 .. n - 1, NEW s, Good(s, m)
        PROVE  Good(s \o seqs[m + 1], m + 1)
    <3>1. m \in Nat /\ m + 1 \in 1 .. n
      OBVIOUS
    <3>2. PICK q \in Nat : Group(seqs[m + 1], q, h, ord[m + 1])
      BY <3>1
    <3>3. ord[m + 1] \notin Values(ord, 1 .. m)
      <4>1. \A i \in 1 .. m : i \in 1 .. n /\ i # m + 1
        BY <3>1
      <4>2. \A i \in 1 .. m : ord[i] # ord[m + 1]
        BY <1>1, <3>1, <4>1
      <4>. QED
        BY <4>2 DEF Values
    <3>4. Values(ord, 1 .. m + 1) = Values(ord, 1 .. m) \cup {ord[m + 1]}
      BY <3>1, FirstValues
    <3>5. PICK f, a, V : f = seqs[m + 1] /\ a = ord[m + 1] /\ V = Values(ord, 1 .. m)
      OBVIOUS
    <3>6. s \in Seq(Wire) /\ Whole(s, V, h) /\ a \notin V /\ Group(f, q, h, a)
      BY <2>2, <3>2, <3>3, <3>5
    <3>7. s \o f \in Seq(Wire) /\ Whole(s \o f, V \cup {a}, h)
      BY <3>6, WholeMore
    <3>. QED
      BY <3>4, <3>5, <3>7
  <2>3. 1 \in T
    <3>1. Good(<<>>, 0)
      <4>1. 1 .. 0 = {}
        OBVIOUS
      <4>2. Values(ord, 1 .. 0) = {}
        BY <4>1 DEF Values
      <4>. QED
        <5>1. <<>> \in Seq(Wire) /\ Whole(<<>>, {}, h)
          BY WholeNothing
        <5>2. PICK V : V = Values(ord, 1 .. 0)
          OBVIOUS
        <5>3. Whole(<<>>, V, h)
          BY <4>2, <5>1, <5>2
        <5>. QED
          BY <5>1, <5>2, <5>3
    <3>2. Good(<<>> \o seqs[0 + 1], 0 + 1)
      <4>1. 0 \in 0 .. n - 1
        BY <2>0
      <4>. HIDE DEF Good
      <4>. QED
        BY <2>2, <3>1, <4>1
    <3>3. seqs[1] \in Seq(Wire)
      BY <2>0 DEF Group
    <3>4. <<>> \o seqs[1] = g[1]
      BY <2>0, <2>1, <3>3, ConcatEmptySeq
    <3>. HIDE DEF Good
    <3>5. Good(g[1], 1)
      BY <3>2, <3>4
    <3>. QED
      BY <2>0, <3>5
  <2>4. ASSUME NEW m \in 1 .. n, m # n, m \in T PROVE m + 1 \in T
    <3>1. m \in 0 .. n - 1 /\ m + 1 \in 1 .. n /\ m + 1 # 1 /\ (m + 1) - 1 = m
      BY <2>4
    <3>2. g[m + 1] = g[m] \o seqs[m + 1]
      BY <2>1, <3>1
    <3>. HIDE DEF Good
    <3>3. Good(g[m], m)
      BY <2>4
    <3>4. Good(g[m] \o seqs[m + 1], m + 1)
      BY <2>2, <3>1, <3>3
    <3>. QED
      BY <3>1, <3>2, <3>4
  <2>. HIDE DEF T
  <2>5. n \in T
    BY <2>0, <2>3, <2>4, UpToN
  <2>. QED
    BY <1>1, <2>1, <2>5 DEF T
<1>. QED
  BY <1>2, <1>3

(* What DeviceRead has to say. *)
Answering(h, k, ord) ==
    FlattenSeq([i \in DOMAIN ord |-> FragmentsOf(h, ord[i], IF ord[i] \in Lists THEN k[ord[i]] ELSE 0)])

LEMMA AnswerIsWhole ==
    ASSUME NEW A, NEW h, Coded(h), NEW k \in [Lists -> 0 .. MaxPrefix], \A a \in Lists : k[a] <= Len(Value[a]),
           NEW ord \in SetToSeqs(Asked(A))
    PROVE  Answering(h, k, ord) \in Seq(Wire) /\ Whole(Answering(h, k, ord), Asked(A), h)
<1>. DEFINE seqs == [i \in DOMAIN ord |-> FragmentsOf(h, ord[i], IF ord[i] \in Lists THEN k[ord[i]] ELSE 0)]
<1>1. Asked(A) \subseteq Attrs /\ IsFiniteSet(Asked(A))
  <2>1. Asked(A) \subseteq Attrs
    BY DEF Asked
  <2>. QED
    BY <2>1, FS_Subset
<1>2. PICK n \in Nat : n = Cardinality(Asked(A))
  BY <1>1, FS_CardinalityType
<1>3. ord \in [1 .. n -> Attrs]
  BY <1>1, <1>2, OrderFacts
<1>4. \A i \in 1 .. n : \E q \in Nat : Group(seqs[i], q, h, ord[i])
  <2>. SUFFICES ASSUME NEW i \in 1 .. n
                PROVE  \E q \in Nat :
                         Group(FragmentsOf(h, ord[i], IF ord[i] \in Lists THEN k[ord[i]] ELSE 0), q, h, ord[i])
    BY <1>3
  <2>1. PICK a \in Attrs : a = ord[i]
    BY <1>3
  <2>2. CASE a \in Lists
    <3>1. k[a] \in Nat /\ k[a] <= Len(Value[a])
      BY <2>2
    <3>. QED
      BY <2>1, <2>2, <3>1, FragmentsGroup
  <2>3. CASE a \notin Lists
    BY <2>1, <2>3, FragmentsGroup
  <2>. QED
    BY <2>2, <2>3
<1>5. Len(seqs) = n /\ (n = 0 => seqs = <<>>)
  BY <1>3
<1>. HIDE DEF seqs
<1>6. FlattenSeq(seqs) \in Seq(Wire) /\ Whole(FlattenSeq(seqs), Asked(A), h)
  BY <1>1, <1>2, <1>4, <1>5, WholeAnswer
<1>. QED
  BY <1>6 DEF Answering, seqs

LEMMA ReadAnswer ==
    ASSUME NEW m, DeviceRead(m), IsDev(dev)
    PROVE  \E l \in Seq(Wire) : Whole(l, Asked(m.attr), dev.hidden) /\ DeviceReports(l)
<1>1. \A a, k : Fragments(a, k) = FragmentsOf(dev.hidden, a, k)
  BY DEF Fragments, FragmentsOf
<1>2. PICK k \in [Lists -> 0 .. MaxPrefix] :
        /\ \A a \in Lists : k[a] <= Len(Value[a])
        /\ \E ord \in SetToSeqs(Asked(m.attr)) :
             DeviceReports(FlattenSeq([i \in DOMAIN ord |->
                 Fragments(ord[i], IF ord[i] \in Lists THEN k[ord[i]] ELSE 0)]))
  BY Zenon DEF DeviceRead
<1>3. PICK ord \in SetToSeqs(Asked(m.attr)) :
        DeviceReports(FlattenSeq([i \in DOMAIN ord |->
            Fragments(ord[i], IF ord[i] \in Lists THEN k[ord[i]] ELSE 0)]))
  BY <1>2, Zenon
<1>4. DeviceReports(Answering(dev.hidden, k, ord))
  BY <1>1, <1>3 DEF Answering
<1>5. Answering(dev.hidden, k, ord) \in Seq(Wire) /\ Whole(Answering(dev.hidden, k, ord), Asked(m.attr), dev.hidden)
  <2>1. Coded(dev.hidden)
    BY DEF IsDev
  <2>. QED
    BY <1>2, <1>3, <2>1, AnswerIsWhole
<1>. QED
  BY <1>4, <1>5

-----------------------------------------------------------------------------
(* What the user is told of each kind of answer. *)
LEMMA ToldOfErrors ==
    ASSUME NEW o \in Ops
    PROVE  /\ Outcome(o, Error) = Failed
           /\ \A c : c # Success => Outcome(o, StatusError(c)) = Refused(c)
<1>1. None # "error" /\ None # "status"
  OBVIOUS
<1>2. DirectOutcome(o, Error) = Failed
  BY <1>1 DEF DirectOutcome, Error
<1>3. DaemonOutcome(o, DaemonResponse(o, Error)) = Failed
  BY <1>1 DEF DaemonOutcome, DaemonResponse, Error
<1>4. ASSUME NEW c, c # Success
      PROVE  /\ DirectOutcome(o, StatusError(c)) = Refused(c)
             /\ DaemonOutcome(o, DaemonResponse(o, StatusError(c))) = Refused(c)
  BY <1>1, <1>4 DEF DirectOutcome, DaemonOutcome, DaemonResponse, StatusError, Success
<1>5. /\ CommissionerOutcome(o, Error) = DirectOutcome(o, Error)
      /\ \A c : CommissionerOutcome(o, StatusError(c)) = DirectOutcome(o, StatusError(c))
  BY <1>1 DEF CommissionerOutcome, Error, StatusError
<1>. QED
  BY <1>2, <1>3, <1>4, <1>5 DEF Outcome

LEMMA ToldOfWrite ==
    ASSUME NEW o \in Ops, o.kind = "write", NEW c
    PROVE  /\ DirectOutcome(o, Returned(<<c>>)) = IF c = Success \/ c = None THEN Ok(None) ELSE Refused(c)
           /\ DaemonOutcome(o, DaemonResponse(o, Returned(<<c>>))) = DirectOutcome(o, Returned(<<c>>))
           /\ Outcome(o, Returned(<<c>>)) = DirectOutcome(o, Returned(<<c>>))
<1>1. FirstFailure(<<c>>) = IF c = Success THEN None ELSE c
  <2>1. DOMAIN <<c>> = {1} /\ <<c>>[1] = c
    OBVIOUS
  <2>2. CASE c = Success
    BY <2>1, <2>2 DEF FirstFailure
  <2>3. CASE c # Success
    <3>1. {i \in DOMAIN <<c>> : <<c>>[i] # Success} = {1}
      BY <2>1, <2>3
    <3>2. (CHOOSE i \in {1} : \A j \in {1} : i <= j) = 1
      OBVIOUS
    <3>. QED
      BY <2>1, <2>3, <3>1, <3>2 DEF FirstFailure
  <2>. QED
    BY <2>2, <2>3
<1>2. DirectOutcome(o, Returned(<<c>>)) = WriteOutcome(<<c>>)
  BY DEF DirectOutcome, Returned
<1>3. DaemonOutcome(o, DaemonResponse(o, Returned(<<c>>))) = WriteOutcome(<<c>>)
  <2>1. PICK a : a = DaemonResponse(o, Returned(<<c>>))
    OBVIOUS
  <2>2. a.ok = TRUE /\ a.body = WriteResp(<<c>>)
    BY <2>1 DEF DaemonResponse, Returned
  <2>3. [i \in DOMAIN WriteResp(<<c>>) |-> WriteResp(<<c>>)[i].code] = <<c>>
    BY DEF WriteResp
  <2>. QED
    BY <2>1, <2>2, <2>3 DEF DaemonOutcome
<1>4. CommissionerOutcome(o, Returned(<<c>>)) = DirectOutcome(o, Returned(<<c>>))
  BY DEF CommissionerOutcome
<1>. QED
  BY <1>1, <1>2, <1>3, <1>4 DEF Outcome, WriteOutcome

LEMMA ToldOfInvoke ==
    ASSUME NEW o \in Ops, o.kind \in {"invoke", "timed"}, NEW b
    PROVE  /\ DirectOutcome(o, Returned(b)) = InvokeOutcome(b)
           /\ DaemonOutcome(o, DaemonResponse(o, Returned(b))) = InvokeOutcome(b)
           /\ Outcome(o, Returned(b)) = InvokeOutcome(b)
<1>1. DirectOutcome(o, Returned(b)) = InvokeOutcome(b)
  BY DEF DirectOutcome, Returned
<1>2. DaemonOutcome(o, DaemonResponse(o, Returned(b))) = InvokeOutcome(b)
  <2>1. PICK a : a = DaemonResponse(o, Returned(b))
    OBVIOUS
  <2>2. /\ a.ok = TRUE
        /\ a.body.code = IF b.status # None THEN b.status ELSE 0
        /\ a.body.data = EncodeFields(b.data)
    BY <2>1 DEF DaemonResponse, Returned
  <2>3. DaemonOutcome(o, a) = IF a.body.code # 0 THEN Refused(a.body.code) ELSE Ok(DecodeFields(a.body.data))
    BY <2>2 DEF DaemonOutcome
  <2>. QED
    BY <2>1, <2>2, <2>3, FieldsRoundTrip DEF InvokeOutcome, Success
<1>3. CommissionerOutcome(o, Returned(b)) = DirectOutcome(o, Returned(b))
  BY DEF CommissionerOutcome
<1>. QED
  BY <1>1, <1>2, <1>3 DEF Outcome

LEMMA DaemonReads ==
    ASSUME NEW o \in Ops, o.kind = "read", NEW b
    PROVE  DaemonOutcome(o, DaemonResponse(o, Returned(b))) = ReadOutcome(o, DaemonAttrReports(ReadResp(b)))
<1>1. PICK a : a = DaemonResponse(o, Returned(b))
  OBVIOUS
<1>2. a.ok = TRUE /\ a.body = ReadResp(b)
  BY <1>1 DEF DaemonResponse, Returned
<1>. QED
  BY <1>1, <1>2 DEF DaemonOutcome

(* daemonAttrReports: a status travels as a number, 0 for none, the data in
   base64; together they give back the report. *)
LEMMA ToldOfRead ==
    ASSUME NEW o \in Ops, o.kind = "read", NEW b, \A i \in DOMAIN b : b[i].status # Success
    PROVE  DirectOutcome(o, Returned(b)) = DaemonOutcome(o, DaemonResponse(o, Returned(b)))
<1>2. DirectAttrReports(b) = DaemonAttrReports(ReadResp(b))
  <2>. DEFINE a == ReadResp(b)
  <2>1. DOMAIN a = DOMAIN b
    BY DEF ReadResp
  <2>2. ASSUME NEW i \in DOMAIN b
        PROVE  DirectAttrReports(b)[i] = DaemonAttrReports(a)[i]
    <3>1. /\ a[i].attr = b[i].attr
          /\ a[i].code = IF b[i].status # None THEN b[i].status ELSE Success
          /\ a[i].data = EncodeFields(b[i].value)
      BY DEF ReadResp
    <3>2. b[i].status # Success
      OBVIOUS
    <3>. HIDE DEF a
    <3>3. DaemonAttrReports(a)[i] = IF a[i].code # Success THEN AttrReport(a[i].attr, a[i].code, None)
                                    ELSE AttrReport(a[i].attr, None, DecodeFields(a[i].data))
      BY <2>1 DEF DaemonAttrReports
    <3>4. DirectAttrReports(b)[i] = IF b[i].status # None THEN AttrReport(b[i].attr, b[i].status, None)
                                    ELSE AttrReport(b[i].attr, None, b[i].value)
      BY DEF DirectAttrReports
    <3>. QED
      BY <3>1, <3>2, <3>3, <3>4, FieldsRoundTrip
  <2>3. /\ DirectAttrReports(b) = [i \in DOMAIN b |-> DirectAttrReports(b)[i]]
        /\ DaemonAttrReports(a) = [i \in DOMAIN b |-> DaemonAttrReports(a)[i]]
    BY <2>1 DEF DirectAttrReports, DaemonAttrReports
  <2>. HIDE DEF a
  <2>4. DirectAttrReports(b) = DaemonAttrReports(a)
    BY <2>2, <2>3
  <2>. QED
    BY <2>4 DEF a
<1>3. DirectOutcome(o, Returned(b)) = ReadOutcome(o, DirectAttrReports(b))
  BY DEF DirectOutcome, Returned
<1>4. DaemonOutcome(o, DaemonResponse(o, Returned(b))) = ReadOutcome(o, DaemonAttrReports(ReadResp(b)))
  BY DaemonReads
<1>. QED
  BY <1>2, <1>3, <1>4

-----------------------------------------------------------------------------
(* How a device's state changes. *)
(* It sends some of its report, writes, opens or shuts the timed window,
   refuses, or runs a command. *)
Cuts(e, d, l, s)    == e = [d EXCEPT !.left = l, !.sent = s]
Writes(e, d, o, s)  == e = [d EXCEPT !.done = o, !.sent = s]
Opens(e, d, t, s)   == e = [d EXCEPT !.timed = t, !.sent = s]
Shuts(e, d, t)      == e = [d EXCEPT !.timed = t]
Refuses(e, d, s)    == e = [d EXCEPT !.sent = s]
Runs(e, d, o, r, s) == e = [d EXCEPT !.done = o, !.ran = r, !.sent = s]

LEMMA DevFields ==
    ASSUME NEW d, IsDev(d), NEW e
    PROVE  /\ \A l, s : Cuts(e, d, l, s) =>
                IsDev(e) /\ e.hidden = d.hidden /\ e.left = l /\ e.done = d.done /\ e.ran = d.ran
           /\ \A o, s : Writes(e, d, o, s) =>
                IsDev(e) /\ e.hidden = d.hidden /\ e.left = d.left /\ e.done = o /\ e.ran = d.ran
           /\ \A t, s : Opens(e, d, t, s) =>
                IsDev(e) /\ e.hidden = d.hidden /\ e.left = d.left /\ e.done = d.done /\ e.ran = d.ran
           /\ \A t : Shuts(e, d, t) =>
                IsDev(e) /\ e.hidden = d.hidden /\ e.left = d.left /\ e.done = d.done /\ e.ran = d.ran
           /\ \A s : Refuses(e, d, s) =>
                IsDev(e) /\ e.hidden = d.hidden /\ e.left = d.left /\ e.done = d.done /\ e.ran = d.ran
           /\ \A o, r, s : Runs(e, d, o, r, s) =>
                IsDev(e) /\ e.hidden = d.hidden /\ e.left = d.left /\ e.done = o /\ e.ran = r
<1>1. PICK dl, dt, dd, dr, ds, dh :
        d = [left |-> dl, timed |-> dt, done |-> dd, ran |-> dr, sent |-> ds, hidden |-> dh]
  BY DEF IsDev
<1>0. Coded(dh)
  BY <1>1 DEF IsDev
<1>. DEFINE D(a, b, c, u, v) == [left : {a}, timed : {b}, done : {c}, ran : {u}, sent : {v}, hidden : {dh}]
<1>2. ASSUME NEW a, NEW b, NEW c, NEW u, NEW v, NEW x, x \in D(a, b, c, u, v)
      PROVE  IsDev(x) /\ x.hidden = dh /\ x.left = a /\ x.done = c /\ x.ran = u
  BY <1>0, <1>2 DEF IsDev
<1>3. d.hidden = dh /\ d.left = dl /\ d.done = dd /\ d.ran = dr
  BY <1>1
<1>4. ASSUME NEW l, NEW s, Cuts(e, d, l, s)
      PROVE  IsDev(e) /\ e.hidden = d.hidden /\ e.left = l /\ e.done = d.done /\ e.ran = d.ran
  <2>1. [d EXCEPT !.left = l, !.sent = s] \in D(l, dt, dd, dr, s)
    BY <1>1
  <2>. HIDE DEF D
  <2>. QED
    BY <1>2, <1>3, <1>4, <2>1 DEF Cuts
<1>5. ASSUME NEW o, NEW s, Writes(e, d, o, s)
      PROVE  IsDev(e) /\ e.hidden = d.hidden /\ e.left = d.left /\ e.done = o /\ e.ran = d.ran
  <2>1. [d EXCEPT !.done = o, !.sent = s] \in D(dl, dt, o, dr, s)
    BY <1>1
  <2>. HIDE DEF D
  <2>. QED
    BY <1>2, <1>3, <1>5, <2>1 DEF Writes
<1>6. ASSUME NEW t, NEW s, Opens(e, d, t, s)
      PROVE  IsDev(e) /\ e.hidden = d.hidden /\ e.left = d.left /\ e.done = d.done /\ e.ran = d.ran
  <2>1. [d EXCEPT !.timed = t, !.sent = s] \in D(dl, t, dd, dr, s)
    BY <1>1
  <2>. HIDE DEF D
  <2>. QED
    BY <1>2, <1>3, <1>6, <2>1 DEF Opens
<1>7. ASSUME NEW t, Shuts(e, d, t)
      PROVE  IsDev(e) /\ e.hidden = d.hidden /\ e.left = d.left /\ e.done = d.done /\ e.ran = d.ran
  <2>1. [d EXCEPT !.timed = t] \in D(dl, t, dd, dr, ds)
    BY <1>1
  <2>. HIDE DEF D
  <2>. QED
    BY <1>2, <1>3, <1>7, <2>1 DEF Shuts
<1>8. ASSUME NEW s, Refuses(e, d, s)
      PROVE  IsDev(e) /\ e.hidden = d.hidden /\ e.left = d.left /\ e.done = d.done /\ e.ran = d.ran
  <2>1. [d EXCEPT !.sent = s] \in D(dl, dt, dd, dr, s)
    BY <1>1
  <2>. HIDE DEF D
  <2>. QED
    BY <1>2, <1>3, <1>8, <2>1 DEF Refuses
<1>9. ASSUME NEW o, NEW r, NEW s, Runs(e, d, o, r, s)
      PROVE  IsDev(e) /\ e.hidden = d.hidden /\ e.left = d.left /\ e.done = o /\ e.ran = r
  <2>1. [d EXCEPT !.done = o, !.ran = r, !.sent = s] \in D(dl, dt, o, r, s)
    BY <1>1
  <2>. HIDE DEF D
  <2>. QED
    BY <1>2, <1>3, <1>9, <2>1 DEF Runs
<1>. QED
  BY <1>4, <1>5, <1>6, <1>7, <1>8, <1>9

(* Messages are lost or repeated, and the command may give up. *)
LEMMA FewerMessages ==
    ASSUME IndInv, UNCHANGED <<op, pc, reports, resp>>, result' = result \/ result' = Failed,
           toDev' \subseteq toDev, IsDev(dev'), dev'.left = dev.left, dev'.done = dev.done,
           dev'.ran = dev.ran,
           \A x \in toCli' : x = [n |-> x.n, msg |-> x.msg] /\ \E y \in toCli : x.msg = y.msg
    PROVE  IndInv'
<1>t. TypeOK /\ CallInv /\ RequestInv /\ ActInv /\ AnswerInv /\ ResultInv /\ ReportInv /\ RespInv
  BY DEF IndInv, TruthInv
<1>p. Pending' => Pending
  BY DEF Pending
<1>1. TypeOK'
  BY <1>t DEF TypeOK, IsDev
<1>2. CallInv'
  BY <1>t DEF CallInv
<1>3. RequestInv'
  BY <1>t DEF RequestInv
<1>4. ActInv'
  BY <1>p, <1>t DEF ActInv, TimedRequest
<1>5. AnswerInv'
  BY <1>p, <1>t DEF AnswerInv, Reports
<1>6. ResultInv'
  <2>1. Failed.ok = FALSE /\ Failed.status = None
    BY DEF Failed
  <2>. QED
    BY <1>p, <1>t, <2>1 DEF ResultInv
<1>7. ReportInv'
  BY <1>t DEF ReportInv
<1>8. RespInv'
  BY <1>t DEF RespInv
<1>. QED
  BY <1>1, <1>2, <1>3, <1>4, <1>5, <1>6, <1>7, <1>8 DEF IndInv, TruthInv

(* The call returns r: what is told of r must be so. *)
Tells(r) ==
    op.kind # "read" =>
      /\ Outcome(op, r).ok => dev.done
      /\ Outcome(op, r).status # None => ~dev.done /\ ~Pending

LEMMA ReturnTells ==
    ASSUME TypeOK, TruthInv, pc \in Waiting, NEW r, Return(r), Tells(r),
           UNCHANGED <<op, dev, toDev>>, toCli' \subseteq toCli
    PROVE  TypeOK' /\ TruthInv'
<1>t. CallInv /\ RequestInv /\ ActInv /\ AnswerInv /\ ResultInv
  BY DEF TruthInv
<1>p. (Pending' <=> Pending) /\ pc' = "done" /\ (result' = result \/ (result = None /\ result' = Outcome(op, r)))
  BY DEF Pending, Return
<1>1. TypeOK'
  BY <1>p DEF TypeOK
<1>2. CallInv'
  BY <1>p DEF CallInv
<1>3. RequestInv'
  BY <1>t DEF RequestInv
<1>4. ActInv'
  BY <1>p, <1>t DEF ActInv, TimedRequest
<1>5. AnswerInv'
  BY <1>p, <1>t DEF AnswerInv, Reports
<1>6. ResultInv'
  <2>1. CASE result' = result
    BY <1>p, <1>t, <2>1 DEF ResultInv
  <2>2. CASE result' = Outcome(op, r)
    BY <1>p, <2>2 DEF ResultInv, Tells
  <2>. QED
    BY <1>p, <2>1, <2>2
<1>. QED
  BY <1>1, <1>2, <1>3, <1>4, <1>5, <1>6 DEF TruthInv

LEMMA ErrorTells == ASSUME TypeOK PROVE Tells(Error)
<1>1. Outcome(op, Error) = Failed
  BY ToldOfErrors DEF TypeOK
<1>. QED
  BY <1>1 DEF Tells, Failed

-----------------------------------------------------------------------------
(* The client. *)
LEMMA StartCallStep ==
    ASSUME IndInv, StartCall
    PROVE  IndInv'
<1>t. TypeOK /\ CallInv /\ RequestInv /\ ActInv /\ AnswerInv /\ ResultInv /\ ReportInv /\ RespInv
  BY DEF IndInv, TruthInv
<1>u. /\ pc = "start" /\ toDev = {} /\ toCli = {}
      /\ UNCHANGED <<op, reports, resp, result, toCli, dev, dups>>
  BY <1>t DEF StartCall, CallInv
<1>k. op.kind \in {"read", "write", "invoke", "timed"}
  BY <1>t DEF TypeOK
<1>m. \E m : /\ toDev' = {m}
             /\ op.kind = "read" => m = ReadRequest(op.attr) /\ pc' = "read"
             /\ op.kind = "write" => m = WriteRequest(op.attr, Item) /\ pc' = "write"
             /\ op.kind = "invoke" => m = InvokeRequest(FALSE) /\ pc' = "invoke"
             /\ op.kind = "timed" => m = TimedRequest /\ pc' = "timed"
  <2>1. CASE op.kind = "read"
    BY <1>u, <2>1 DEF StartCall, Send
  <2>2. CASE op.kind = "write"
    BY <1>u, <2>2 DEF StartCall, Send
  <2>3. CASE op.kind = "invoke"
    <3>1. Send(InvokeRequest(FALSE)) /\ pc' = "invoke"
      BY <2>3 DEF StartCall
    <3>2. PICK m : m = InvokeRequest(FALSE)
      OBVIOUS
    <3>3. toDev' = {m}
      BY <1>u, <3>1, <3>2 DEF Send
    <3>. QED
      BY <2>3, <3>1, <3>2, <3>3
  <2>4. CASE op.kind = "timed"
    BY <1>u, <2>4 DEF StartCall, Send
  <2>. QED
    BY <1>k, <2>1, <2>2, <2>3, <2>4
<1>n. PICK m : /\ toDev' = {m}
               /\ op.kind = "read" => m.op = "ReadRequest" /\ pc' = "read"
               /\ op.kind = "write" => m = WriteRequest(op.attr, Item) /\ pc' = "write"
               /\ op.kind = "invoke" => m = InvokeRequest(FALSE) /\ pc' = "invoke"
               /\ op.kind = "timed" => m = TimedRequest /\ pc' = "timed"
  BY <1>m DEF ReadRequest
<1>a. dev.ran = 0 /\ ~dev.done
  BY <1>t, <1>u DEF ActInv
<1>1. TypeOK' /\ CallInv'
  BY <1>k, <1>n, <1>t, <1>u DEF TypeOK, CallInv, Waiting
<1>2. RequestInv'
  BY <1>k, <1>n, <1>u DEF RequestInv
<1>3. ActInv'
  <2>1. pc' = "timed" => ~Pending'
    BY <1>k, <1>n, <1>u DEF Pending, TimedRequest
  <2>2. pc' # "start"
    BY <1>k, <1>n
  <2>3. op'.kind = "timed" => pc' = "timed" /\ ~Pending'
    BY <1>n, <1>u, <2>1
  <2>. QED
    BY <1>a, <1>t, <1>u, <2>1, <2>2, <2>3 DEF ActInv
<1>4. AnswerInv'
  BY <1>u DEF AnswerInv
<1>5. ResultInv'
  BY <1>t, <1>u DEF ResultInv
<1>6. ReportInv' /\ RespInv'
  BY <1>t, <1>u DEF ReportInv, RespInv
<1>. QED
  BY <1>1, <1>2, <1>3, <1>4, <1>5, <1>6 DEF IndInv, TruthInv

(* The call returns: what is needed of the rest of the invariant. *)
LEMMA ReturnStep ==
    ASSUME IndInv, pc \in Waiting, NEW r, Return(r), Tells(r),
           UNCHANGED <<op, dev, toDev>>, toCli' \subseteq toCli, reports' \in Seq(Wire),
           RespInv'
    PROVE  IndInv'
<1>1. TypeOK' /\ TruthInv'
  BY ReturnTells DEF IndInv
<1>2. ReportInv'
  BY DEF IndInv, ReportInv
<1>. QED
  BY <1>1, <1>2 DEF IndInv

LEMMA ErrorStep ==
    ASSUME IndInv, pc \in Waiting, Return(Error), UNCHANGED <<op, dev, toDev, reports>>,
           toCli' \subseteq toCli
    PROVE  IndInv'
<1>1. Tells(Error)
  BY ErrorTells DEF IndInv
<1>2. reports' \in Seq(Wire)
  BY DEF IndInv, ReportInv
<1>3. RespInv'
  BY DEF RespInv, Return
<1>. QED
  BY <1>1, <1>2, <1>3, ReturnStep

LEMMA RefusalStep ==
    ASSUME IndInv, NEW x \in toCli, IsRefusal(x.msg), pc \in Waiting,
           Return(StatusError(x.msg.code)), UNCHANGED <<op, dev, toDev, reports>>,
           toCli' \subseteq toCli
    PROVE  IndInv'
<1>t. TypeOK /\ AnswerInv /\ ReportInv
  BY DEF IndInv, TruthInv
<1>1. PICK c : c = x.msg.code /\ c # Success /\ x.msg.op = "StatusResponse"
  BY DEF IsRefusal, StatusFromCode
<1>2. op.kind # "read" => ~dev.done /\ ~Pending
  <2>. SUFFICES ASSUME op.kind # "read" PROVE ~dev.done /\ ~Pending
    OBVIOUS
  <2>1. x.msg # StatusResponse(Success)
    BY <1>1 DEF StatusResponse
  <2>2. x.msg \in Reports(dev.done) /\ ~Pending
    BY <1>t, <2>1 DEF AnswerInv
  <2>. QED
    BY <1>1, <2>2 DEF Reports, WriteResponse, InvokeResponse
<1>3. Outcome(op, StatusError(c)) = Refused(c)
  BY <1>1, <1>t, ToldOfErrors DEF TypeOK
<1>4. Tells(StatusError(c))
  BY <1>2, <1>3 DEF Tells, Refused
<1>5. RespInv' /\ reports' \in Seq(Wire)
  BY <1>1, <1>t DEF RespInv, Return, ReportInv
<1>. QED
  BY <1>1, <1>4, <1>5, ReturnStep

LEMMA ReportStep ==
    ASSUME IndInv, NEW x \in toCli, ReceiveReport(x.msg), UNCHANGED <<op, dev>>,
           toCli' \subseteq toCli
    PROVE  IndInv'
<1>t. TypeOK /\ CallInv /\ RequestInv /\ ActInv /\ AnswerInv /\ ResultInv /\ ReportInv /\ RespInv
  BY DEF IndInv, TruthInv
<1>k. pc = "read" /\ op.kind = "read" /\ pc \in Waiting
  BY <1>t DEF ReceiveReport, CallInv, Waiting
<1>1. CASE x.msg.op # "ReportData"
  BY <1>1, <1>k, ErrorStep DEF ReceiveReport
<1>2. CASE x.msg.op = "ReportData"
  <2>1. x.msg.reports \in Seq(Wire) /\ reports \in Seq(Wire)
    BY <1>2, <1>t DEF ReportInv
  <2>2. PICK rs \in Seq(Wire) : rs = reports \o x.msg.reports
    <3>1. PICK p, q \in Seq(Wire) : p = reports /\ q = x.msg.reports
      BY <2>1
    <3>2. p \o q \in Seq(Wire)
      OBVIOUS
    <3>. QED
      BY <3>1, <3>2
  <2>3. reports' = rs
    BY <1>2, <2>2 DEF ReceiveReport
  <2>4. CASE x.msg.more
    <3>1. toDev' = toDev \cup {StatusResponse(Success)} /\ UNCHANGED <<pc, resp, result>>
      BY <1>2, <2>4 DEF ReceiveReport, Send
    <3>2. StatusResponse(Success).op = "StatusResponse"
      BY DEF StatusResponse
    <3>3. Pending' <=> Pending
      BY <3>1, <3>2 DEF Pending
    <3>4. TypeOK' /\ CallInv'
      BY <1>k, <1>t, <3>1 DEF TypeOK, CallInv
    <3>5. RequestInv'
      BY <1>k, <1>t, <3>1, <3>2 DEF RequestInv
    <3>6. ActInv'
      BY <1>k, <1>t, <3>1, <3>3 DEF ActInv
    <3>7. AnswerInv' /\ ResultInv'
      BY <1>k DEF AnswerInv, ResultInv
    <3>8. ReportInv' /\ RespInv'
      BY <1>t, <2>3, <3>1 DEF ReportInv, RespInv
    <3>. QED
      BY <3>4, <3>5, <3>6, <3>7, <3>8 DEF IndInv, TruthInv
  <2>5. CASE ~x.msg.more
    <3>1. PICK b : b = ReassembleListChunks(rs)
      OBVIOUS
    <3>2. Return(Returned(b)) /\ toDev' = toDev
      BY <1>2, <2>2, <2>5, <3>1 DEF ReceiveReport
    <3>4. RespInv'
      BY <1>k, <3>2 DEF RespInv, Return
    <3>5. Tells(Returned(b))
      BY <1>k DEF Tells
    <3>. QED
      BY <1>k, <2>3, <3>2, <3>4, <3>5, ReturnStep
  <2>. QED
    BY <2>4, <2>5
<1>. QED
  BY <1>1, <1>2

LEMMA WriteStep ==
    ASSUME IndInv, NEW x \in toCli, ReceiveWriteResponse(x.msg), UNCHANGED <<op, dev>>,
           toCli' \subseteq toCli
    PROVE  IndInv'
<1>t. TypeOK /\ CallInv /\ AnswerInv /\ ReportInv
  BY DEF IndInv, TruthInv
<1>k. pc = "write" /\ op.kind = "write" /\ pc \in Waiting /\ UNCHANGED <<reports, toDev>>
  BY <1>t DEF ReceiveWriteResponse, CallInv, Waiting
<1>1. CASE x.msg.op # "WriteResponse"
  BY <1>1, <1>k, ErrorStep DEF ReceiveWriteResponse
<1>2. CASE x.msg.op = "WriteResponse"
  <2>1. x.msg \in Reports(dev.done) /\ ~Pending
    BY <1>2, <1>k, <1>t DEF AnswerInv, StatusResponse
  <2>2. PICK c \in {Success, Denied} : x.msg = WriteResponse(<<c>>) /\ (c = Success <=> dev.done)
    BY <1>2, <2>1 DEF Reports, InvokeResponse, StatusResponse, Success, Denied
  <2>3. x.msg.statuses = <<c>>
    BY <2>2 DEF WriteResponse
  <2>4. Return(Returned(<<c>>))
    BY <1>2, <2>3 DEF ReceiveWriteResponse
  <2>5. Outcome(op, Returned(<<c>>)) = IF c = Success THEN Ok(None) ELSE Refused(c)
    BY <1>k, <1>t, ToldOfWrite DEF TypeOK, Success, Denied
  <2>6. Tells(Returned(<<c>>))
    BY <2>1, <2>2, <2>5 DEF Tells, Ok, Refused
  <2>7. RespInv'
    BY <1>k, <2>4 DEF RespInv, Return
  <2>8. reports' \in Seq(Wire)
    BY <1>k, <1>t DEF ReportInv
  <2>. QED
    BY <1>k, <2>4, <2>6, <2>7, <2>8, ReturnStep
<1>. QED
  BY <1>1, <1>2

LEMMA InvokeStep ==
    ASSUME IndInv, NEW x \in toCli, ReceiveInvokeResponse(x.msg), UNCHANGED <<op, dev>>,
           toCli' \subseteq toCli
    PROVE  IndInv'
<1>t. TypeOK /\ CallInv /\ AnswerInv /\ ReportInv
  BY DEF IndInv, TruthInv
<1>k. /\ pc = "invoke" /\ op.kind \in {"invoke", "timed"} /\ pc \in Waiting
      /\ UNCHANGED <<reports, toDev>>
  BY <1>t DEF ReceiveInvokeResponse, CallInv, Waiting
<1>1. CASE ~(x.msg.op = "InvokeResponse" /\ x.msg.ibs # <<>>)
  BY <1>1, <1>k, ErrorStep DEF ReceiveInvokeResponse
<1>2. CASE x.msg.op = "InvokeResponse" /\ x.msg.ibs # <<>>
  <2>1. x.msg \in Reports(dev.done) /\ ~Pending
    BY <1>2, <1>k, <1>t DEF AnswerInv, StatusResponse
  <2>2. PICK st, d : /\ x.msg = InvokeResponse(<<InvokeResponseIB(st, d)>>)
                     /\ st \in {None, Success, Denied} /\ (st = Denied <=> ~dev.done)
    BY <1>2, <2>1 DEF Reports, WriteResponse, StatusResponse, Success, Denied
  <2>3. PICK b : b = InvokeResponseIB(st, d)
    OBVIOUS
  <2>4. x.msg.ibs[1] = b
    BY <2>2, <2>3 DEF InvokeResponse
  <2>5. Return(Returned(b))
    BY <1>2, <2>4 DEF ReceiveInvokeResponse
  <2>6. Outcome(op, Returned(b)) = IF st = Denied THEN Refused(st) ELSE Ok(d)
    <3>1. Outcome(op, Returned(b)) = InvokeOutcome(b)
      BY <1>k, <1>t, ToldOfInvoke DEF TypeOK
    <3>2. b.status = st /\ b.data = d
      BY <2>3 DEF InvokeResponseIB
    <3>. QED
      BY <2>2, <3>1, <3>2 DEF InvokeOutcome, Success, Denied
  <2>7. Tells(Returned(b))
    BY <2>1, <2>2, <2>6 DEF Tells, Ok, Refused
  <2>8. RespInv'
    BY <1>k, <2>5 DEF RespInv, Return
  <2>9. reports' \in Seq(Wire)
    BY <1>k, <1>t DEF ReportInv
  <2>. QED
    BY <1>k, <2>5, <2>7, <2>8, <2>9, ReturnStep
<1>. QED
  BY <1>1, <1>2

LEMMA TimedStep ==
    ASSUME IndInv, NEW x \in toCli, ~IsRefusal(x.msg), ReceiveTimedResponse(x.msg),
           UNCHANGED <<op, dev>>, toCli' \subseteq toCli
    PROVE  IndInv'
<1>t. TypeOK /\ CallInv /\ RequestInv /\ ActInv /\ AnswerInv /\ ResultInv /\ ReportInv /\ RespInv
  BY DEF IndInv, TruthInv
<1>k. /\ pc = "timed" /\ op.kind = "timed" /\ pc' = "invoke"
      /\ UNCHANGED <<reports, resp, result>>
  BY <1>t DEF ReceiveTimedResponse, CallInv
<1>1. \A y \in toCli : y.msg = StatusResponse(Success)
  <2>1. PICK c \in {Success, Denied} : \A y \in toCli : y.msg = StatusResponse(c)
    BY <1>k, <1>t DEF ActInv
  <2>2. c = Success
    BY <2>1 DEF IsRefusal, StatusFromCode, StatusResponse, Success, Denied
  <2>. QED
    BY <2>1, <2>2
<1>2. TimedRequest \notin toDev /\ ~Pending /\ dev.ran = 0 /\ ~dev.done
  BY <1>k, <1>t DEF ActInv
<1>3. PICK m : m = InvokeRequest(TRUE) /\ toDev' = toDev \cup {m}
  BY DEF ReceiveTimedResponse, Send
<1>4. TimedRequest # m
  BY <1>3 DEF TimedRequest, InvokeRequest
<1>5. TypeOK' /\ CallInv'
  BY <1>k, <1>t DEF TypeOK, CallInv, Waiting
<1>6. RequestInv'
  BY <1>3, <1>k, <1>t DEF RequestInv
<1>7. ActInv'
  <2>1. TimedRequest' = TimedRequest
    BY DEF TimedRequest
  <2>2. TimedRequest \notin toDev'
    BY <1>2, <1>3, <1>4
  <2>3. \A y \in toCli' : y.msg = StatusResponse(Success)
    BY <1>1
  <2>. QED
    BY <1>2, <1>k, <2>1, <2>2, <2>3 DEF ActInv
<1>8. AnswerInv'
  BY <1>1 DEF AnswerInv
<1>9. ResultInv'
  BY <1>2, <1>k, <1>t DEF ResultInv
<1>10. ReportInv' /\ RespInv'
  BY <1>k, <1>t DEF ReportInv, RespInv
<1>. QED
  BY <1>5, <1>6, <1>7, <1>8, <1>9, <1>10 DEF IndInv, TruthInv

LEMMA ReceiveStep ==
    ASSUME IndInv, Receive
    PROVE  IndInv'
<1>1. PICK x \in toCli :
        /\ toCli' = toCli \ {x}
        /\ \/ /\ IsRefusal(x.msg) /\ pc \in Waiting /\ Return(StatusError(x.msg.code))
              /\ UNCHANGED <<reports, toDev>>
           \/ ~IsRefusal(x.msg) /\ (\/ ReceiveReport(x.msg) \/ ReceiveWriteResponse(x.msg)
                                    \/ ReceiveTimedResponse(x.msg) \/ ReceiveInvokeResponse(x.msg))
        /\ UNCHANGED <<op, dev>>
  BY DEF Receive, Waiting
<1>2. toCli' \subseteq toCli
  BY <1>1
<1>. QED
  BY <1>1, <1>2, RefusalStep, ReportStep, WriteStep, TimedStep, InvokeStep

-----------------------------------------------------------------------------
(* The device acts on the one request there is, and answers what it did. *)
LEMMA ActStep ==
    ASSUME IndInv, NEW m \in toDev, m.op \in {"WriteRequest", "InvokeRequest"},
           toDev' = toDev \ {m}, UNCHANGED <<op, pc, reports, resp, result>>,
           IsDev(dev'), dev'.left = dev.left, dev'.done \in BOOLEAN, dev'.ran \in {dev.ran, dev.ran + 1},
           NEW k, NEW a, toCli' = toCli \cup {[n |-> k, msg |-> a]}, a \in Reports(dev'.done)
    PROVE  IndInv'
<1>t. TypeOK /\ CallInv /\ RequestInv /\ ActInv /\ AnswerInv /\ ResultInv /\ ReportInv /\ RespInv
  BY DEF IndInv, TruthInv
<1>k. op.kind \in {"read", "write", "invoke", "timed"}
  BY <1>t DEF TypeOK
<1>1. Pending
  BY DEF Pending
<1>2. /\ dev.ran = 0 /\ ~dev.done /\ pc \notin {"start", "timed"}
      /\ \A x \in toCli : x.msg = StatusResponse(Success)
      /\ op.kind = "timed" => TimedRequest \notin toDev
  BY <1>1, <1>t DEF ActInv
<1>3. op.kind # "read" /\ toDev \subseteq {m}
  <2>1. op.kind # "read"
    BY <1>t DEF RequestInv
  <2>. QED
    BY <1>2, <1>k, <1>t, <2>1 DEF RequestInv
<1>4. ~Pending' /\ toDev' = {}
  BY <1>3 DEF Pending
<1>5. TypeOK'
  <2>1. \A x \in toCli' : x = [n |-> x.n, msg |-> x.msg]
    BY <1>t DEF TypeOK
  <2>2. dev'.ran \in Nat
    BY <1>2
  <2>. QED
    BY <1>t, <2>1, <2>2 DEF TypeOK, IsDev
<1>6. CallInv'
  BY <1>2, <1>t DEF CallInv
<1>7. RequestInv'
  BY <1>4 DEF RequestInv
<1>8. ActInv'
  BY <1>2, <1>4 DEF ActInv
<1>9. AnswerInv'
  BY <1>2, <1>4 DEF AnswerInv, StatusResponse
<1>10. ResultInv'
  BY <1>1, <1>2, <1>3, <1>t DEF ResultInv
<1>11. ReportInv'
  <2>1. a.op # "ReportData"
    BY DEF Reports, WriteResponse, InvokeResponse, StatusResponse
  <2>. QED
    BY <1>t, <2>1 DEF ReportInv
<1>12. RespInv'
  BY <1>t DEF RespInv
<1>. QED
  BY <1>5, <1>6, <1>7, <1>8, <1>9, <1>10, <1>11, <1>12 DEF IndInv, TruthInv

(* The device opens the window of a timed request, or refuses. *)
LEMMA WindowStep ==
    ASSUME IndInv, NEW m \in toDev, m.op = "TimedRequest",
           toDev' = toDev \ {m}, UNCHANGED <<op, pc, reports, resp, result>>,
           IsDev(dev'), dev'.left = dev.left, dev'.done = dev.done, dev'.ran = dev.ran,
           NEW k, NEW c \in {Success, Denied},
           toCli' = toCli \cup {[n |-> k, msg |-> StatusResponse(c)]}
    PROVE  IndInv'
<1>t. TypeOK /\ CallInv /\ RequestInv /\ ActInv /\ AnswerInv /\ ResultInv /\ ReportInv /\ RespInv
  BY DEF IndInv, TruthInv
<1>k. op.kind \in {"read", "write", "invoke", "timed"}
  BY <1>t DEF TypeOK
<1>1. op.kind = "timed" /\ m = TimedRequest
  <2>1. m = TimedRequest \/ m.op # "TimedRequest"
    BY <1>k, <1>t DEF RequestInv, WriteRequest, InvokeRequest
  <2>2. op.kind = "timed"
    BY <1>k, <1>t DEF RequestInv, WriteRequest, InvokeRequest
  <2>. QED
    BY <2>1, <2>2
<1>2. toCli = {} /\ ~Pending /\ pc \in {"timed", "done"} /\ dev.ran = 0 /\ ~dev.done
  BY <1>1, <1>t DEF ActInv
<1>3. ~Pending' /\ TimedRequest \notin toDev'
  BY <1>1, <1>2 DEF Pending
<1>4. PICK x : x = [n |-> k, msg |-> StatusResponse(c)] /\ toCli' = {x}
  <2>1. PICK x : x = [n |-> k, msg |-> StatusResponse(c)]
    OBVIOUS
  <2>2. toCli' = {x}
    BY <1>2, <2>1
  <2>. QED
    BY <2>1, <2>2
<1>5. x = [n |-> x.n, msg |-> x.msg] /\ x.msg = StatusResponse(c) /\ x.msg.op # "ReportData"
  BY <1>4 DEF StatusResponse
<1>6. TypeOK' /\ CallInv'
  BY <1>1, <1>2, <1>4, <1>5, <1>t DEF TypeOK, CallInv, IsDev
<1>7. RequestInv'
  BY <1>t DEF RequestInv
<1>8. ActInv'
  <2>1. TimedRequest' = TimedRequest
    BY DEF TimedRequest
  <2>. QED
    BY <1>2, <1>3, <1>4, <1>5, <1>t, <2>1 DEF ActInv
<1>9. AnswerInv'
  <2>1. StatusResponse(c) = StatusResponse(Success) \/ StatusResponse(c) \in Reports(FALSE)
    BY DEF Reports
  <2>. QED
    BY <1>2, <1>3, <1>4, <1>5, <2>1 DEF AnswerInv, Reports
<1>10. ResultInv'
  BY <1>2, <1>3, <1>t DEF ResultInv
<1>11. ReportInv' /\ RespInv'
  BY <1>4, <1>5, <1>t DEF ReportInv, RespInv
<1>. QED
  BY <1>6, <1>7, <1>8, <1>9, <1>10, <1>11 DEF IndInv, TruthInv

(* The device reports: nothing is done, and what it sends are reports. *)
LEMMA ReportsStep ==
    ASSUME IndInv, NEW m \in toDev, m.op \in {"ReadRequest", "StatusResponse"},
           toDev' = toDev \ {m}, UNCHANGED <<op, pc, reports, resp, result>>,
           NEW left \in Seq(Wire), DeviceReports(left)
    PROVE  IndInv'
<1>t. TypeOK /\ CallInv /\ RequestInv /\ ActInv /\ AnswerInv /\ ResultInv /\ ReportInv /\ RespInv
  BY DEF IndInv, TruthInv
<1>k. op.kind \in {"read", "write", "invoke", "timed"} /\ IsDev(dev)
  BY <1>t DEF TypeOK, IsDev
<1>1. op.kind = "read" /\ ~Pending /\ ~Pending' /\ pc \notin {"start", "timed"}
  <2>1. op.kind = "read"
    BY <1>k, <1>t DEF RequestInv, WriteRequest, InvokeRequest, TimedRequest
  <2>2. ~Pending
    BY <1>t, <2>1 DEF RequestInv, Pending
  <2>3. pc \notin {"start", "timed"}
    BY <1>t, <2>1 DEF CallInv
  <2>. QED
    BY <2>1, <2>2, <2>3 DEF Pending
<1>2. PICK l, a : /\ Cuts(dev', dev, l, dev.sent + 1) /\ (l = None \/ l \in Seq(Wire))
                  /\ toCli' = toCli \cup {[n |-> dev.sent, msg |-> a]}
                  /\ a.op = "ReportData" => a.reports \in Seq(Wire)
  <2>1. CASE \E n \in 0 .. Len(left) :
               /\ Answer(ReportData(SubSeq(left, 1, n), n < Len(left)))
               /\ dev' = [dev EXCEPT !.left = SubSeq(left, n + 1, Len(left)), !.sent = @ + 1]
    <3>1. PICK n \in 0 .. Len(left) :
            /\ Answer(ReportData(SubSeq(left, 1, n), n < Len(left)))
            /\ dev' = [dev EXCEPT !.left = SubSeq(left, n + 1, Len(left)), !.sent = @ + 1]
      BY <2>1
    <3>2. PICK l, p \in Seq(Wire) : p = SubSeq(left, 1, n) /\ l = SubSeq(left, n + 1, Len(left))
      <4>1. SubSeq(left, 1, n) \in Seq(Wire) /\ SubSeq(left, n + 1, Len(left)) \in Seq(Wire)
        OBVIOUS
      <4>. QED
        BY <4>1
    <3>3. PICK a : a = ReportData(p, n < Len(left))
      OBVIOUS
    <3>4. a.reports = p
      BY <3>3 DEF ReportData
    <3>5. Cuts(dev', dev, l, dev.sent + 1)
      BY <3>1, <3>2 DEF Cuts
    <3>6. toCli' = toCli \cup {[n |-> dev.sent, msg |-> a]}
      BY <3>1, <3>2, <3>3 DEF Answer
    <3>7. a.reports \in Seq(Wire) /\ l \in Seq(Wire)
      BY <3>4
    <3>. QED
      BY <3>5, <3>6, <3>7, Zenon
  <2>2. CASE /\ Answer(StatusResponse(Denied))
             /\ dev' = [dev EXCEPT !.left = None, !.sent = @ + 1]
    <3>1. PICK a : a = StatusResponse(Denied)
      OBVIOUS
    <3>2. a.op # "ReportData"
      BY <3>1 DEF StatusResponse
    <3>. QED
      BY <2>2, <3>1, <3>2 DEF Answer, Cuts
  <2>. QED
    BY <2>1, <2>2 DEF DeviceReports
<1>3. IsDev(dev') /\ dev'.left = l /\ dev'.done = dev.done /\ dev'.ran = dev.ran
  BY <1>2, <1>k, DevFields
<1>4. PICK x : x = [n |-> dev.sent, msg |-> a] /\ toCli' = toCli \cup {x}
  BY <1>2
<1>5. x = [n |-> x.n, msg |-> x.msg] /\ x.msg = a
  BY <1>4
<1>6. TypeOK' /\ CallInv'
  BY <1>1, <1>3, <1>4, <1>5, <1>t DEF TypeOK, CallInv, IsDev
<1>7. RequestInv'
  BY <1>t DEF RequestInv
<1>8. ActInv'
  BY <1>1, <1>3, <1>t DEF ActInv
<1>9. AnswerInv' /\ ResultInv'
  BY <1>1 DEF AnswerInv, ResultInv
<1>10. ReportInv' /\ RespInv'
  BY <1>2, <1>3, <1>4, <1>5, <1>t DEF ReportInv, RespInv
<1>. QED
  BY <1>6, <1>7, <1>8, <1>9, <1>10 DEF IndInv, TruthInv

LEMMA DeviceStep ==
    ASSUME IndInv, DeviceHandles
    PROVE  IndInv'
<1>t. TypeOK /\ RequestInv /\ ActInv /\ ReportInv /\ IsDev(dev) /\ dev.ran \in Nat
  BY DEF IndInv, TruthInv, TypeOK, IsDev
<1>1. PICK m \in toDev :
        /\ toDev' = toDev \ {m}
        /\ \/ DeviceRead(m) \/ DeviceNextChunk(m) \/ DeviceWrite(m) \/ DeviceTimed(m)
           \/ DeviceInvoke(m)
        /\ UNCHANGED <<op, pc, reports, resp, result>>
  BY DEF DeviceHandles
<1>2. CASE DeviceRead(m)
  <2>1. m.op = "ReadRequest"
    BY <1>2 DEF DeviceRead
  <2>2. PICK left \in Seq(Wire) : DeviceReports(left)
    BY <1>2, <1>t, ReadAnswer
  <2>. QED
    BY <1>1, <2>1, <2>2, ReportsStep
<1>3. CASE DeviceNextChunk(m)
  <2>1. m.op = "StatusResponse"
    BY <1>3 DEF DeviceNextChunk
  <2>2. CASE dev.left \in {None, <<>>}
    <3>1. UNCHANGED <<toCli, dev>>
      BY <1>3, <2>2 DEF DeviceNextChunk
    <3>2. \A x \in toCli : x = [n |-> x.n, msg |-> x.msg]
      BY <1>t DEF TypeOK
    <3>. QED
      BY <1>1, <1>t, <3>1, <3>2, FewerMessages
  <2>3. CASE dev.left \notin {None, <<>>}
    <3>1. PICK left \in Seq(Wire) : left = dev.left
      BY <1>t, <2>3 DEF ReportInv
    <3>2. DeviceReports(left)
      BY <1>3, <2>3, <3>1 DEF DeviceNextChunk
    <3>. QED
      BY <1>1, <2>1, <3>2, ReportsStep
  <2>. QED
    BY <2>2, <2>3
<1>4. CASE DeviceWrite(m)
  <2>1. m.op = "WriteRequest"
    BY <1>4 DEF DeviceWrite
  <2>2. PICK code \in {Success, Denied} :
          /\ dev' = [dev EXCEPT !.done = (code = Success), !.sent = @ + 1]
          /\ \/ Answer(WriteResponse(<<code>>))
             \/ code = Denied /\ Answer(StatusResponse(code))
    BY <1>4 DEF DeviceWrite
  <2>3. PICK d \in BOOLEAN : d <=> (code = Success)
    OBVIOUS
  <2>4. Writes(dev', dev, d, dev.sent + 1)
    BY <2>2, <2>3 DEF Writes
  <2>5. IsDev(dev') /\ dev'.left = dev.left /\ dev'.done = d /\ dev'.ran = dev.ran
    BY <1>t, <2>4, DevFields
  <2>6. PICK a \in Reports(d) : Answer(a)
    <3>1. /\ code = Success => WriteResponse(<<code>>) \in Reports(d)
          /\ code = Denied => WriteResponse(<<code>>) \in Reports(d) /\ StatusResponse(code) \in Reports(d)
      BY <2>3 DEF Reports, Success, Denied
    <3>. QED
      BY <2>2, <3>1
  <2>7. toCli' = toCli \cup {[n |-> dev.sent, msg |-> a]}
    BY <2>6 DEF Answer
  <2>. QED
    BY <1>1, <2>1, <2>5, <2>6, <2>7, ActStep
<1>5. CASE DeviceTimed(m)
  <2>1. m.op = "TimedRequest"
    BY <1>5 DEF DeviceTimed
  <2>2. PICK code \in {Success, Denied} :
          /\ dev' = [dev EXCEPT !.timed = (code = Success), !.sent = @ + 1]
          /\ Answer(StatusResponse(code))
    BY <1>5 DEF DeviceTimed
  <2>3. Opens(dev', dev, code = Success, dev.sent + 1)
    BY <2>2 DEF Opens
  <2>4. IsDev(dev') /\ dev'.left = dev.left /\ dev'.done = dev.done /\ dev'.ran = dev.ran
    BY <1>t, <2>3, DevFields
  <2>5. toCli' = toCli \cup {[n |-> dev.sent, msg |-> StatusResponse(code)]}
    BY <2>2 DEF Answer
  <2>. QED
    BY <1>1, <2>1, <2>4, <2>5, WindowStep
<1>6. CASE DeviceInvoke(m)
  <2>1. m.op = "InvokeRequest"
    BY <1>6 DEF DeviceInvoke
  <2>p. ~dev.done /\ dev.done \in BOOLEAN
    BY <1>1, <1>t, <2>1 DEF ActInv, Pending, TypeOK
  <2>2. CASE m.timed # dev.timed
    <3>1. Answer(StatusResponse(Denied)) /\ dev' = [dev EXCEPT !.sent = @ + 1]
      BY <1>6, <2>2 DEF DeviceInvoke
    <3>2. Refuses(dev', dev, dev.sent + 1)
      BY <3>1 DEF Refuses
    <3>3. IsDev(dev') /\ dev'.left = dev.left /\ dev'.done = dev.done /\ dev'.ran = dev.ran
      BY <1>t, <3>2, DevFields
    <3>4. PICK a : a = StatusResponse(Denied)
      OBVIOUS
    <3>5. a \in Reports(dev'.done)
      BY <2>p, <3>3, <3>4 DEF Reports
    <3>6. toCli' = toCli \cup {[n |-> dev.sent, msg |-> a]}
      BY <3>1, <3>4 DEF Answer
    <3>. QED
      BY <1>1, <2>1, <2>p, <3>3, <3>5, <3>6, ActStep
  <2>3. CASE ~(m.timed # dev.timed)
    <3>1. PICK code \in {Success, Denied} :
            /\ dev' = [dev EXCEPT !.done = (code = Success), !.ran = @ + 1, !.sent = @ + 1]
            /\ IF code = Success
               THEN \/ Answer(InvokeResponse(<<InvokeResponseIB(Success, None)>>))
                    \/ Answer(InvokeResponse(<<InvokeResponseIB(None, "fields")>>))
               ELSE \/ Answer(InvokeResponse(<<InvokeResponseIB(Denied, None)>>))
                    \/ Answer(StatusResponse(Denied))
      BY <1>6, <2>3 DEF DeviceInvoke
    <3>2. PICK d \in BOOLEAN : d <=> (code = Success)
      OBVIOUS
    <3>3. Runs(dev', dev, d, dev.ran + 1, dev.sent + 1)
      BY <3>1, <3>2 DEF Runs
    <3>4. IsDev(dev') /\ dev'.left = dev.left /\ dev'.done = d /\ dev'.ran = dev.ran + 1
      BY <1>t, <3>3, DevFields
    <3>5. PICK a \in Reports(d) : Answer(a)
      BY <3>1, <3>2 DEF Reports
    <3>6. toCli' = toCli \cup {[n |-> dev.sent, msg |-> a]}
      BY <3>5 DEF Answer
    <3>. QED
      BY <1>1, <2>1, <3>4, <3>5, <3>6, ActStep
  <2>. QED
    BY <2>2, <2>3
<1>. QED
  BY <1>1, <1>2, <1>3, <1>4, <1>5, <1>6

-----------------------------------------------------------------------------
LEMMA RepeatStep ==
    ASSUME IndInv, DeviceRepeats
    PROVE  IndInv'
<1>t. TypeOK /\ IsDev(dev)
  BY DEF IndInv, TypeOK, IsDev
<1>u. UNCHANGED <<op, pc, reports, resp, result, toDev, dev>>
  BY DEF DeviceRepeats
<1>1. PICK m \in toCli : toCli' = toCli \cup {[m EXCEPT !.n = @ + 100]}
  BY DEF DeviceRepeats
<1>2. PICK k, x : k = m.n + 100 /\ x = [m EXCEPT !.n = k]
  OBVIOUS
<1>3. toCli' = toCli \cup {x}
  BY <1>1, <1>2
<1>4. x = [n |-> x.n, msg |-> x.msg] /\ x.msg = m.msg
  <2>1. PICK a, b : m = [n |-> a, msg |-> b]
    BY <1>t DEF TypeOK
  <2>2. [m EXCEPT !.n = k] \in [n : {k}, msg : {b}]
    BY <2>1
  <2>3. m.msg = b
    BY <2>1
  <2>. QED
    BY <1>2, <2>2, <2>3
<1>5. \A y \in toCli' : y = [n |-> y.n, msg |-> y.msg] /\ \E z \in toCli : y.msg = z.msg
  BY <1>3, <1>4, <1>t DEF TypeOK
<1>. QED
  BY <1>5, <1>t, <1>u, FewerMessages

LEMMA NextStep == IndInv /\ [Next]_vars => IndInv'
<1>. SUFFICES ASSUME IndInv, [Next]_vars PROVE IndInv'
  OBVIOUS
<1>t. TypeOK /\ IsDev(dev)
  BY DEF IndInv, TypeOK, IsDev
<1>f. ASSUME UNCHANGED <<op, pc, reports, resp>>, result' = result \/ result' = Failed,
             toDev' \subseteq toDev, toCli' \subseteq toCli,
             IsDev(dev'), dev'.left = dev.left, dev'.done = dev.done, dev'.ran = dev.ran
      PROVE  IndInv'
  <2>1. \A x \in toCli' : x = [n |-> x.n, msg |-> x.msg] /\ \E y \in toCli : x.msg = y.msg
    BY <1>f, <1>t DEF TypeOK
  <2>. QED
    BY <1>f, <2>1, FewerMessages
<1>1. CASE TimesOut
  BY <1>1, ErrorStep DEF TimesOut, Waiting
<1>2. CASE DaemonClientGivesUp
  BY <1>2, <1>f, <1>t DEF DaemonClientGivesUp
<1>3. CASE TimedWindowCloses
  <2>1. Shuts(dev', dev, FALSE) /\ UNCHANGED <<op, pc, reports, resp, result, toDev, toCli>>
    BY <1>3 DEF TimedWindowCloses, Shuts
  <2>2. IsDev(dev') /\ dev'.left = dev.left /\ dev'.done = dev.done /\ dev'.ran = dev.ran
    BY <1>t, <2>1, DevFields
  <2>. QED
    BY <1>f, <2>1, <2>2
<1>4. CASE Lose
  BY <1>4, <1>f, <1>t DEF Lose
<1>5. CASE UNCHANGED vars
  BY <1>5, <1>f, <1>t DEF vars
<1>6. CASE Client
  BY <1>1, <1>2, <1>6, StartCallStep, ReceiveStep DEF Client
<1>. QED
  BY <1>3, <1>4, <1>5, <1>6, DeviceStep, RepeatStep DEF Next

LEMMA InitStep == Init => IndInv
<1>. SUFFICES ASSUME Init PROVE IndInv
  OBVIOUS
<1>1. /\ op \in Ops /\ pc = "start" /\ reports = <<>> /\ resp = None /\ result = None
      /\ toDev = {} /\ toCli = {}
  BY DEF Init
<1>2. PICK h : /\ dev = [left |-> None, timed |-> FALSE, done |-> FALSE, ran |-> 0, sent |-> 0,
                         hidden |-> h]
               /\ Coded(h)
  <2>1. PICK g \in HiddenSets :
          \E h \in [g -> {Success, Denied}] :
            dev = [left |-> None, timed |-> FALSE, done |-> FALSE, ran |-> 0, sent |-> 0,
                   hidden |-> h]
    BY DEF Init
  <2>2. PICK h \in [g -> {Success, Denied}] :
          dev = [left |-> None, timed |-> FALSE, done |-> FALSE, ran |-> 0, sent |-> 0,
                 hidden |-> h]
    BY <2>1
  <2>3. Coded(h)
    BY <2>2 DEF Coded
  <2>. QED
    BY <2>2, <2>3
<1>3. TypeOK
  BY <1>1, <1>2 DEF TypeOK, IsDev
<1>4. CallInv /\ RequestInv /\ AnswerInv /\ ResultInv
  BY <1>1 DEF CallInv, RequestInv, AnswerInv, ResultInv
<1>5. ActInv
  BY <1>1, <1>2 DEF ActInv, Pending
<1>6. ReportInv /\ RespInv
  BY <1>1, <1>2 DEF ReportInv, RespInv
<1>. QED
  BY <1>3, <1>4, <1>5, <1>6 DEF IndInv, TruthInv

LEMMA Invariance == Spec => []IndInv
<1>. QED
  BY InitStep, NextStep, PTL DEF Spec

(* Client.Write, Invoke and InvokeTimed, and what their callers make of the
   answer: a write or an invoke is done at most once; the user is told of
   success only when the device did as asked, and of a status only when it
   did not and will not, whatever is lost, repeated or late, on every path
   (own session, daemon, commissioner). *)
THEOREM UserIsToldTheTruth == Spec => []Truthful
<1>1. IndInv => Truthful
  BY DEF IndInv, TruthInv, ActInv, ResultInv, Truthful
<1>. QED
  BY <1>1, Invariance, PTL

(* daemonAttrReports, daemonWriteError, daemonInvokeError, respError: of every
   answer a device can give, the command that goes through the daemon tells
   what the command with its own session tells, unless the answer to a read
   reports a status SUCCESS: its number, 0, stands for no status in the
   daemon's JSON. No other answer has a status that this number stands for. *)
THEOREM DaemonAgreesWithDirect == Spec => []TransportsAgree
<1>1. IndInv => TransportsAgree
  <2>. SUFFICES ASSUME IndInv, resp # None, ~SuccessReported
                PROVE  DirectOutcome(op, resp) = DaemonOutcome(op, DaemonResponse(op, resp))
    BY DEF TransportsAgree, SameTold
  <2>t. op \in Ops /\ op.kind \in {"read", "write", "invoke", "timed"} /\ RespInv
    BY DEF IndInv, TypeOK
  <2>1. None # "error" /\ None # "status"
    OBVIOUS
  <2>2. ASSUME NEW c, resp = StatusError(c), c # Success
        PROVE  DirectOutcome(op, resp) = DaemonOutcome(op, DaemonResponse(op, resp))
    BY <2>1, <2>2 DEF DirectOutcome, DaemonOutcome, DaemonResponse, StatusError, Success
  <2>3. CASE resp = Error
    BY <2>1, <2>3 DEF DirectOutcome, DaemonOutcome, DaemonResponse, Error
  <2>4. ASSUME NEW b, resp = Returned(b),
               op.kind = "write" => \E c : b = <<c>>
        PROVE  DirectOutcome(op, resp) = DaemonOutcome(op, DaemonResponse(op, resp))
    <3>1. CASE op.kind = "read"
      <4>1. resp.err = None /\ resp.body = b
        BY <2>4 DEF Returned
      <4>2. \A i \in DOMAIN b : b[i].status # Success
        BY <3>1, <4>1 DEF SuccessReported
      <4>. QED
        BY <2>4, <2>t, <3>1, <4>2, ToldOfRead
    <3>2. CASE op.kind = "write"
      BY <2>4, <2>t, <3>2, ToldOfWrite
    <3>3. CASE op.kind \in {"invoke", "timed"}
      BY <2>4, <2>t, <3>3, ToldOfInvoke
    <3>. QED
      BY <2>t, <3>1, <3>2, <3>3
  <2>. QED
    BY <2>2, <2>3, <2>4, <2>t DEF RespInv
<1>. QED
  BY <1>1, Invariance, PTL

-----------------------------------------------------------------------------
(* ReadExact *)
(* The reports rs are the whole answer to a read of a, of a device that hides h. *)
FullOf(rs, h, a) == rs \in Seq(Wire) /\ Whole(rs, Asked(a), h)

(* What is shown of a read of a. *)
ToldOf(v, h, a) == BuildReadRecords(SetToSeq(AllShown(v, h, Asked(a))))

(* While nothing has been repeated, one message is on its way at a time, and
   what was collected, what it carries and what the device has left are, in
   this order, the reports of the whole answer. *)
OneInFlight ==
    /\ toDev = {} \/ toCli = {}
    /\ \A m, n \in toDev : m = n
    /\ \A x, y \in toCli : x = y

AskedInv ==
    \A m \in toDev :
      \/ m = ReadRequest(op.attr) /\ reports = <<>>
      \/ /\ m = StatusResponse(Success) /\ dev.left \in Seq(Wire)
         /\ FullOf(reports \o dev.left, dev.hidden, op.attr)

ToldInv ==
    \A x \in toCli : x.msg.op = "ReportData" =>
      /\ dev.left \in Seq(Wire) /\ x.msg.reports \in Seq(Wire)
      /\ FullOf((reports \o x.msg.reports) \o dev.left, dev.hidden, op.attr)
      /\ ~x.msg.more => dev.left = <<>>

ShownInv ==
    result # None /\ result.ok =>
      /\ pc = "done"
      /\ op.via # "commissioner" => result.body = ToldOf(op.via, dev.hidden, op.attr)

ReadInv ==
    /\ dups \in Nat
    /\ op.kind = "read" /\ dups = 0 =>
         /\ pc = "start" => reports = <<>>
         /\ pc = "read" => OneInFlight /\ AskedInv /\ ToldInv
         /\ ShownInv

LEMMA ReadTold ==
    ASSUME NEW o \in Ops, o.kind = "read", o.via # "commissioner", NEW h, Coded(h),
           NEW rs, FullOf(rs, h, o.attr), Outcome(o, Returned(ReassembleListChunks(rs))).ok
    PROVE  Outcome(o, Returned(ReassembleListChunks(rs))).body = ToldOf(o.via, h, o.attr)
<1>1. rs \in Seq(Wire) /\ Whole(rs, Asked(o.attr), h) /\ Asked(o.attr) \subseteq Attrs
  BY DEF FullOf, Asked
<1>2. PICK b : b = ReassembleListChunks(rs)
  OBVIOUS
<1>3. /\ BuildReadRecords(DirectAttrReports(b)) = ToldOf("direct", h, o.attr)
      /\ BuildReadRecords(DaemonAttrReports(ReadResp(b))) = ToldOf("daemon", h, o.attr)
  <2>1. PICK S : S = Asked(o.attr)
    OBVIOUS
  <2>2. /\ BuildReadRecords(DirectAttrReports(ReassembleListChunks(rs)))
             = BuildReadRecords(SetToSeq(AllShown("direct", h, S)))
        /\ BuildReadRecords(DaemonAttrReports(ReadResp(ReassembleListChunks(rs))))
             = BuildReadRecords(SetToSeq(AllShown("daemon", h, S)))
    BY <1>1, <2>1, WholeIsShown
  <2>. QED
    BY <1>2, <2>1, <2>2 DEF ToldOf
<1>4. \A rr : ReadOutcome(o, rr).ok => ReadOutcome(o, rr).body = BuildReadRecords(rr)
  BY DEF ReadOutcome, Ok, Failed, Refused
<1>5. CASE o.via = "direct"
  <2>1. Outcome(o, Returned(b)) = ReadOutcome(o, DirectAttrReports(b))
    BY <1>5 DEF Outcome, DirectOutcome, Returned
  <2>. QED
    BY <1>2, <1>3, <1>4, <1>5, <2>1
<1>6. CASE o.via = "daemon"
  <2>1. Outcome(o, Returned(b)) = ReadOutcome(o, DaemonAttrReports(ReadResp(b)))
    BY <1>6, DaemonReads DEF Outcome
  <2>. QED
    BY <1>2, <1>3, <1>4, <1>6, <2>1
<1>. QED
  BY <1>5, <1>6

(* Messages are lost, the window closes, the command gives up. *)
LEMMA FewerRead ==
    ASSUME ReadInv, UNCHANGED <<op, pc, reports, dups>>, result' = result \/ result' = Failed,
           toDev' \subseteq toDev, toCli' \subseteq toCli,
           dev'.left = dev.left, dev'.hidden = dev.hidden
    PROVE  ReadInv'
<1>. SUFFICES ASSUME op.kind = "read", dups = 0
              PROVE  /\ pc = "start" => reports = <<>>
                     /\ pc = "read" => OneInFlight' /\ AskedInv' /\ ToldInv'
                     /\ ShownInv'
  BY DEF ReadInv
<1>1. Failed.ok = FALSE
  BY DEF Failed
<1>2. ShownInv'
  BY <1>1 DEF ReadInv, ShownInv
<1>3. ASSUME pc = "read" PROVE OneInFlight' /\ AskedInv' /\ ToldInv'
  <2>1. OneInFlight /\ AskedInv /\ ToldInv
    BY <1>3 DEF ReadInv
  <2>2. OneInFlight'
    BY <2>1 DEF OneInFlight
  <2>3. AskedInv'
    BY <2>1 DEF AskedInv
  <2>4. ToldInv'
    BY <2>1 DEF ToldInv
  <2>. QED
    BY <2>2, <2>3, <2>4
<1>. QED
  BY <1>2, <1>3 DEF ReadInv

(* The read returns r. *)
LEMMA EndRead ==
    ASSUME ReadInv, pc = "read", NEW r, Return(r), UNCHANGED <<op, dups, dev>>,
           op.kind = "read" /\ dups = 0 /\ op.via # "commissioner" /\ Outcome(op, r).ok =>
             Outcome(op, r).body = ToldOf(op.via, dev.hidden, op.attr)
    PROVE  ReadInv'
<1>1. pc' = "done" /\ (result' = Outcome(op, r) \/ (result # None /\ result' = result))
  BY DEF Return
<1>2. ASSUME op.kind = "read", dups = 0 PROVE ShownInv'
  <2>1. result # None => ~result.ok
    BY <1>2 DEF ReadInv, ShownInv
  <2>. QED
    BY <1>1, <1>2, <2>1 DEF ShownInv
<1>. QED
  BY <1>1, <1>2 DEF ReadInv

LEMMA FailedRead ==
    ASSUME IndInv, ReadInv, pc = "read", UNCHANGED <<op, dups, dev>>,
           Return(Error) \/ \E c : c # Success /\ Return(StatusError(c))
    PROVE  ReadInv'
<1>1. op \in Ops
  BY DEF IndInv, TypeOK
<1>2. Outcome(op, Error).ok = FALSE /\ \A c : c # Success => Outcome(op, StatusError(c)).ok = FALSE
  <2>1. \A c : Refused(c).ok = FALSE /\ Failed.ok = FALSE
    BY DEF Refused, Failed
  <2>. QED
    BY <1>1, <2>1, ToldOfErrors
<1>. QED
  BY <1>2, EndRead

LEMMA ReadStartStep ==
    ASSUME IndInv, ReadInv, StartCall
    PROVE  ReadInv'
<1>1. pc = "start" /\ UNCHANGED <<op, reports, resp, result, toCli, dev, dups>>
  BY DEF StartCall
<1>2. ASSUME op.kind = "read", dups = 0
      PROVE  pc' = "read" /\ OneInFlight' /\ AskedInv' /\ ShownInv' /\ ToldInv'
  <2>1. pc' = "read" /\ toDev' = toDev \cup {ReadRequest(op.attr)}
    BY <1>2 DEF StartCall, Send
  <2>2. toDev = {} /\ toCli = {}
    BY <1>1 DEF IndInv, TruthInv, CallInv
  <2>3. reports = <<>> /\ (result # None => ~result.ok)
    BY <1>1, <1>2 DEF ReadInv, ShownInv
  <2>. QED
    BY <1>1, <2>1, <2>2, <2>3 DEF OneInFlight, AskedInv, ShownInv, ToldInv
<1>. QED
  BY <1>1, <1>2 DEF ReadInv

LEMMA ReadReceiveStep ==
    ASSUME IndInv, ReadInv, Receive
    PROVE  ReadInv'
<1>. SUFFICES ASSUME op.kind = "read", dups = 0 PROVE ReadInv'
  BY DEF Receive, ReadInv
<1>1. PICK m \in toCli :
        /\ toCli' = toCli \ {m}
        /\ IF IsRefusal(m.msg)
           THEN /\ pc \in {"read", "write", "timed", "invoke"}
                /\ Return(StatusError(m.msg.code))
                /\ UNCHANGED <<reports, toDev>>
           ELSE \/ ReceiveReport(m.msg)
                \/ ReceiveWriteResponse(m.msg)
                \/ ReceiveTimedResponse(m.msg)
                \/ ReceiveInvokeResponse(m.msg)
        /\ UNCHANGED <<op, dev, dups>>
  BY DEF Receive
<1>2. pc \in {"read", "write", "timed", "invoke"} => pc = "read"
  BY DEF IndInv, TruthInv, CallInv
<1>3. CASE IsRefusal(m.msg)
  <2>1. m.msg.code # Success
    BY <1>3 DEF IsRefusal, StatusFromCode
  <2>. QED
    BY <1>1, <1>2, <1>3, <2>1, FailedRead
<1>4. CASE ~IsRefusal(m.msg)
  <2>1. pc = "read" /\ ReceiveReport(m.msg)
    BY <1>1, <1>2, <1>4 DEF ReceiveReport, ReceiveWriteResponse, ReceiveTimedResponse, ReceiveInvokeResponse
  <2>2. OneInFlight /\ ToldInv /\ (result # None => ~result.ok)
    BY <2>1 DEF ReadInv, ShownInv
  <2>3. CASE m.msg.op # "ReportData"
    BY <1>1, <2>1, <2>3, FailedRead DEF ReceiveReport
  <2>4. CASE m.msg.op = "ReportData"
    <3>. DEFINE rs == reports \o m.msg.reports
    <3>1. /\ dev.left \in Seq(Wire) /\ FullOf(rs \o dev.left, dev.hidden, op.attr)
          /\ ~m.msg.more => dev.left = <<>>
      BY <2>2, <2>4 DEF ToldInv
    <3>2. rs \in Seq(Wire)
      BY <2>2, <2>4 DEF ToldInv, IndInv, ReportInv
    <3>3. reports' = rs
      BY <2>1, <2>4 DEF ReceiveReport
    <3>4. CASE m.msg.more
      <4>1. toDev' = toDev \cup {StatusResponse(Success)} /\ pc' = "read" /\ result' = result
        BY <2>1, <2>4, <3>4 DEF ReceiveReport, Send
      <4>2. toDev = {} /\ toCli' = {}
        BY <1>1, <2>2 DEF OneInFlight
      <4>. HIDE DEF rs
      <4>3. AskedInv'
        BY <1>1, <3>1, <3>3, <4>1, <4>2 DEF AskedInv
      <4>4. OneInFlight' /\ ToldInv' /\ ShownInv'
        BY <2>2, <4>1, <4>2 DEF OneInFlight, ToldInv, ShownInv
      <4>. QED
        BY <1>1, <4>1, <4>3, <4>4 DEF ReadInv
    <3>5. CASE ~m.msg.more
      <4>1. Return(Returned(ReassembleListChunks(rs)))
        BY <2>1, <2>4, <3>5 DEF ReceiveReport
      <4>2. FullOf(rs, dev.hidden, op.attr)
        <5>. HIDE DEF rs
        <5>1. rs \o dev.left = rs
          BY <3>1, <3>2, <3>5
        <5>. QED
          BY <3>1, <5>1
      <4>3. op \in Ops /\ Coded(dev.hidden)
        BY DEF IndInv, TypeOK, IsDev
      <4>. HIDE DEF rs
      <4>4. op.via # "commissioner" /\ Outcome(op, Returned(ReassembleListChunks(rs))).ok =>
              Outcome(op, Returned(ReassembleListChunks(rs))).body = ToldOf(op.via, dev.hidden, op.attr)
        BY <4>2, <4>3, ReadTold
      <4>. QED
        BY <1>1, <2>1, <4>1, <4>4, EndRead
    <3>. QED
      BY <3>4, <3>5
  <2>. QED
    BY <2>3, <2>4
<1>. QED
  BY <1>3, <1>4

(* The device reports some of what it has left. *)
LEMMA ReportsFull ==
    ASSUME IsDev(dev), reports \in Seq(Wire), toCli = {}, NEW l \in Seq(Wire),
           FullOf(reports \o l, dev.hidden, op.attr), DeviceReports(l), toDev' = {},
           UNCHANGED <<op, reports>>
    PROVE  OneInFlight' /\ AskedInv' /\ ToldInv' /\ dev'.hidden = dev.hidden
<1>1. CASE \E n \in 0 .. Len(l) :
             /\ Answer(ReportData(SubSeq(l, 1, n), n < Len(l)))
             /\ dev' = [dev EXCEPT !.left = SubSeq(l, n + 1, Len(l)), !.sent = @ + 1]
  <2>1. PICK n \in 0 .. Len(l) :
          /\ Answer(ReportData(SubSeq(l, 1, n), n < Len(l)))
          /\ dev' = [dev EXCEPT !.left = SubSeq(l, n + 1, Len(l)), !.sent = @ + 1]
    BY <1>1
  <2>2. PICK a, b : /\ a = SubSeq(l, 1, n) /\ b = SubSeq(l, n + 1, Len(l))
                    /\ a \in Seq(Wire) /\ b \in Seq(Wire)
                    /\ (reports \o a) \o b = reports \o l
                    /\ n = Len(l) => b = <<>>
    BY SplitLeft, Zenon
  <2>3. Cuts(dev', dev, b, dev.sent + 1)
    BY <2>1, <2>2 DEF Cuts
  <2>4. dev'.hidden = dev.hidden /\ dev'.left = b
    BY <2>3, DevFields
  <2>5. /\ a \in Seq(Wire) /\ b \in Seq(Wire) /\ (reports \o a) \o b = reports \o l
        /\ n = Len(l) => b = <<>>
    BY <2>2, Zenon
  <2>6. PICK m : m = ReportData(a, n < Len(l))
    OBVIOUS
  <2>7. m.reports = a /\ (~m.more => n = Len(l))
    <3>1. PICK c \in BOOLEAN : c <=> (n < Len(l))
      OBVIOUS
    <3>2. (n < Len(l)) = c
      BY <3>1
    <3>3. m = ReportData(a, c)
      BY <2>6, <3>2
    <3>4. m.reports = a /\ m.more = c
      BY <3>3 DEF ReportData
    <3>5. ~(n < Len(l)) => n = Len(l)
      OBVIOUS
    <3>. QED
      BY <3>1, <3>4, <3>5
  <2>8. PICK x : x = [n |-> dev.sent, msg |-> m]
    OBVIOUS
  <2>9. toCli' = {x} /\ x.msg = m
    BY <2>1, <2>2, <2>6, <2>8 DEF Answer
  <2>10. OneInFlight' /\ AskedInv'
    BY <2>9 DEF OneInFlight, AskedInv
  <2>11. ToldInv'
    BY <2>4, <2>5, <2>7, <2>9 DEF ToldInv
  <2>. QED
    BY <2>4, <2>10, <2>11
<1>2. CASE /\ Answer(StatusResponse(Denied))
           /\ dev' = [dev EXCEPT !.left = None, !.sent = @ + 1]
  <2>1. Cuts(dev', dev, None, dev.sent + 1)
    BY <1>2 DEF Cuts
  <2>2. dev'.hidden = dev.hidden
    BY <2>1, DevFields
  <2>3. PICK x : x = [n |-> dev.sent, msg |-> StatusResponse(Denied)]
    OBVIOUS
  <2>4. toCli' = {x} /\ x.msg.op # "ReportData"
    BY <1>2, <2>3 DEF Answer, StatusResponse
  <2>. QED
    BY <2>2, <2>4 DEF OneInFlight, AskedInv, ToldInv
<1>. QED
  BY <1>1, <1>2 DEF DeviceReports

(* No device hides more, or less, than it did. *)
LEMMA ReportsHidden ==
    ASSUME IsDev(dev), NEW l, DeviceReports(l)
    PROVE  dev'.hidden = dev.hidden
<1>1. PICK r, s : dev' = [dev EXCEPT !.left = r, !.sent = s]
  BY DEF DeviceReports
<1>2. Cuts(dev', dev, r, s)
  BY <1>1 DEF Cuts
<1>. QED
  BY <1>2, DevFields

LEMMA DeviceHidden ==
    ASSUME IsDev(dev), DeviceHandles
    PROVE  dev'.hidden = dev.hidden
<1>1. PICK m \in toDev :
        DeviceRead(m) \/ DeviceNextChunk(m) \/ DeviceWrite(m) \/ DeviceTimed(m) \/ DeviceInvoke(m)
  BY DEF DeviceHandles
<1>2. CASE DeviceRead(m)
  BY <1>2, ReportsHidden DEF DeviceRead
<1>3. CASE DeviceNextChunk(m)
  BY <1>3, ReportsHidden DEF DeviceNextChunk
<1>4. CASE DeviceWrite(m)
  <2>1. PICK o : dev' = [dev EXCEPT !.done = o, !.sent = @ + 1]
    BY <1>4 DEF DeviceWrite
  <2>2. Writes(dev', dev, o, dev.sent + 1)
    BY <2>1 DEF Writes
  <2>. QED
    BY <2>2, DevFields
<1>5. CASE DeviceTimed(m)
  <2>1. PICK t : dev' = [dev EXCEPT !.timed = t, !.sent = @ + 1]
    BY <1>5 DEF DeviceTimed
  <2>2. Opens(dev', dev, t, dev.sent + 1)
    BY <2>1 DEF Opens
  <2>. QED
    BY <2>2, DevFields
<1>6. CASE DeviceInvoke(m)
  <2>1. CASE dev' = [dev EXCEPT !.sent = @ + 1]
    <3>1. Refuses(dev', dev, dev.sent + 1)
      BY <2>1 DEF Refuses
    <3>. QED
      BY <3>1, DevFields
  <2>2. CASE \E o : dev' = [dev EXCEPT !.done = o, !.ran = @ + 1, !.sent = @ + 1]
    <3>1. PICK o : dev' = [dev EXCEPT !.done = o, !.ran = @ + 1, !.sent = @ + 1]
      BY <2>2
    <3>2. Runs(dev', dev, o, dev.ran + 1, dev.sent + 1)
      BY <3>1 DEF Runs
    <3>. QED
      BY <3>2, DevFields
  <2>. QED
    BY <1>6, <2>1, <2>2 DEF DeviceInvoke
<1>. QED
  BY <1>1, <1>2, <1>3, <1>4, <1>5, <1>6

LEMMA ReadDeviceStep ==
    ASSUME IndInv, ReadInv, DeviceHandles
    PROVE  ReadInv'
<1>u. UNCHANGED <<op, pc, reports, resp, result, dups>> /\ IsDev(dev)
  BY DEF DeviceHandles, IndInv, TypeOK, IsDev
<1>. SUFFICES ASSUME op.kind = "read", dups = 0 PROVE ReadInv'
  BY <1>u DEF ReadInv
<1>1. PICK m \in toDev :
        /\ toDev' = toDev \ {m}
        /\ DeviceRead(m) \/ DeviceNextChunk(m) \/ DeviceWrite(m) \/ DeviceTimed(m) \/ DeviceInvoke(m)
  BY DEF DeviceHandles
<1>2. pc # "start"
  BY DEF IndInv, TruthInv, CallInv
<1>3. dev'.hidden = dev.hidden
  BY <1>u, DeviceHidden
<1>4. ShownInv'
  BY <1>3, <1>u DEF ReadInv, ShownInv
<1>5. ASSUME pc = "read"
      PROVE  OneInFlight' /\ AskedInv' /\ ToldInv'
  <2>1. OneInFlight /\ AskedInv /\ reports \in Seq(Wire)
    BY <1>5 DEF ReadInv, IndInv, ReportInv
  <2>2. toDev' = {} /\ toCli = {}
    BY <1>1, <2>1 DEF OneInFlight
  <2>3. CASE m = ReadRequest(op.attr) /\ reports = <<>>
    <3>1. m.op = "ReadRequest" /\ m.attr = op.attr
      BY <2>3 DEF ReadRequest
    <3>2. DeviceRead(m)
      BY <1>1, <3>1 DEF DeviceNextChunk, DeviceWrite, DeviceTimed, DeviceInvoke
    <3>3. PICK l \in Seq(Wire) : Whole(l, Asked(op.attr), dev.hidden) /\ DeviceReports(l)
      BY <1>u, <3>1, <3>2, ReadAnswer
    <3>4. reports \o l = l
      BY <2>3, <3>3
    <3>5. FullOf(reports \o l, dev.hidden, op.attr)
      BY <3>3, <3>4 DEF FullOf
    <3>. QED
      BY <1>u, <2>1, <2>2, <3>3, <3>5, ReportsFull
  <2>4. CASE /\ m = StatusResponse(Success) /\ dev.left \in Seq(Wire)
             /\ FullOf(reports \o dev.left, dev.hidden, op.attr)
    <3>1. m.op = "StatusResponse"
      BY <2>4 DEF StatusResponse
    <3>2. DeviceNextChunk(m)
      BY <1>1, <3>1 DEF DeviceRead, DeviceWrite, DeviceTimed, DeviceInvoke
    <3>3. CASE UNCHANGED <<toCli, dev>>
      BY <2>2, <3>3 DEF OneInFlight, AskedInv, ToldInv
    <3>4. CASE DeviceReports(dev.left)
      <4>1. PICK l : l = dev.left
        OBVIOUS
      <4>. QED
        BY <1>u, <2>1, <2>2, <2>4, <3>4, <4>1, ReportsFull
    <3>. QED
      BY <3>2, <3>3, <3>4 DEF DeviceNextChunk
  <2>. QED
    BY <2>1, <2>3, <2>4 DEF AskedInv
<1>. QED
  BY <1>2, <1>4, <1>5, <1>u DEF ReadInv

LEMMA ReadNextStep == IndInv /\ ReadInv /\ [Next]_vars => ReadInv'
<1>. SUFFICES ASSUME IndInv, ReadInv, [Next]_vars PROVE ReadInv'
  OBVIOUS
<1>d. IsDev(dev)
  BY DEF IndInv, TypeOK, IsDev
<1>1. CASE TimesOut
  <2>1. pc = "read" \/ op.kind # "read"
    BY <1>1 DEF TimesOut, IndInv, TruthInv, CallInv
  <2>2. CASE pc = "read"
    BY <1>1, <2>2, FailedRead DEF TimesOut
  <2>3. CASE op.kind # "read"
    BY <1>1, <2>3 DEF TimesOut, ReadInv
  <2>. QED
    BY <2>1, <2>2, <2>3
<1>2. CASE DaemonClientGivesUp
  BY <1>2, FewerRead DEF DaemonClientGivesUp
<1>3. CASE TimedWindowCloses
  <2>1. Shuts(dev', dev, FALSE) /\ UNCHANGED <<op, pc, reports, resp, result, toDev, toCli, dups>>
    BY <1>3 DEF TimedWindowCloses, Shuts
  <2>2. dev'.hidden = dev.hidden /\ dev'.left = dev.left
    BY <1>d, <2>1, DevFields
  <2>. QED
    BY <2>1, <2>2, FewerRead
<1>4. CASE Lose
  BY <1>4, FewerRead DEF Lose
<1>5. CASE UNCHANGED vars
  BY <1>5, FewerRead DEF vars
<1>6. CASE DeviceRepeats
  <2>1. dups' = dups + 1 /\ dups \in Nat
    BY <1>6 DEF DeviceRepeats, ReadInv
  <2>2. dups' \in Nat /\ dups' # 0
    BY <2>1
  <2>. QED
    BY <2>2 DEF ReadInv
<1>7. CASE Client
  BY <1>1, <1>2, <1>7, ReadStartStep, ReadReceiveStep DEF Client
<1>. QED
  BY <1>3, <1>4, <1>5, <1>6, <1>7, ReadDeviceStep DEF Next

(* Client.Read with reassembleListChunks, and the commands that show what it
   returns (runClusterRead with its own session, handleRead and
   daemonAttrReports through the daemon, buildReadRecords): a read that
   succeeds shows every attribute that was asked for once, in the order of the
   attributes, with its whole value or its status, for every cluster, however
   the device cuts lists into items and the answer into messages, and whatever
   is lost, as long as no message is handed to Read twice. *)
THEOREM ReadShowsWhatWasAsked == Spec => []ReadExact
<1>1. Init => ReadInv
  BY DEF Init, ReadInv, ShownInv
<1>2. IndInv /\ ReadInv => ReadExact
  <2>1. Expected(op.via, op.attr) = ToldOf(op.via, dev.hidden, op.attr)
    BY DEF Expected, ToldOf, AllShown, Shown, Told
  <2>. QED
    BY <2>1 DEF ReadInv, ShownInv, ReadExact
<1>3. IndInv /\ ReadInv /\ [Next]_vars => ReadInv'
  BY ReadNextStep
<1>. QED
  BY <1>1, <1>2, <1>3, Invariance, PTL DEF Spec
=============================================================================
