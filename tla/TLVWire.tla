------------------------------ MODULE TLVWire ------------------------------
(***************************************************************************)
(* A message on its way: one side marshals a struct, the other unmarshals  *)
(* it into a struct of its own revision of the message.  In between, what  *)
(* a conforming peer or the transport may do to the bytes: a newer sender  *)
(* adds elements the reader does not know, a peer does not bother to use   *)
(* the narrowest width, and a message arrives cut short.                   *)
(***************************************************************************)
EXTENDS TLVMarshal

CONSTANTS
  Revisions,     \* pairs <<fields of the sender, fields of the reader>>
  IntValues,     \* signed integers to send
  UintValues,    \* unsigned integers to send
  Lengths,       \* lengths of strings to send
  RawElements,   \* pre-encoded elements, each a sequence of elements
  Unknown        \* element sequences that a newer sender adds

VARIABLES rev, sent, buf, state, got

wireVars == <<rev, sent, buf, state, got>>

NotRead == [ok |-> FALSE, p |-> 0, d |-> 0, v |-> <<>>]

\* The Go values that a field may hold.
RECURSIVE StructValues(_)

InnerValues(f) ==
  CASE f.type = "int" -> {<<"int", v>> : v \in {x \in IntValues : FromBits(LowBits(x, f.size), f.size) = x}}
    [] f.type = "uint" -> {<<"uint", v>> : v \in {x \in UintValues : LowBits(x, f.size) = x}}
    [] f.type = "bool" -> {<<"bool", v>> : v \in BOOLEAN}
    [] f.type \in {"float32", "float64"} -> {<<f.type, v>> : v \in {0, 1}}
    [] f.type \in {"utf8", "octets"} -> {<<f.type, n>> : n \in Lengths}
    [] f.type \in StructTypes -> {<<"struct", v>> : v \in StructValues(f.sub)}
    [] f.type \in SliceTypes ->
         LET vs == (IF f.elem.type = "struct" THEN {<<"struct", v>> : v \in StructValues(f.elem.sub)}
                    ELSE {ZeroInner(f.elem)})
                     \cup (IF f.elem.wrap = "ptr" THEN {Nil} ELSE {})
         IN  {<<"slice", s>> : s \in SeqOf(vs, 2)}
    [] f.type = "rawtlv" -> {<<"raw", e>> : e \in RawElements} \cup {NoBytes}
    [] f.type = "rawstruct" -> {<<"raw", e>> : e \in {<<>>} \cup Unknown}

FieldValues(f) ==
  InnerValues(f) \cup (CASE f.wrap = "ptr" -> {Nil} [] f.wrap = "opt" -> {Absent, Null}
                         [] OTHER -> {})

StructValues(fields) ==
  IF fields = <<>> THEN {<<>>}
  ELSE {<<h>> \o t : h \in FieldValues(Head(fields)), t \in StructValues(Tail(fields))}

-----------------------------------------------------------------------------
WireInit ==
  /\ rev \in Revisions
  /\ sent \in StructValues(rev[1])
  /\ buf = [elems |-> <<>>, torn |-> FALSE]
  /\ state = "filled"
  /\ got = NotRead

Send ==
  /\ state = "filled"
  /\ buf' = [elems |-> Marshal(rev[1], sent), torn |-> FALSE]
  /\ state' = "sent"
  /\ UNCHANGED <<rev, sent, got>>

\* The positions between the fields of the message.
Boundaries(elems) ==
  {i \in 2..Len(elems) :
     Cardinality({j \in 1..(i - 1) : elems[j].kind \in Containers})
       - Cardinality({j \in 1..(i - 1) : elems[j].kind = "end"}) = 1}

AddUnknown ==
  /\ state = "sent"
  /\ \E i \in Boundaries(buf.elems), u \in Unknown :
       buf' = [buf EXCEPT !.elems =
                 SubSeq(@, 1, i - 1) \o u \o SubSeq(@, i, Len(@))]
  /\ state' = "added"
  /\ UNCHANGED <<rev, sent, got>>

\* An integer in twice the width it needs.
Widened(e) ==
  LET v == ReadValue(e)[2]
  IN  [e EXCEPT !.w = 2 * e.w, !.bits = <<LowBits(v, 2 * e.w)>>]

Widen ==
  /\ state \in {"sent", "added"}
  /\ \E i \in 1..Len(buf.elems) :
       /\ buf.elems[i].kind \in {"int", "uint"}
       /\ buf.elems[i].w < 8
       /\ buf' = [buf EXCEPT !.elems[i] = Widened(buf.elems[i])]
  /\ state' = "widened"
  /\ UNCHANGED <<rev, sent, got>>

\* The message ends after n elements, or inside the next one.
Cut ==
  /\ state \in {"sent", "added", "widened"}
  /\ \E n \in 0..(Len(buf.elems) - 1), torn \in BOOLEAN :
       /\ torn => buf.elems[n + 1].kind # "end"
       /\ buf' = [elems |-> SubSeq(buf.elems, 1, n), torn |-> torn]
  /\ state' = "cut"
  /\ UNCHANGED <<rev, sent, got>>

Receive ==
  /\ state \in {"sent", "added", "widened", "cut"}
  /\ got' = Unmarshal(buf, rev[2])
  /\ state' = IF state = "cut" THEN "readcut" ELSE "read"
  /\ UNCHANGED <<rev, sent, buf>>

WireNext == Send \/ AddUnknown \/ Widen \/ Cut \/ Receive

-----------------------------------------------------------------------------
(* Properties.                                                             *)

\* A raw field that holds an encoded null: unmarshalValue takes the null for
\* the field's own and leaves the field as it was, without the element.
RawNull(f, v) == f.type = "rawtlv" /\ f.wrap = "plain" /\ v = <<"raw", <<PutNull(AnonymousTag)>>>>

RECURSIVE Projected(_, _, _)

\* The sender's values, as far as the reader's struct has a field for them.
Projected(out, in, vs) ==
  [i \in 1..Len(in) |->
     LET j == FieldOf(out, in[i].num)
     IN  IF j = 0 THEN Zero(in[i])
         ELSE IF in[i].type \in StructTypes /\ vs[j][1] = "struct"
                THEN <<"struct", Projected(out[j].sub, in[i].sub, vs[j][2])>>
         ELSE IF RawNull(in[i], vs[j]) THEN Zero(in[i])
         ELSE vs[j]]

\* Whatever a struct holds, in the narrowest width or not, next to elements
\* the reader does not know or not, the reader gets exactly the values of the
\* fields it knows, absent, null and value apart (marshal.go, optional.go,
\* encoder.go's choice of width, skipElement), and has read to the end of
\* the message.  The exception: a raw field that was sent holding an encoded
\* null reads as one that was not sent (RawNull), which is what
\* AttributeData.Data does with an attribute that is null.
RoundTrip ==
  state = "read" =>
    /\ got.ok
    /\ got.v = Projected(rev[1], rev[2], sent)
    /\ got.p = Len(buf.elems) + 1
    /\ got.d = 0

RECURSIVE Below(_, _, _), SliceBelow(_, _, _)

\* v says no more than w: a field is as it was sent or as if never sent, a
\* slice is the beginning of the one sent, and its last struct and a nested
\* struct may themselves be incomplete.
Below(fields, v, w) ==
  \A i \in 1..Len(fields) :
    \/ v[i] = w[i]
    \/ v[i] = Zero(fields[i])
    \/ /\ fields[i].type \in StructTypes
       /\ v[i][1] = "struct" /\ w[i][1] = "struct"
       /\ Below(fields[i].sub, v[i][2], w[i][2])
    \/ /\ fields[i].type \in SliceTypes
       /\ v[i][1] = "slice" /\ w[i][1] = "slice"
       /\ SliceBelow(fields[i].elem, v[i][2], w[i][2])

SliceBelow(elem, v, w) ==
  /\ Len(v) <= Len(w)
  /\ \A k \in 1..Len(v) :
       \/ v[k] = w[k]
       \/ /\ k = Len(v) /\ elem.type = "struct" /\ v[k][1] = "struct" /\ w[k][1] = "struct"
          /\ Below(elem.sub, v[k][2], w[k][2])

\* A message that is cut short is either refused or read as the part that
\* came: no field gets a value it was not sent with, a field kept as raw TLV
\* is whole or empty, and an element cut in the middle is always an error
\* (unmarshalFields and unmarshalSlice treat the end of input as the end of
\* the container; skipElement and the captures do not).
CutNotInvented ==
  state = "readcut" /\ got.ok =>
    /\ ~buf.torn
    /\ Below(rev[2], got.v, Projected(rev[1], rev[2], sent))
=============================================================================
