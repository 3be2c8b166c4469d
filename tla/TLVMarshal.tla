----------------------------- MODULE TLVMarshal -----------------------------
(***************************************************************************)
(* Marshal and Unmarshal (internal/tlv: marshal.go, optional.go): Go       *)
(* structs to and from TLV by the struct tags of their fields.             *)
(*                                                                         *)
(* A struct type is a sequence of fields, one record per `tlv` tag:        *)
(*   num   the context tag number          type  the TLV type of the tag   *)
(*   wrap  "plain", "ptr" or "opt" (Optional[T])                           *)
(*   size  the bytes of a Go integer       sub   the fields of a struct    *)
(*   elem  what a slice holds, a field of its own (num unused)             *)
(* A Go value is a tagged tuple; a struct value one value per field.       *)
(***************************************************************************)
EXTENDS TLV, SequencesExt

Nil == <<"nil">>              \* a nil pointer
Absent == <<"absent">>        \* Optional[T], the zero value
Null == <<"null">>            \* OptionalNull
NoBytes == <<"raw", <<>>>>    \* a nil or empty []byte of pre-encoded TLV

StructTypes == {"struct", "liststruct"}
SliceTypes == {"array", "list", "listarray", "listlist"}

RECURSIVE ZeroStruct(_)

\* The Go zero value of a field, and of what it wraps.
ZeroInner(f) ==
  CASE f.type \in {"int", "uint", "float32", "float64", "utf8", "octets"} -> <<f.type, 0>>
    [] f.type = "bool" -> <<"bool", FALSE>>
    [] f.type \in StructTypes -> <<"struct", ZeroStruct(f.sub)>>
    [] f.type \in SliceTypes -> <<"slice", <<>>>>
    [] f.type \in {"rawstruct", "rawtlv"} -> NoBytes

Zero(f) ==
  CASE f.wrap = "ptr" -> Nil [] f.wrap = "opt" -> Absent [] OTHER -> ZeroInner(f)

ZeroStruct(fields) == [i \in 1..Len(fields) |-> Zero(fields[i])]

-----------------------------------------------------------------------------
(* Marshal.                                                                *)

\* Where an element that has been read ends: past the matching end of
\* container, or just past a scalar.  0 when the buffer ends before it.
ElementEnd(elems, p) ==
  LET depth(q) == Cardinality({j \in p..q : elems[j].kind \in Containers})
                    - Cardinality({j \in p..q : elems[j].kind = "end"})
      closed == {q \in p..Len(elems) : depth(q) = 0}
  IN  IF closed = {} THEN 0 ELSE CHOOSE q \in closed : \A x \in closed : q <= x

\* reencodeScalar: the value goes through the Writer again and comes out in
\* its narrowest width.  A container's open and end elements keep their tags.
ReencodeScalar(tag, e) ==
  CASE e.kind = "int" -> PutSignedInt(tag, ReadValue(e)[2])
    [] e.kind = "uint" -> PutUnsignedInt(tag, ReadValue(e)[2])
    [] e.kind \in {"true", "false"} -> PutBool(tag, ReadValue(e)[2])
    [] e.kind = "float32" -> PutFloat32(tag, ReadValue(e)[2])
    [] e.kind = "float64" -> PutFloat64(tag, ReadValue(e)[2])
    [] e.kind \in {"utf8", "octets"} -> PutString(tag, e.kind, ReadValue(e)[2])
    [] e.kind = "null" -> PutNull(tag)
    [] e.kind \in Containers -> StartContainer(tag, e.kind)
    [] e.kind = "end" -> EndContainer

ReencodeContainerBody(elems) ==
  [i \in 1..Len(elems) |-> ReencodeScalar(DecodeTag(elems[i].form, elems[i].tag), elems[i])]

\* reencodeElement: the first element of elems with another tag, and what its
\* container holds.
ReencodeElement(tag, elems) ==
  <<ReencodeScalar(tag, elems[1])>>
    \o ReencodeContainerBody(SubSeq(elems, 2, ElementEnd(elems, 1)))

RECURSIVE MarshalFields(_, _)

\* One element of a slice; asList makes a struct a TLV list.
MarshalArrayElement(elem, v, asList) ==
  IF v = Nil THEN <<PutNull(AnonymousTag)>>
  ELSE CASE elem.type = "int" -> <<PutSignedInt(AnonymousTag, v[2])>>
         [] elem.type = "uint" -> <<PutUnsignedInt(AnonymousTag, v[2])>>
         [] elem.type = "bool" -> <<PutBool(AnonymousTag, v[2])>>
         [] elem.type = "float32" -> <<PutFloat32(AnonymousTag, v[2])>>
         [] elem.type = "float64" -> <<PutFloat64(AnonymousTag, v[2])>>
         [] elem.type \in {"utf8", "octets"} -> <<PutString(AnonymousTag, elem.type, v[2])>>
         [] elem.type = "struct" -> Container(AnonymousTag, IF asList THEN "list" ELSE "struct",
                                              MarshalFields(elem.sub, v[2]))

MarshalSlice(elem, vs) ==
  FlattenSeq([i \in 1..Len(vs) |-> MarshalArrayElement(elem, vs[i], FALSE)])

MarshalSliceAsLists(elem, vs) ==
  FlattenSeq([i \in 1..Len(vs) |-> MarshalArrayElement(elem, vs[i], TRUE)])

MarshalValue(f, v) ==
  LET tag == ContextTag(f.num)
  IN  CASE f.type = "int" -> <<PutSignedInt(tag, v[2])>>
        [] f.type = "uint" -> <<PutUnsignedInt(tag, v[2])>>
        [] f.type = "bool" -> <<PutBool(tag, v[2])>>
        [] f.type = "float32" -> <<PutFloat32(tag, v[2])>>
        [] f.type = "float64" -> <<PutFloat64(tag, v[2])>>
        [] f.type \in {"utf8", "octets"} -> <<PutString(tag, f.type, v[2])>>
        [] f.type = "struct" -> Container(tag, "struct", MarshalFields(f.sub, v[2]))
        [] f.type = "liststruct" -> Container(tag, "list", MarshalFields(f.sub, v[2]))
        [] f.type = "array" -> Container(tag, "array", MarshalSlice(f.elem, v[2]))
        [] f.type = "list" -> Container(tag, "list", MarshalSlice(f.elem, v[2]))
        [] f.type = "listarray" -> Container(tag, "array", MarshalSliceAsLists(f.elem, v[2]))
        [] f.type = "listlist" -> Container(tag, "list", MarshalSliceAsLists(f.elem, v[2]))
        [] f.type = "rawstruct" -> PutPreEncodedStruct(tag, v[2])
        [] f.type = "rawtlv" -> IF v = NoBytes THEN <<>> ELSE ReencodeElement(tag, v[2])

\* marshalFields: a nil pointer and an absent Optional are left out, an
\* explicit null is written as one.
MarshalField(f, v) ==
  CASE f.wrap = "opt" /\ v = Absent -> <<>>
    [] f.wrap = "opt" /\ v = Null -> <<PutNull(ContextTag(f.num))>>
    [] f.wrap = "ptr" /\ v = Nil -> <<>>
    [] OTHER -> MarshalValue(f, v)

MarshalFields(fields, vs) ==
  FlattenSeq([i \in 1..Len(fields) |-> MarshalField(fields[i], vs[i])])

Marshal(fields, vs) == Container(AnonymousTag, "struct", MarshalFields(fields, vs))

-----------------------------------------------------------------------------
(* Unmarshal.  Each decoder returns whether it failed, where the Reader is *)
(* and the value so far.                                                   *)

Result(r, ok, v) == [ok |-> ok, p |-> r.p, d |-> r.d, v |-> v]

RECURSIVE SkipTo(_, _, _, _)

\* The loops of skipElement, captureStructBody and captureElement: read on
\* until the container that is open at depth base + 1 has ended.
SkipTo(buf, p, d, base) ==
  IF d = base THEN [st |-> "ok", p |-> p, d |-> d]
  ELSE LET r == NextElement(buf, p, d)
       IN  IF r.st # "ok" THEN [r EXCEPT !.st = "err"] ELSE SkipTo(buf, r.p, r.d, base)

\* mutant: only the container itself is skipped, not what is inside.
SkipElementShallow(buf, p, d) ==
  LET e == buf.elems[p - 1]
  IN  IF e.kind \in Containers THEN NextElement(buf, p, d)
      ELSE [st |-> "ok", p |-> p, d |-> d]

SkipElement(buf, p, d) ==
  LET e == buf.elems[p - 1]
  IN  IF e.kind \in Containers THEN SkipTo(buf, p, d, d - 1)
      ELSE [st |-> "ok", p |-> p, d |-> d]

\* captureStructBody: what is inside the structure, re-encoded.
CaptureStructBody(buf, p, d) ==
  LET r == SkipTo(buf, p, d, d - 1)
  IN  Result(r, r.st = "ok",
             <<"raw", IF r.st = "ok" THEN ReencodeContainerBody(SubSeq(buf.elems, p, r.p - 2))
                                     ELSE <<>>>>)

\* captureElement: the element with an anonymous tag, re-encoded.
CaptureElement(buf, p, d) ==
  LET r == SkipElement(buf, p, d)
  IN  Result(r, r.st = "ok",
             <<"raw", IF r.st = "ok"
                        THEN ReencodeElement(AnonymousTag, SubSeq(buf.elems, p - 1, r.p - 1))
                        ELSE <<>>>>)

\* reflect's SetInt and SetUint keep the low bytes of the Go integer.
SetInteger(f, v) ==
  IF f.type = "int" THEN <<"int", FromBits(LowBits(v[2], f.size), f.size)>>
  ELSE IF f.type = "uint" THEN <<"uint", LowBits(v[2], f.size)>> ELSE v

RECURSIVE UnmarshalFields(_, _, _, _, _), UnmarshalSlice(_, _, _, _, _)

\* A value that is not wrapped; cur is what the field holds already.
UnmarshalInner(buf, p, d, f, cur) ==
  LET e == buf.elems[p - 1]
      here == [p |-> p, d |-> d]
  IN  CASE f.type \in StructTypes ->
             IF f.type = "liststruct" /\ e.kind \notin {"list", "struct"} THEN Result(here, FALSE, cur)
             ELSE LET r == UnmarshalFields(buf, p, d, f.sub, cur[2])
                  IN  Result(r, r.ok, <<"struct", r.v>>)
        [] f.type \in SliceTypes ->
             LET r == UnmarshalSlice(buf, p, d, f.elem, cur[2])
             IN  Result(r, r.ok, <<"slice", r.v>>)
        [] f.type = "rawstruct" ->
             IF e.kind # "struct" THEN Result(here, FALSE, cur) ELSE CaptureStructBody(buf, p, d)
        [] f.type = "rawtlv" -> CaptureElement(buf, p, d)
        [] OTHER ->
             LET v == ReadValue(e)
             IN  IF v[1] # f.type THEN Result(here, FALSE, cur)
                 ELSE Result(here, TRUE, SetInteger(f, v))

\* unmarshalValue: null sets a pointer to nil, an Optional to null, and
\* leaves any other field as it is.
UnmarshalValue(buf, p, d, f, cur) ==
  LET here == [p |-> p, d |-> d]
      inner == IF f.wrap # "plain" /\ cur \in {Nil, Absent, Null} THEN ZeroInner(f) ELSE cur
  IN  IF buf.elems[p - 1].kind = "null"
        THEN Result(here, TRUE, CASE f.wrap = "ptr" -> Nil [] f.wrap = "opt" -> Null
                                  [] OTHER -> cur)
        ELSE UnmarshalInner(buf, p, d, f, inner)

\* unmarshalSlice: elements are appended; a null among elements that are not
\* pointers is dropped.
UnmarshalSlice(buf, p, d, elem, vs) ==
  LET r == NextElement(buf, p, d)
      e == buf.elems[p]
  IN  CASE r.st = "eof" -> Result(r, TRUE, vs)
        [] r.st = "err" -> Result(r, FALSE, vs)
        [] r.st = "ok" /\ e.kind = "end" -> Result(r, TRUE, vs)
        [] r.st = "ok" /\ e.kind = "null" ->
             UnmarshalSlice(buf, r.p, r.d, elem, IF elem.wrap = "ptr" THEN Append(vs, Nil) ELSE vs)
        [] OTHER ->
             LET u == UnmarshalInner(buf, r.p, r.d, elem, ZeroInner(elem))
             IN  IF u.ok THEN UnmarshalSlice(buf, u.p, u.d, elem, Append(vs, u.v))
                 ELSE Result(u, FALSE, vs)

\* buildFieldMap: the field of a tag number; the last one wins.
FieldOf(fields, num) ==
  LET is == {i \in 1..Len(fields) : fields[i].num = num}
  IN  IF is = {} THEN 0 ELSE CHOOSE i \in is : \A j \in is : j <= i

\* unmarshalFields: the tag form is not looked at, and the number is cut to
\* one byte.  The end of the buffer ends the structure without an error.
UnmarshalFields(buf, p, d, fields, vs) ==
  LET r == NextElement(buf, p, d)
      e == buf.elems[p]
      i == FieldOf(fields, LowBits(DecodeTag(e.form, e.tag).num, 1))
  IN  CASE r.st = "eof" -> Result(r, TRUE, vs)
        [] r.st = "err" -> Result(r, FALSE, vs)
        [] r.st = "ok" /\ e.kind = "end" -> Result(r, TRUE, vs)
        [] r.st = "ok" /\ e.kind # "end" /\ i = 0 ->
             LET s == SkipElement(buf, r.p, r.d)
             IN  IF s.st = "ok" THEN UnmarshalFields(buf, s.p, s.d, fields, vs)
                 ELSE Result(s, FALSE, vs)
        [] OTHER ->
             LET u == UnmarshalValue(buf, r.p, r.d, fields[i], vs[i])
             IN  IF u.ok THEN UnmarshalFields(buf, u.p, u.d, fields, [vs EXCEPT ![i] = u.v])
                 ELSE Result(u, FALSE, [vs EXCEPT ![i] = u.v])

Unmarshal(buf, fields) ==
  LET r == NextElement(buf, 1, 0)
      zero == ZeroStruct(fields)
  IN  IF r.st # "ok" \/ buf.elems[1].kind # "struct" THEN Result(r, FALSE, zero)
      ELSE UnmarshalFields(buf, r.p, r.d, fields, zero)
=============================================================================
