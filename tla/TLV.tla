-------------------------------- MODULE TLV --------------------------------
(***************************************************************************)
(* The low-level TLV codec (internal/tlv: types.go, tags.go, encoder.go,   *)
(* decoder.go): a Writer appends elements to a buffer, a Reader takes them *)
(* off again.                                                              *)
(*                                                                         *)
(* A buffer is a sequence of elements: the form and number of the tag, the *)
(* kind and width of the control byte, and the bits that the width keeps;  *)
(* a cut buffer may end in the middle of an element (torn).  A string is   *)
(* known by its length.  Widths count bytes of ByteBits bits: the code's   *)
(* is 8, a smaller one brings every boundary within TLC's integers.        *)
(***************************************************************************)
EXTENDS Integers, Sequences

CONSTANT ByteBits    \* bits in a byte

ASSUME ByteBitsAssumption == ByteBits \in Nat \ {0}

Containers == {"struct", "array", "list"}

\* tagSize without the vendor and profile numbers: the bytes of TagNum that
\* each tag form carries.
TagNumBytes == [anonymous |-> 0, context |-> 1, profile2 |-> 2, profile4 |-> 4,
                qualified6 |-> 2, qualified8 |-> 4]

AnonymousTag == [form |-> "anonymous", num |-> 0]

ContextTag(n) == [form |-> "context", num |-> n]

\* The w bytes of a value, and the signed value that w bytes stand for.
LowBits(v, w) == v % 2^(w * ByteBits)

FromBits(bits, w) ==
  IF bits >= 2^(w * ByteBits - 1) THEN bits - 2^(w * ByteBits) ELSE bits

\* The tag bytes that are written, and the tag they are read as: an anonymous
\* tag has none and is read as number 0.
EncodeTag(tag) == LowBits(tag.num, TagNumBytes[tag.form])

DecodeTag(form, bytes) == [form |-> form, num |-> bytes]

-----------------------------------------------------------------------------
(* Writer.                                                                 *)

\* writeElement: a control byte, the tag, and the value that follows them.
WriteElement(tag, kind, w, bits) ==
  [form |-> tag.form, tag |-> EncodeTag(tag), kind |-> kind, w |-> w, bits |-> bits]

\* mutant: the upper limit of the one-byte signed range is the unsigned one.
SignedWidthMaxUint8(v) ==
  IF v >= -2^(ByteBits - 1) /\ v <= 2^ByteBits - 1 THEN 1
  ELSE IF v >= -2^(2 * ByteBits - 1) /\ v <= 2^(2 * ByteBits - 1) - 1 THEN 2
  ELSE 4

\* The narrowest width a value fits in, with the limits of the code's switch.
SignedWidth(v) ==
  IF v >= -2^(ByteBits - 1) /\ v <= 2^(ByteBits - 1) - 1 THEN 1
  ELSE IF v >= -2^(2 * ByteBits - 1) /\ v <= 2^(2 * ByteBits - 1) - 1 THEN 2
  ELSE IF v >= -2^(4 * ByteBits - 1) /\ v <= 2^(4 * ByteBits - 1) - 1 THEN 4
  ELSE 8

UnsignedWidth(v) ==
  IF v <= 2^ByteBits - 1 THEN 1
  ELSE IF v <= 2^(2 * ByteBits) - 1 THEN 2
  ELSE IF v <= 2^(4 * ByteBits) - 1 THEN 4
  ELSE 8

PutSignedInt(tag, v) ==
  WriteElement(tag, "int", SignedWidth(v), <<LowBits(v, SignedWidth(v))>>)

PutUnsignedInt(tag, v) ==
  WriteElement(tag, "uint", UnsignedWidth(v), <<LowBits(v, UnsignedWidth(v))>>)

PutBool(tag, v) == WriteElement(tag, IF v THEN "true" ELSE "false", 0, <<>>)

PutFloat32(tag, v) == WriteElement(tag, "float32", 4, <<v>>)

PutFloat64(tag, v) == WriteElement(tag, "float64", 8, <<v>>)

\* stringElementType and writeLength: the text is preceded by its length, in
\* the narrowest width it fits in.
StringElementType(length) == UnsignedWidth(length)

WriteLength(length) == LowBits(length, StringElementType(length))

PutString(tag, kind, text) ==
  WriteElement(tag, kind, StringElementType(text), <<WriteLength(text), text>>)

PutNull(tag) == WriteElement(tag, "null", 0, <<>>)

StartContainer(tag, kind) == WriteElement(tag, kind, 0, <<>>)

EndContainer == WriteElement(AnonymousTag, "end", 0, <<>>)

Container(tag, kind, body) == <<StartContainer(tag, kind)>> \o body \o <<EndContainer>>

PutPreEncodedStruct(tag, body) == Container(tag, "struct", body)

-----------------------------------------------------------------------------
(* Reader: a position in the buffer and the depth of open containers.      *)

\* readValue: the dynamic type of the value and the value.  A string is as
\* long as its length field says.
ReadValue(e) ==
  CASE e.kind = "int" -> <<"int", FromBits(e.bits[1], e.w)>>
    [] e.kind = "uint" -> <<"uint", e.bits[1]>>
    [] e.kind \in {"true", "false"} -> <<"bool", e.kind = "true">>
    [] e.kind \in {"float32", "float64"} -> <<e.kind, e.bits[1]>>
    [] e.kind \in {"utf8", "octets"} ->
         IF e.bits[1] = e.bits[2] THEN <<e.kind, e.bits[2]>> ELSE <<"garbled">>
    [] OTHER -> <<"nil">>

\* mutant: an element cut short is taken for the end of the input.
NextElementUnexpectedEOF(buf, p, d) ==
  IF p > Len(buf.elems) THEN [st |-> "eof", p |-> p, d |-> d]
  ELSE LET e == buf.elems[p]
       IN  [st |-> "ok", p |-> p + 1,
            d |-> IF e.kind \in Containers THEN d + 1 ELSE IF e.kind = "end" THEN d - 1 ELSE d]

\* Next: the end of the buffer is io.EOF; an element cut short, a control
\* byte of no known type and an end of container with none open are errors.
NextElement(buf, p, d) ==
  IF p > Len(buf.elems) THEN [st |-> IF buf.torn THEN "err" ELSE "eof", p |-> p, d |-> d]
  ELSE LET e == buf.elems[p]
       IN  IF e.kind = "end"
             THEN IF d = 0 THEN [st |-> "err", p |-> p, d |-> d]
                           ELSE [st |-> "ok", p |-> p + 1, d |-> d - 1]
           ELSE IF e.kind = "invalid" THEN [st |-> "err", p |-> p, d |-> d]
           ELSE [st |-> "ok", p |-> p + 1,
                 d |-> IF e.kind \in Containers THEN d + 1 ELSE d]
=============================================================================
