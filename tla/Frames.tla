------------------------------- MODULE Frames -------------------------------
(***************************************************************************)
(* Decoding what a charger sends (frames.py): the header of a frame, and   *)
(* the protobuf fields of its body, read without a schema.  Bytes are      *)
(* numbers.  The widths are constants, so that TLC can go past them.       *)
(*                                                                         *)
(* `data` is what a reader has of a frame that arrives byte by byte, who   *)
(* reads on up to its declared_length; `message` is what a charger has to  *)
(* say.  A value is a pair of its kind and what it is; a floating point    *)
(* number is its bytes, and so is a text.  A field may be a message again, *)
(* to any depth: that Python would not follow it down to every depth is    *)
(* left out.                                                               *)
(***************************************************************************)
EXTENDS Integers, Sequences

CONSTANTS
  Continue,      \* 2^7: a byte of a varint from here up is not its last
  Sign,          \* 2^63: a whole number from here up is a negative one
  FloatSize,     \* 4
  DoubleSize,    \* 8
  Characters,    \* what UTF-8 encodes the characters as: sequences of bytes
  Printable,     \* those of the characters that are printable
  HeaderLen,     \* HEADER_LEN
  Types,         \* the values of MessageType
  HeaderBytes,   \* bound: the bytes at each place of a header
  BodyBytes,     \* bound: the bytes in a body
  MaxBody,       \* bound: how many of them
  Fields,        \* bound: the fields of a message, and of one nested in it
  Depth(_),      \* how deep a field nests
  MaxFields      \* bound: how many of them

Bytes == 0..(2 * Continue - 1)

ASSUME FramesAssumption ==
  /\ Continue \in Nat /\ Continue > 1 /\ Sign \in Nat \ {0}
  /\ FloatSize \in Nat /\ DoubleSize \in Nat
  /\ Characters \subseteq Seq(Bytes) \ {<<>>} /\ Printable \subseteq Characters
  /\ HeaderLen = 6 /\ MaxBody \in Nat /\ MaxFields \in Nat
  /\ BodyBytes \subseteq Bytes

\* What a charger can say: numbers of the width, bytes - a text or not - and
\* messages of what it can say.
ASSUME FieldsAssumption ==
  \A f \in Fields :
    /\ f.number \in Nat /\ Depth(f) \in Nat
    /\ \/ f.kind = "int" /\ f.value \in (-Sign)..(Sign - 1)
       \/ f.kind = "float" /\ f.value \in [1..FloatSize -> Bytes]
       \/ f.kind = "double" /\ f.value \in [1..DoubleSize -> Bytes]
       \/ f.kind = "bytes" /\ f.value \in Seq(Bytes)
       \/ f.kind = "fields" /\ f.value \in Seq({g \in Fields : Depth(g) < Depth(f)})

VARIABLES data, message

vars == <<data, message>>

-----------------------------------------------------------------------------
(* What is left of a buffer once something is read from it.                *)

Read(value, rest) == [error |-> "none", value |-> value, rest |-> rest]
Bad(error) == [error |-> error, value |-> 0, rest |-> <<>>]

Drop(s, n) == SubSeq(s, n + 1, Len(s))
Take(s, n) == SubSeq(s, 1, IF n < Len(s) THEN n ELSE Len(s))

\* A bug: a varint that breaks off is worth what there is of it.
BrokenOffIsZero == Read(0, <<>>)

BrokenOff == Bad("FrameError")

\* _varint: of any width, the lowest digits first.
Varint[buf \in Seq(Bytes)] ==
  LET high == Varint[Tail(buf)] IN
  IF buf = <<>> THEN BrokenOff
  ELSE IF Head(buf) < Continue THEN Read(Head(buf), Tail(buf))
  ELSE IF high.error # "none" THEN high
  ELSE Read((Head(buf) - Continue) + Continue * high.value, high.rest)

\* A bug: the width is a bit too wide.
SignedTooWide(n) == IF n >= Sign THEN n - 4 * Sign ELSE n

\* Two's complement, undone once.
Signed(n) == IF n >= Sign THEN n - 2 * Sign ELSE n

\* Whether the bytes are one of `chars` after another.
Spelled(raw, chars) ==
  LET From[i \in 1..(Len(raw) + 1)] ==
        \/ i = Len(raw) + 1
        \/ \E c \in chars :
             LET next == i + Len(c) IN
             next <= Len(raw) + 1 /\ SubSeq(raw, i, next - 1) = c /\ From[next]
  IN  From[1]

IsPrintable(raw) == Spelled(raw, Printable)
IsUTF8(raw) == Spelled(raw, Characters)

\* A bug: bytes too few for a number inside are not expected.
LengthDelimitedRaising(raw, inside, rest) ==
  IF IsPrintable(raw) THEN Read(<<"text", raw>>, rest)
  ELSE IF inside.error = "none" THEN Read(<<"fields", inside.fields>>, rest)
  ELSE IF inside.error = "struct.error" THEN Bad(inside.error)
  ELSE Read(<<IF IsUTF8(raw) THEN "text" ELSE "bytes", raw>>, rest)

\* _length_delimited: text if it is printable, else fields if it is any
\* (`inside` is what decode_protobuf makes of it), else text or bytes.
LengthDelimited(raw, inside, rest) ==
  IF IsPrintable(raw) THEN Read(<<"text", raw>>, rest)
  ELSE IF inside.error = "none" THEN Read(<<"fields", inside.fields>>, rest)
  ELSE Read(<<IF IsUTF8(raw) THEN "text" ELSE "bytes", raw>>, rest)

Whole(buf) ==
  LET n == Varint[buf] IN
  IF n.error = "none" THEN Read(<<"int", Signed(n.value)>>, n.rest) ELSE n

\* struct.unpack_from
Fixed(buf, kind, size) ==
  IF Len(buf) < size THEN Bad("struct.error") ELSE Read(<<kind, Take(buf, size)>>, Drop(buf, size))

\* A length that overruns the buffer is cut short by the slice.
Delimited(buf, decode) ==
  LET n   == Varint[buf]
      raw == Take(n.rest, n.value) IN
  IF n.error = "none" THEN LengthDelimited(raw, decode[raw], Drop(n.rest, n.value)) ELSE n

\* A bug: a field that is repeated keeps its first value.
FirstWins(number, value, later) ==
  [n \in DOMAIN later \cup {number} |-> IF n = number THEN value ELSE later[n]]

Assigned(number, value, later) ==
  [n \in DOMAIN later \cup {number} |-> IF n \in DOMAIN later THEN later[n] ELSE value]

\* The field after a key, by its wire type.
OneField(wire, buf, decode) ==
  CASE wire = 0 -> Whole(buf)
    [] wire = 1 -> Fixed(buf, "double", DoubleSize)
    [] wire = 2 -> Delimited(buf, decode)
    [] wire = 5 -> Fixed(buf, "float", FloatSize)
    [] OTHER    -> Bad("FrameError")

Decoded(fields) == [error |-> "none", fields |-> fields]

\* decode_protobuf: the fields by their numbers, or an error.
Decode[buf \in Seq(Bytes)] ==
  LET key   == Varint[buf]
      field == IF key.error = "none" THEN OneField(key.value % 8, key.rest, Decode) ELSE key
      later == Decode[field.rest] IN
  IF buf = <<>> THEN Decoded(<<>>)
  ELSE IF field.error # "none" THEN [error |-> field.error, fields |-> <<>>]
  ELSE IF later.error # "none" THEN later
  ELSE Decoded(Assigned(key.value \div 8, field.value, later.fields))

-----------------------------------------------------------------------------
(* The frame.                                                              *)

Absent == -1

Declared(d) == d[5] * 2 * Continue + d[6]

\* declared_length
DeclaredLength(d) == IF Len(d) < HeaderLen THEN Absent ELSE Declared(d)

Frame(d) ==
  LET body == Decode[Drop(d, HeaderLen)] IN
  [is |-> IF body.error = "none" THEN "Frame" ELSE body.error,
   type |-> IF d[2] \in Types THEN d[2] ELSE Absent, fields |-> body.fields]

Raised(error) == [is |-> error, type |-> Absent, fields |-> <<>>]

\* A bug: a length that is not as declared is looked at before one too short.
ParseMismatchFirst(d) ==
  IF Len(d) < HeaderLen THEN Raised("IncompleteFrame")
  ELSE IF d[1] # 0 \/ Declared(d) # Len(d) THEN Raised("FrameError")
  ELSE Frame(d)

\* parse_response
ParseResponse(d) ==
  IF Len(d) < HeaderLen THEN Raised("IncompleteFrame")
  ELSE IF d[1] # 0 THEN Raised("FrameError")
  ELSE IF Len(d) < Declared(d) THEN Raised("IncompleteFrame")
  ELSE IF Len(d) # Declared(d) THEN Raised("FrameError")
  ELSE Frame(d)

-----------------------------------------------------------------------------
(* What a charger writes: a field is a number, a kind and a value, which   *)
(* of a nested message is again fields.                                    *)

EncodedVarint[n \in Nat] ==
  IF n < Continue THEN <<n>> ELSE <<Continue + (n % Continue)>> \o EncodedVarint[n \div Continue]

WireType == [int |-> 0, double |-> 1, bytes |-> 2, fields |-> 2, float |-> 5]

EncodedField(f, content) ==
  EncodedVarint[8 * f.number + WireType[f.kind]]
    \o CASE f.kind = "int" -> EncodedVarint[IF content < 0 THEN content + 2 * Sign ELSE content]
         [] f.kind \in {"bytes", "fields"} -> EncodedVarint[Len(content)] \o content
         [] OTHER -> content

Concatenated[parts \in Seq(Seq(Bytes))] ==
  IF parts = <<>> THEN <<>> ELSE Head(parts) \o Concatenated[Tail(parts)]

EncodedAs(content, fields) ==
  Concatenated[[i \in DOMAIN fields |-> EncodedField(fields[i], content[fields[i]])]]

\* What a field carries.
Content[f \in Fields] == IF f.kind = "fields" THEN EncodedAs(Content, f.value) ELSE f.value

Encoded(fields) == EncodedAs(Content, fields)

-----------------------------------------------------------------------------
Receive(b) ==
  /\ message = <<>>
  /\ Len(data) < HeaderLen + MaxBody
  /\ DeclaredLength(data) = Absent \/ Len(data) < DeclaredLength(data)
  /\ b \in IF Len(data) < HeaderLen THEN HeaderBytes[Len(data) + 1] ELSE BodyBytes
  /\ data' = Append(data, b)
  /\ UNCHANGED message

Add(f) ==
  /\ data = <<>>
  /\ Len(message) < MaxFields
  /\ message' = Append(message, f)
  /\ UNCHANGED data

Init == data = <<>> /\ message = <<>>

Next == \/ \E b \in Bytes : Receive(b)
        \/ \E f \in Fields : Add(f)

Spec == Init /\ [][Next]_vars

-----------------------------------------------------------------------------
Kinds == {"int", "double", "float", "text", "fields", "bytes"}

\* A whole number is never below the least a signed one of its width can be:
\* the sign is undone once, and a varint wider than that stays positive.
TypeOK ==
  /\ data \in Seq(Bytes)
  /\ message \in Seq(Fields)
  /\ LET fields == ParseResponse(data).fields IN
     \A n \in DOMAIN fields :
       fields[n][1] \in Kinds /\ (fields[n][1] = "int" => fields[n][2] >= -Sign)

\* "Read more" and "give up" are told apart: of a frame that has come whole,
\* every part was incomplete, and short of exactly what declared_length says;
\* a byte more makes it no frame.
Reassembles ==
  Len(data) >= HeaderLen /\ data[1] = 0 /\ Declared(data) = Len(data) =>
    /\ ParseResponse(data).is # "IncompleteFrame"
    /\ \A n \in 0..(Len(data) - 1) :
         LET part == Take(data, n) IN
         /\ ParseResponse(part).is = "IncompleteFrame"
         /\ DeclaredLength(part) \in {Absent, Len(data)}
    /\ \A b \in BodyBytes : ParseResponse(Append(data, b)).is = "FrameError"

\* A field of a frame keeps its bytes to itself: whatever they are - a number
\* broken off, a wire type there is none of - the frame around it is read.
OpaqueFieldsDecode ==
  LET raw == Drop(data, HeaderLen) IN
  Decode[EncodedVarint[8 + 2] \o EncodedVarint[Len(raw)] \o raw].error = "none"

Numbers(fields) == {fields[i].number : i \in DOMAIN fields}

\* Of a field that is repeated the last is read.
Last(fields, n) ==
  fields[CHOOSE i \in DOMAIN fields :
    fields[i].number = n /\ \A j \in DOMAIN fields : j > i => fields[j].number # n]

MeantAs(as, fields) == [n \in Numbers(fields) |-> as[Last(fields, n)]]

\* Bytes that are no printable text have no name of their own on the wire: they
\* are fields if they can be read as such.
LooksLike(raw) ==
  IF Decode[raw].error = "none" THEN <<"fields", Decode[raw].fields>>
  ELSE <<IF IsUTF8(raw) THEN "text" ELSE "bytes", raw>>

\* What a field of a message is read as: a nested message is, unless its bytes
\* happen to be printable, in which case it cannot be told from a text.
ReadAs[f \in Fields] ==
  IF f.kind \notin {"bytes", "fields"} THEN <<f.kind, f.value>>
  ELSE IF IsPrintable(Content[f]) THEN <<"text", Content[f]>>
  ELSE IF f.kind = "fields" THEN <<"fields", MeantAs(ReadAs, f.value)>>
  ELSE LooksLike(f.value)

Meant(fields) == MeantAs(ReadAs, fields)

\* What a charger says is what is read: negative numbers at the ends of their
\* width, repeated fields, text of more than ASCII, and messages nested in each
\* other, as far as what they look like allows.
RoundTrip == Decode[Encoded(message)] = Decoded(Meant(message))

\* A body cut short anywhere is an error, or the fields before the cut are
\* read as they are, and at most the one it goes through, if it has a length,
\* is not - for a length that overruns the body is let pass.
CutIsContained ==
  \A n \in 0..Len(Encoded(message)) :
    LET cut == Decode[Take(Encoded(message), n)] IN
    cut.error = "none" =>
      \E k \in 0..Len(message) :
        LET before == Meant(Take(message, k)) IN
        \/ cut.fields = before
        \/ /\ k < Len(message) /\ message[k + 1].kind \in {"bytes", "fields"}
           /\ DOMAIN cut.fields = DOMAIN before \cup {message[k + 1].number}
           /\ \A m \in DOMAIN before \ {message[k + 1].number} : cut.fields[m] = before[m]

=============================================================================
