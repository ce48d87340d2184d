---------------------------- MODULE FramesProofs ----------------------------
(***************************************************************************)
(* What the decoder does to every sequence of bytes, and to every message  *)
(* a charger encodes: the invariants of Frames, for all its constants.     *)
(***************************************************************************)
EXTENDS Frames, SequenceTheorems, TLAPS

-----------------------------------------------------------------------------
(* Remainders and buffers.                                                 *)

\* A number of more than one digit is its last digit and fewer others.
LEMMA Digits ==
  ASSUME NEW n \in Nat
  PROVE  /\ n \div Continue \in Nat
         /\ n % Continue \in 0..(Continue - 1)
         /\ n = (n % Continue) + Continue * (n \div Continue)
         /\ n >= Continue => n \div Continue < n
<1>1. Continue \in Nat /\ Continue > 1
  BY FramesAssumption
<1>2. n % Continue \in 0..(Continue - 1) /\ n \div Continue \in Int
  BY <1>1
<1>3. n = Continue * (n \div Continue) + (n % Continue)
  BY <1>1
<1>. DEFINE q == n \div Continue
            r == n % Continue
<1>4. q \in Int /\ r \in Int /\ 0 <= r /\ r < Continue /\ n = Continue * q + r
  BY <1>1, <1>2, <1>3
<1>. HIDE DEF q, r
<1>5. q >= 0
  <2>. SUFFICES ASSUME q <= -1 PROVE FALSE
    BY <1>4
  <2>1. Continue * q <= -Continue
    BY <1>1, <1>4
  <2>2. QED
    BY <1>1, <1>4, <2>1
<1>6. ASSUME n >= Continue PROVE q < n
  <2>. SUFFICES ASSUME q >= n PROVE FALSE
    BY <1>4
  <2>1. Continue * q >= 2 * q
    BY <1>1, <1>4, <1>5
  <2>2. QED
    BY <1>1, <1>4, <1>6, <2>1
<1>7. q \in Nat /\ r \in 0..(Continue - 1) /\ n = r + Continue * q /\ (n >= Continue => q < n)
  BY <1>1, <1>4, <1>5, <1>6
<1>8. QED
  BY <1>7 DEF q, r

LEMMA BytesType == Bytes \subseteq Nat
BY FramesAssumption DEF Bytes

LEMMA HeadTail ==
  ASSUME NEW A, NEW s \in Seq(A), s # <<>>
  PROVE  /\ Head(s) \in A
         /\ Tail(s) \in Seq(A)
         /\ Len(s) \in Nat /\ Len(Tail(s)) \in Nat
         /\ Len(Tail(s)) = Len(s) - 1
         /\ Len(Tail(s)) < Len(s)
         /\ Head(s) = s[1]
BY HeadTailProperties, LenProperties

\* What is taken and what is dropped are a buffer together.
LEMMA TakeDrop ==
  ASSUME NEW A, NEW s \in Seq(A), NEW n \in Nat
  PROVE  /\ Take(s, n) \in Seq(A)
         /\ Drop(s, n) \in Seq(A)
         /\ Len(Take(s, n)) = IF n < Len(s) THEN n ELSE Len(s)
         /\ Len(Drop(s, n)) = IF n < Len(s) THEN Len(s) - n ELSE 0
         /\ \A i \in 1..Len(Take(s, n)) : Take(s, n)[i] = s[i]
         /\ \A i \in 1..Len(Drop(s, n)) : Drop(s, n)[i] = s[n + i]
<1>1. Len(s) \in Nat /\ \A i \in 1..Len(s) : s[i] \in A
  BY LenProperties
<1>. DEFINE m == IF n < Len(s) THEN n ELSE Len(s)
<1>2. m \in Nat /\ m <= Len(s)
  BY <1>1
<1>3. \A i \in 1..m : s[i] \in A
  BY <1>1, <1>2
<1>. HIDE DEF m
<1>4. /\ SubSeq(s, 1, m) \in Seq(A)
      /\ Len(SubSeq(s, 1, m)) = IF 1 <= m THEN m - 1 + 1 ELSE 0
      /\ \A i \in 1..(m - 1 + 1) : SubSeq(s, 1, m)[i] = s[1 + i - 1]
  BY <1>2, <1>3, SubSeqProperties
<1>5. Take(s, n) = SubSeq(s, 1, m)
  BY DEF Take, m
<1>6. \A i \in (n + 1)..Len(s) : s[i] \in A
  BY <1>1
<1>7. /\ SubSeq(s, n + 1, Len(s)) \in Seq(A)
      /\ Len(SubSeq(s, n + 1, Len(s))) = IF n + 1 <= Len(s) THEN Len(s) - (n + 1) + 1 ELSE 0
      /\ \A i \in 1..(Len(s) - (n + 1) + 1) : SubSeq(s, n + 1, Len(s))[i] = s[n + 1 + i - 1]
  BY <1>1, <1>6, SubSeqProperties
<1>8. Take(s, n) \in Seq(A) /\ Len(Take(s, n)) = m
  BY <1>2, <1>4, <1>5
<1>9. \A i \in 1..m : Take(s, n)[i] = s[i]
  BY <1>2, <1>4, <1>5
<1>10. Drop(s, n) \in Seq(A) /\ Len(Drop(s, n)) = IF n < Len(s) THEN Len(s) - n ELSE 0
  BY <1>1, <1>7 DEF Drop
<1>11. \A i \in 1..Len(Drop(s, n)) : Drop(s, n)[i] = s[n + i]
  <2>1. TAKE i \in 1..Len(Drop(s, n))
  <2>2. i \in 1..(Len(s) - (n + 1) + 1)
    BY <1>1, <1>10
  <2>3. QED
    BY <1>7, <2>2 DEF Drop
<1>12. QED
  BY <1>8, <1>9, <1>10, <1>11 DEF m

-----------------------------------------------------------------------------
(* The recursive functions are what they are defined to be.                *)

VarintBody(f, buf) ==
  IF buf = <<>> THEN BrokenOff
  ELSE IF Head(buf) < Continue THEN Read(Head(buf), Tail(buf))
  ELSE IF f[Tail(buf)].error # "none" THEN f[Tail(buf)]
  ELSE Read((Head(buf) - Continue) + Continue * f[Tail(buf)].value, f[Tail(buf)].rest)

OfVarint == INSTANCE Recursion WITH S <- Seq(Bytes), Size <- Len, Body <- VarintBody

LEMMA VarintFunction == Varint = [buf \in Seq(Bytes) |-> VarintBody(Varint, buf)]
<1>1. OfVarint!Sized
  BY LenProperties DEF OfVarint!Sized
<1>2. OfVarint!Depends
  BY HeadTail DEF OfVarint!Depends, VarintBody
<1>3. \E f : f = [buf \in Seq(Bytes) |-> VarintBody(f, buf)]
  BY <1>1, <1>2, OfVarint!Exists
<1>4. Varint = CHOOSE f : f = [buf \in Seq(Bytes) |-> VarintBody(f, buf)]
  BY DEF Varint, VarintBody
<1>5. QED
  BY <1>3, <1>4

LEMMA VarintDef ==
  ASSUME NEW buf \in Seq(Bytes)
  PROVE  Varint[buf] = VarintBody(Varint, buf)
BY VarintFunction

EncodedVarintBody(f, n) ==
  IF n < Continue THEN <<n>> ELSE <<Continue + (n % Continue)>> \o f[n \div Continue]

Itself(n) == n

OfEncodedVarint ==
  INSTANCE Recursion WITH S <- Nat, Size <- Itself, Body <- EncodedVarintBody

LEMMA EncodedVarintDef ==
  ASSUME NEW n \in Nat
  PROVE  EncodedVarint[n] = EncodedVarintBody(EncodedVarint, n)
<1>1. OfEncodedVarint!Sized
  BY DEF OfEncodedVarint!Sized, Itself
<1>2. OfEncodedVarint!Depends
  <2>1. Continue \in Nat /\ \A x \in Nat : x >= Continue => x \div Continue \in Nat /\ x \div Continue < x
    BY Digits, FramesAssumption
  <2>2. QED
    BY <2>1 DEF OfEncodedVarint!Depends, EncodedVarintBody, Itself
<1>3. \E f : f = [x \in Nat |-> EncodedVarintBody(f, x)]
  BY <1>1, <1>2, OfEncodedVarint!Exists
<1>4. EncodedVarint = CHOOSE f : f = [x \in Nat |-> EncodedVarintBody(f, x)]
  BY DEF EncodedVarint, EncodedVarintBody
<1>5. EncodedVarint = [x \in Nat |-> EncodedVarintBody(EncodedVarint, x)]
  BY <1>3, <1>4
<1>6. QED
  BY <1>5

ConcatenatedBody(f, parts) == IF parts = <<>> THEN <<>> ELSE Head(parts) \o f[Tail(parts)]

OfConcatenated ==
  INSTANCE Recursion WITH S <- Seq(Seq(Bytes)), Size <- Len, Body <- ConcatenatedBody

LEMMA ConcatenatedDef ==
  ASSUME NEW parts \in Seq(Seq(Bytes))
  PROVE  Concatenated[parts] = ConcatenatedBody(Concatenated, parts)
<1>1. OfConcatenated!Sized
  BY LenProperties DEF OfConcatenated!Sized
<1>2. OfConcatenated!Depends
  BY HeadTail DEF OfConcatenated!Depends, ConcatenatedBody
<1>3. \E f : f = [x \in Seq(Seq(Bytes)) |-> ConcatenatedBody(f, x)]
  BY <1>1, <1>2, OfConcatenated!Exists
<1>4. Concatenated = CHOOSE f : f = [x \in Seq(Seq(Bytes)) |-> ConcatenatedBody(f, x)]
  BY DEF Concatenated, ConcatenatedBody
<1>5. Concatenated = [x \in Seq(Seq(Bytes)) |-> ConcatenatedBody(Concatenated, x)]
  BY <1>3, <1>4
<1>6. QED
  BY <1>5

-----------------------------------------------------------------------------
(* What one read leaves.                                                   *)

VarintReads(buf) ==
  /\ Varint[buf].error \in {"none", "FrameError"}
  /\ Varint[buf].value \in Nat
  /\ Varint[buf].rest \in Seq(Bytes)
  /\ Varint[buf].error = "none" => Len(Varint[buf].rest) < Len(buf)

\* A varint is a natural number, and takes at least a byte.
LEMMA VarintType ==
  ASSUME NEW buf \in Seq(Bytes)
  PROVE  VarintReads(buf)
<1>. DEFINE T == {b \in Seq(Bytes) : VarintReads(b)}
<1>1. ASSUME NEW b \in Seq(Bytes),
             \A y \in Seq(Bytes) : Len(y) < Len(b) => y \in T
      PROVE  VarintReads(b)
  <2>1. CASE b = <<>>
    <3>1. Varint[b] = Bad("FrameError")
      BY <2>1, VarintDef DEF VarintBody, BrokenOff
    <3>2. QED
      BY <3>1, EmptySeq DEF VarintReads, Bad
  <2>2. CASE b # <<>> /\ Head(b) < Continue
    <3>1. Varint[b] = Read(Head(b), Tail(b))
      BY <2>2, VarintDef DEF VarintBody
    <3>2. Head(b) \in Nat /\ Tail(b) \in Seq(Bytes) /\ Len(Tail(b)) < Len(b)
      BY <2>2, HeadTail, BytesType
    <3>3. QED
      BY <3>1, <3>2 DEF VarintReads, Read
  <2>3. CASE b # <<>> /\ ~(Head(b) < Continue)
    <3>. DEFINE high == Varint[Tail(b)]
    <3>0. Head(b) \in Nat
      BY <2>3, HeadTail, BytesType
    <3>1. Head(b) \in Nat /\ Head(b) >= Continue /\ Continue \in Nat
      BY <2>3, <3>0, FramesAssumption
    <3>2. /\ Tail(b) \in Seq(Bytes) /\ Len(Tail(b)) < Len(b)
          /\ Len(Tail(b)) \in Nat /\ Len(b) \in Nat
      BY <2>3, HeadTail
    <3>3. VarintReads(Tail(b))
      BY <1>1, <3>2
    <3>4. high.value \in Nat /\ high.rest \in Seq(Bytes) /\ Len(high.rest) \in Nat
      BY <3>3, LenProperties DEF VarintReads
    <3>5. CASE high.error # "none"
      <4>1. Varint[b] = high
        BY <2>3, <3>5, VarintDef DEF VarintBody
      <4>. HIDE DEF high
      <4>2. QED
        BY <4>1, <3>3, <3>4, <3>5 DEF VarintReads, high
    <3>6. CASE high.error = "none"
      <4>1. Varint[b] = Read((Head(b) - Continue) + Continue * high.value, high.rest)
        BY <2>3, <3>6, VarintDef DEF VarintBody
      <4>2. Len(high.rest) < Len(b)
        BY <3>2, <3>3, <3>4, <3>6 DEF VarintReads
      <4>3. (Head(b) - Continue) + Continue * high.value \in Nat
        <5>. HIDE DEF high
        <5>1. Continue * high.value \in Nat
          BY <3>1, <3>4
        <5>2. Head(b) - Continue \in Nat
          BY <3>1
        <5>. QED
          BY <5>1, <5>2
      <4>4. QED
        BY <4>1, <4>2, <4>3, <3>4 DEF VarintReads, Read
    <3>7. QED
      BY <3>5, <3>6
  <2>4. QED
    BY <2>1, <2>2, <2>3
<1>2. \A b \in Seq(Bytes) : (\A y \in Seq(Bytes) : Len(y) < Len(b) => y \in T) => b \in T
  BY <1>1
<1>3. OfVarint!Sized
  BY LenProperties DEF OfVarint!Sized
<1>4. \A b \in Seq(Bytes) : b \in T
  <2>. HIDE DEF T
  <2>. QED
    BY <1>2, <1>3, OfVarint!Induction
<1>5. QED
  BY <1>4

FieldReads(o, buf) ==
  /\ o.error \in {"none", "FrameError", "struct.error"}
  /\ o.error = "none" =>
       /\ o.rest \in Seq(Bytes) /\ Len(o.rest) <= Len(buf)
       /\ o.value[1] \in Kinds /\ (o.value[1] = "int" => o.value[2] >= -Sign)

LEMMA WholeType ==
  ASSUME NEW buf \in Seq(Bytes)
  PROVE  FieldReads(Whole(buf), buf)
<1>1. VarintReads(buf)
  BY VarintType
<1>2. CASE Varint[buf].error = "none"
  <2>1. Whole(buf) = Read(<<"int", Signed(Varint[buf].value)>>, Varint[buf].rest)
    BY <1>2 DEF Whole
  <2>2. Signed(Varint[buf].value) >= -Sign
    BY <1>1, FramesAssumption DEF VarintReads, Signed
  <2>3. Len(Varint[buf].rest) \in Nat /\ Len(buf) \in Nat /\ Len(Varint[buf].rest) <= Len(buf)
    BY <1>1, <1>2, LenProperties DEF VarintReads
  <2>4. QED
    BY <2>1, <2>2, <2>3, <1>1 DEF FieldReads, Read, Kinds, VarintReads
<1>3. CASE Varint[buf].error # "none"
  BY <1>1, <1>3 DEF Whole, FieldReads, VarintReads
<1>4. QED
  BY <1>2, <1>3

LEMMA FixedType ==
  ASSUME NEW buf \in Seq(Bytes), NEW size \in Nat, NEW kind \in {"float", "double"}
  PROVE  FieldReads(Fixed(buf, kind, size), buf)
<1>1. Drop(buf, size) \in Seq(Bytes) /\ Len(Drop(buf, size)) <= Len(buf)
  BY TakeDrop, LenProperties
<1>2. QED
  BY <1>1 DEF FieldReads, Fixed, Read, Bad, Kinds

LEMMA LengthDelimitedType ==
  ASSUME NEW raw \in Seq(Bytes), NEW inside, NEW rest
  PROVE  /\ LengthDelimited(raw, inside, rest).error = "none"
         /\ LengthDelimited(raw, inside, rest).rest = rest
         /\ LengthDelimited(raw, inside, rest).value[1] \in {"text", "fields", "bytes"}
BY DEF LengthDelimited, Read

LEMMA DelimitedType ==
  ASSUME NEW buf \in Seq(Bytes), NEW decode
  PROVE  FieldReads(Delimited(buf, decode), buf)
<1>. DEFINE n == Varint[buf]
            raw == Take(n.rest, n.value)
            rest == Drop(n.rest, n.value)
<1>1. VarintReads(buf)
  BY VarintType
<1>2. CASE n.error = "none"
  <2>1. n.rest \in Seq(Bytes) /\ n.value \in Nat /\ Len(n.rest) < Len(buf)
    BY <1>1, <1>2 DEF VarintReads
  <2>2. raw \in Seq(Bytes) /\ rest \in Seq(Bytes) /\ Len(rest) <= Len(n.rest)
    BY <2>1, TakeDrop, LenProperties
  <2>3. Len(rest) <= Len(buf)
    BY <2>1, <2>2, LenProperties
  <2>4. Delimited(buf, decode) = LengthDelimited(raw, decode[raw], rest)
    BY <1>2 DEF Delimited
  <2>. HIDE DEF n, raw, rest
  <2>5. QED
    BY <2>2, <2>3, <2>4, LengthDelimitedType DEF FieldReads, Kinds
<1>3. CASE n.error # "none"
  BY <1>1, <1>3 DEF Delimited, FieldReads, VarintReads
<1>4. QED
  BY <1>2, <1>3

\* A field is of a kind there is, and does not give back more than it got.
LEMMA OneFieldType ==
  ASSUME NEW wire, NEW buf \in Seq(Bytes), NEW decode
  PROVE  FieldReads(OneField(wire, buf, decode), buf)
<1>1. FieldReads(Bad("FrameError"), buf)
  BY DEF FieldReads, Bad
<1>2. QED
  BY <1>1, WholeType, FixedType, DelimitedType, FramesAssumption DEF OneField

\* Of what decoding makes of the bytes, a field looks at shorter ones.
LEMMA OneFieldDepends ==
  ASSUME NEW wire, NEW buf \in Seq(Bytes), NEW g, NEW h,
         \A y \in Seq(Bytes) : Len(y) < Len(buf) => g[y] = h[y]
  PROVE  OneField(wire, buf, g) = OneField(wire, buf, h)
<1>. DEFINE n == Varint[buf]
            raw == Take(n.rest, n.value)
<1>1. ASSUME n.error = "none" PROVE g[raw] = h[raw]
  <2>1. n.rest \in Seq(Bytes) /\ n.value \in Nat /\ Len(n.rest) < Len(buf)
    BY <1>1, VarintType DEF VarintReads
  <2>2. raw \in Seq(Bytes) /\ Len(raw) <= Len(n.rest)
    BY <2>1, TakeDrop, LenProperties
  <2>3. Len(raw) < Len(buf)
    BY <2>1, <2>2, LenProperties
  <2>4. QED
    BY <2>2, <2>3
<1>2. Delimited(buf, g) = Delimited(buf, h)
  BY <1>1 DEF Delimited
<1>3. QED
  BY <1>2 DEF OneField

-----------------------------------------------------------------------------
(* Decoding.                                                               *)

FieldOf(f, buf) ==
  IF Varint[buf].error = "none" THEN OneField(Varint[buf].value % 8, Varint[buf].rest, f)
  ELSE Varint[buf]

DecodeBody(f, buf) ==
  IF buf = <<>> THEN Decoded(<<>>)
  ELSE IF FieldOf(f, buf).error # "none" THEN [error |-> FieldOf(f, buf).error, fields |-> <<>>]
  ELSE IF f[FieldOf(f, buf).rest].error # "none" THEN f[FieldOf(f, buf).rest]
  ELSE Decoded(Assigned(Varint[buf].value \div 8, FieldOf(f, buf).value,
                        f[FieldOf(f, buf).rest].fields))

\* A key and a field take at least a byte.
LEMMA FieldOfType ==
  ASSUME NEW buf \in Seq(Bytes), NEW f
  PROVE  /\ FieldOf(f, buf).error \in {"none", "FrameError", "struct.error"}
         /\ FieldOf(f, buf).error = "none" =>
              /\ FieldOf(f, buf).rest \in Seq(Bytes)
              /\ Len(FieldOf(f, buf).rest) < Len(buf)
              /\ FieldOf(f, buf).value[1] \in Kinds
              /\ FieldOf(f, buf).value[1] = "int" => FieldOf(f, buf).value[2] >= -Sign
<1>1. VarintReads(buf)
  BY VarintType
<1>2. CASE Varint[buf].error = "none"
  <2>. DEFINE o == OneField(Varint[buf].value % 8, Varint[buf].rest, f)
  <2>1. Varint[buf].rest \in Seq(Bytes) /\ Len(Varint[buf].rest) < Len(buf)
    BY <1>1, <1>2 DEF VarintReads
  <2>2. FieldReads(o, Varint[buf].rest)
    BY <2>1, OneFieldType
  <2>3. FieldOf(f, buf) = o
    BY <1>2 DEF FieldOf
  <2>. HIDE DEF o
  <2>4. o.error = "none" => Len(o.rest) < Len(buf)
    BY <2>1, <2>2, LenProperties DEF FieldReads
  <2>5. QED
    BY <2>2, <2>3, <2>4 DEF FieldReads
<1>3. CASE Varint[buf].error # "none"
  BY <1>1, <1>3 DEF FieldOf, VarintReads
<1>4. QED
  BY <1>2, <1>3

OfDecode == INSTANCE Recursion WITH S <- Seq(Bytes), Size <- Len, Body <- DecodeBody

LEMMA DecodeDepends ==
  ASSUME NEW g, NEW h, NEW buf \in Seq(Bytes),
         \A y \in Seq(Bytes) : Len(y) < Len(buf) => g[y] = h[y]
  PROVE  DecodeBody(g, buf) = DecodeBody(h, buf)
<1>1. FieldOf(g, buf) = FieldOf(h, buf)
  <2>. SUFFICES ASSUME Varint[buf].error = "none"
                PROVE  OneField(Varint[buf].value % 8, Varint[buf].rest, g)
                         = OneField(Varint[buf].value % 8, Varint[buf].rest, h)
    BY DEF FieldOf
  <2>1. Varint[buf].rest \in Seq(Bytes) /\ Len(Varint[buf].rest) < Len(buf)
    BY VarintType DEF VarintReads
  <2>2. \A y \in Seq(Bytes) : Len(y) < Len(Varint[buf].rest) => g[y] = h[y]
    BY <2>1, LenProperties
  <2>3. QED
    BY <2>1, <2>2, OneFieldDepends
<1>2. FieldOf(g, buf).error = "none" => g[FieldOf(g, buf).rest] = h[FieldOf(g, buf).rest]
  BY FieldOfType
<1>3. QED
  BY <1>1, <1>2 DEF DecodeBody

LEMMA DecodeDef ==
  ASSUME NEW buf \in Seq(Bytes)
  PROVE  Decode[buf] = DecodeBody(Decode, buf)
<1>1. OfDecode!Sized
  BY LenProperties DEF OfDecode!Sized
<1>2. OfDecode!Depends
  BY DecodeDepends DEF OfDecode!Depends
<1>3. \E f : f = [x \in Seq(Bytes) |-> DecodeBody(f, x)]
  BY <1>1, <1>2, OfDecode!Exists
<1>4. Decode = CHOOSE f : f = [x \in Seq(Bytes) |-> DecodeBody(f, x)]
  BY DEF Decode, DecodeBody, FieldOf
<1>5. Decode = [x \in Seq(Bytes) |-> DecodeBody(Decode, x)]
  BY <1>3, <1>4
<1>6. QED
  BY <1>5
\* Whatever the bytes are, decoding ends in fields of the kinds there are, or
\* in one of two errors.
LEMMA DecodeType ==
  ASSUME NEW buf \in Seq(Bytes)
  PROVE  /\ Decode[buf].error \in {"none", "FrameError", "struct.error"}
         /\ \A n \in DOMAIN Decode[buf].fields :
              /\ Decode[buf].fields[n][1] \in Kinds
              /\ Decode[buf].fields[n][1] = "int" => Decode[buf].fields[n][2] >= -Sign
<1>. DEFINE Typed(d) ==
              /\ d.error \in {"none", "FrameError", "struct.error"}
              /\ \A n \in DOMAIN d.fields :
                   d.fields[n][1] \in Kinds /\ (d.fields[n][1] = "int" => d.fields[n][2] >= -Sign)
            T == {b \in Seq(Bytes) : Typed(Decode[b])}
<1>1. ASSUME NEW b \in Seq(Bytes),
             \A y \in Seq(Bytes) : Len(y) < Len(b) => y \in T
      PROVE  Typed(Decode[b])
  <2>. DEFINE field == FieldOf(Decode, b)
              later == Decode[field.rest]
  <2>1. Decode[b] = DecodeBody(Decode, b)
    BY DecodeDef
  <2>2. CASE b = <<>>
    BY <2>1, <2>2 DEF DecodeBody, Decoded
  <2>3. CASE b # <<>> /\ field.error # "none"
    <3>1. Decode[b] = [error |-> field.error, fields |-> <<>>]
      BY <2>1, <2>3 DEF DecodeBody
    <3>2. field.error \in {"none", "FrameError", "struct.error"}
      BY FieldOfType
    <3>. HIDE DEF field
    <3>3. QED
      BY <3>1, <3>2
  <2>4. CASE b # <<>> /\ field.error = "none"
    <3>1. /\ field.rest \in Seq(Bytes) /\ Len(field.rest) < Len(b)
          /\ field.value[1] \in Kinds /\ (field.value[1] = "int" => field.value[2] >= -Sign)
      BY <2>4, FieldOfType
    <3>2. Typed(later)
      BY <1>1, <3>1
    <3>3. CASE later.error # "none"
      BY <2>1, <2>4, <3>2, <3>3 DEF DecodeBody
    <3>4. CASE later.error = "none"
      <4>. DEFINE number == Varint[b].value \div 8
      <4>1. Decode[b] = Decoded(Assigned(number, field.value, later.fields))
        BY <2>1, <2>4, <3>4 DEF DecodeBody
      <4>. HIDE DEF field, later, number
      <4>2. QED
        BY <4>1, <3>1, <3>2 DEF Decoded, Assigned
    <3>5. QED
      BY <3>3, <3>4
  <2>5. QED
    BY <2>2, <2>3, <2>4
<1>. HIDE DEF Typed
<1>2. \A b \in Seq(Bytes) : (\A y \in Seq(Bytes) : Len(y) < Len(b) => y \in T) => b \in T
  BY <1>1
<1>3. OfVarint!Sized
  BY LenProperties DEF OfVarint!Sized
<1>4. \A b \in Seq(Bytes) : b \in T
  <2>. HIDE DEF T
  <2>. QED
    BY <1>2, <1>3, OfVarint!Induction
<1>5. QED
  BY <1>4 DEF Typed

-----------------------------------------------------------------------------
(* The frame.                                                              *)

LEMMA HeaderType ==
  ASSUME NEW d \in Seq(Bytes), Len(d) >= HeaderLen
  PROVE  Declared(d) \in Nat /\ d[5] \in Nat /\ d[6] \in Nat
<1>1. Continue \in Nat /\ HeaderLen = 6 /\ Len(d) \in Nat
  BY FramesAssumption, LenProperties
<1>a. 5 \in 1..Len(d) /\ 6 \in 1..Len(d)
  BY <1>1
<1>b. d[5] \in Bytes /\ d[6] \in Bytes
  BY <1>a, ElementOfSeq
<1>2. d[5] \in Nat /\ d[6] \in Nat
  BY <1>b, BytesType
<1>3. (d[5] * 2) * Continue \in Nat
  BY <1>1, <1>2
<1>4. QED
  BY <1>2, <1>3 DEF Declared

\* What is read of a frame is of the types a frame has.
LEMMA FrameType ==
  ASSUME NEW d \in Seq(Bytes)
  PROVE  /\ Frame(d).is \in {"Frame", "FrameError", "struct.error"}
         /\ \A n \in DOMAIN Frame(d).fields :
              /\ Frame(d).fields[n][1] \in Kinds
              /\ Frame(d).fields[n][1] = "int" => Frame(d).fields[n][2] >= -Sign
<1>. DEFINE body == Drop(d, HeaderLen)
<1>1. body \in Seq(Bytes)
  BY TakeDrop, FramesAssumption
<1>2. /\ Frame(d).is = IF Decode[body].error = "none" THEN "Frame" ELSE Decode[body].error
      /\ Frame(d).fields = Decode[body].fields
  BY DEF Frame
<1>. HIDE DEF body
<1>3. QED
  BY <1>1, <1>2, DecodeType

\* The invariant in TypeOK: the rest of it says what ParseResponse does to any
\* sequence of bytes.
Received == data \in Seq(Bytes) /\ message \in Seq(Fields)

LEMMA ReceivedInvariant == Spec => []Received
<1>1. Init => Received
  BY EmptySeq DEF Init, Received
<1>2. Received /\ [Next]_vars => Received'
  <2>. SUFFICES ASSUME Received, [Next]_vars PROVE Received'
    OBVIOUS
  <2>1. ASSUME NEW b \in Bytes, Receive(b) PROVE Received'
    BY <2>1, AppendProperties DEF Receive, Received
  <2>2. ASSUME NEW f \in Fields, Add(f) PROVE Received'
    BY <2>2, AppendProperties DEF Add, Received
  <2>3. CASE UNCHANGED vars
    BY <2>3 DEF vars, Received
  <2>4. QED
    BY <2>1, <2>2, <2>3 DEF Next
<1>3. QED
  BY <1>1, <1>2, PTL DEF Spec

\* Bytes and fields are what they are, and a whole number read off a frame is
\* never below the least a signed one of its width can be: `Received`, and
\* what `decode_protobuf` makes of any bytes.
THEOREM TypeCorrect == Spec => []TypeOK
<1>1. Received => TypeOK
  <2>. SUFFICES ASSUME Received PROVE TypeOK
    OBVIOUS
  <2>1. data \in Seq(Bytes)
    BY DEF Received
  <2>. DEFINE p == ParseResponse(data)
  <2>2. p = Frame(data) \/ p.fields = <<>>
    BY DEF ParseResponse, Raised
  <2>. HIDE DEF p
  <2>3. \A n \in DOMAIN p.fields :
          p.fields[n][1] \in Kinds /\ (p.fields[n][1] = "int" => p.fields[n][2] >= -Sign)
    BY <2>1, <2>2, FrameType
  <2>4. QED
    BY <2>3 DEF TypeOK, Received, p
<1>2. QED
  BY <1>1, ReceivedInvariant, PTL

\* Of a frame that has come whole, every part was incomplete, and a byte more
\* makes it no frame: `parse_response` tells "read more" from "give up".
THEOREM FramesReassemble == Spec => []Reassembles
<1>1. Received => Reassembles
  <2>. SUFFICES ASSUME Received, Len(data) >= HeaderLen, data[1] = 0, Declared(data) = Len(data)
                PROVE  Reassembles
    BY DEF Reassembles
  <2>1. data \in Seq(Bytes) /\ HeaderLen = 6 /\ Len(data) \in Nat
    BY FramesAssumption, LenProperties DEF Received
  <2>2. ParseResponse(data) = Frame(data)
    BY <2>1 DEF ParseResponse
  <2>3. ParseResponse(data).is # "IncompleteFrame"
    BY <2>1, <2>2, FrameType
  <2>4. ASSUME NEW n \in 0..(Len(data) - 1)
        PROVE  /\ ParseResponse(Take(data, n)).is = "IncompleteFrame"
               /\ DeclaredLength(Take(data, n)) \in {Absent, Len(data)}
    <3>. DEFINE part == Take(data, n)
    <3>0. n \in Nat /\ n < Len(data)
      BY <2>1
    <3>1. /\ part \in Seq(Bytes) /\ Len(part) = n /\ n < Len(data) /\ n \in Nat
          /\ \A i \in 1..n : part[i] = data[i]
      BY <2>1, <3>0, TakeDrop
    <3>. HIDE DEF part
    <3>2. CASE n < HeaderLen
      BY <3>1, <3>2 DEF ParseResponse, DeclaredLength, Raised, part
    <3>3. CASE n >= HeaderLen
      <4>1. part[1] = data[1] /\ part[5] = data[5] /\ part[6] = data[6]
        BY <2>1, <3>1, <3>3
      <4>2. Declared(part) = Len(data)
        BY <4>1 DEF Declared
      <4>3. ~(Len(part) < HeaderLen) /\ part[1] = 0 /\ Len(part) < Declared(part)
        BY <2>1, <3>1, <3>3, <4>1, <4>2
      <4>4. QED
        BY <4>2, <4>3 DEF ParseResponse, DeclaredLength, Raised, part
    <3>4. QED
      BY <2>1, <3>1, <3>2, <3>3
  <2>5. ASSUME NEW b \in BodyBytes
        PROVE  ParseResponse(Append(data, b)).is = "FrameError"
    <3>. DEFINE more == Append(data, b)
    <3>1. /\ Len(more) = Len(data) + 1
          /\ \A i \in 1..Len(data) : more[i] = data[i]
      BY <2>1, FramesAssumption, AppendProperties
    <3>. HIDE DEF more
    <3>2. more[1] = data[1] /\ more[5] = data[5] /\ more[6] = data[6]
      BY <2>1, <3>1
    <3>3. Declared(more) = Len(data)
      BY <3>2 DEF Declared
    <3>4. /\ ~(Len(more) < HeaderLen) /\ more[1] = 0
          /\ ~(Len(more) < Declared(more)) /\ Len(more) # Declared(more)
      BY <2>1, <3>1, <3>2, <3>3
    <3>5. QED
      BY <3>4 DEF ParseResponse, Raised, more
  <2>6. QED
    BY <2>3, <2>4, <2>5 DEF Reassembles
<1>2. QED
  BY <1>1, ReceivedInvariant, PTL
-----------------------------------------------------------------------------
(* Buffers put together.                                                   *)

LEMMA TakeConcat ==
  ASSUME NEW A, NEW s \in Seq(A), NEW t \in Seq(A), NEW n \in Nat
  PROVE  Take(s \o t, n) = IF n < Len(s) THEN Take(s, n) ELSE s \o Take(t, n - Len(s))
<1>. DEFINE st == s \o t
<1>1. /\ st \in Seq(A) /\ Len(st) = Len(s) + Len(t)
      /\ \A i \in 1..(Len(s) + Len(t)) : st[i] = IF i <= Len(s) THEN s[i] ELSE t[i - Len(s)]
  BY ConcatProperties
<1>2. Len(s) \in Nat /\ Len(t) \in Nat
  BY LenProperties
<1>. HIDE DEF st
<1>3. /\ Take(st, n) \in Seq(A)
      /\ Len(Take(st, n)) = IF n < Len(st) THEN n ELSE Len(st)
      /\ \A i \in 1..Len(Take(st, n)) : Take(st, n)[i] = st[i]
  BY <1>1, TakeDrop
<1>4. CASE n < Len(s)
  <2>1. /\ Take(s, n) \in Seq(A) /\ Len(Take(s, n)) = n
        /\ \A i \in 1..n : Take(s, n)[i] = s[i]
    BY <1>4, TakeDrop
  <2>2. Len(Take(st, n)) = n
    BY <1>1, <1>2, <1>3, <1>4
  <2>3. \A i \in 1..n : Take(st, n)[i] = s[i]
    BY <1>1, <1>2, <1>3, <1>4, <2>2
  <2>4. Take(st, n) = Take(s, n)
    BY <1>3, <2>1, <2>2, <2>3, SeqEqual
  <2>5. QED
    BY <1>4, <2>4 DEF st
<1>5. CASE ~(n < Len(s))
  <2>. DEFINE k == n - Len(s)
              u == Take(t, k)
  <2>1. k \in Nat /\ n = Len(s) + k
    BY <1>2, <1>5
  <2>. HIDE DEF k
  <2>2. /\ u \in Seq(A) /\ Len(u) = IF k < Len(t) THEN k ELSE Len(t)
        /\ \A i \in 1..Len(u) : u[i] = t[i]
    BY <2>1, TakeDrop
  <2>. HIDE DEF u
  <2>3. /\ s \o u \in Seq(A) /\ Len(s \o u) = Len(s) + Len(u)
        /\ \A i \in 1..(Len(s) + Len(u)) : (s \o u)[i] = IF i <= Len(s) THEN s[i] ELSE u[i - Len(s)]
    BY <2>2, ConcatProperties
  <2>4. Len(u) \in Nat /\ Len(u) <= Len(t)
    BY <1>2, <2>1, <2>2
  <2>5. Len(Take(st, n)) = Len(s) + Len(u)
    BY <1>1, <1>2, <1>3, <2>1, <2>2
  <2>6. ASSUME NEW i \in 1..(Len(s) + Len(u)) PROVE Take(st, n)[i] = (s \o u)[i]
    <3>1. i \in 1..(Len(s) + Len(t)) /\ i \in 1..Len(Take(st, n))
      BY <1>2, <2>4, <2>5
    <3>2. Take(st, n)[i] = IF i <= Len(s) THEN s[i] ELSE t[i - Len(s)]
      BY <1>1, <1>3, <3>1
    <3>3. ~(i <= Len(s)) => i - Len(s) \in 1..Len(u)
      BY <1>2, <2>4
    <3>4. QED
      BY <2>2, <2>3, <3>2, <3>3
  <2>. DEFINE su == s \o u
  <2>7. su \in Seq(A) /\ Len(Take(st, n)) = Len(su) /\ \A i \in 1..Len(Take(st, n)) : Take(st, n)[i] = su[i]
    BY <2>3, <2>5, <2>6
  <2>. HIDE DEF su
  <2>8. Take(st, n) = su
    BY <1>3, <2>7, SeqEqual
  <2>9. QED
    BY <1>5, <2>8 DEF st, su, u, k
<1>6. QED
  BY <1>4, <1>5

LEMMA TakeAll ==
  ASSUME NEW A, NEW s \in Seq(A), NEW n \in Nat, n >= Len(s)
  PROVE  Take(s, n) = s /\ Drop(s, n) = <<>>
<1>1. Len(s) \in Nat
  BY LenProperties
<1>2. Take(s, n) = SubSeq(s, 1, Len(s))
  BY <1>1 DEF Take
<1>3. Drop(s, n) \in Seq(A) /\ Len(Drop(s, n)) = 0
  BY <1>1, TakeDrop
<1>4. Drop(s, n) = <<>>
  BY <1>3, EmptySeq
<1>5. SubSeq(s, 1, Len(s)) = s
  BY SubSeqFull
<1>6. QED
  BY <1>2, <1>4, <1>5

LEMMA TakeNone ==
  ASSUME NEW A, NEW s \in Seq(A)
  PROVE  Take(s, 0) = <<>>
<1>1. Len(s) \in Nat
  BY LenProperties
<1>2. Take(s, 0) \in Seq(A) /\ Len(Take(s, 0)) = 0
  BY <1>1, TakeDrop
<1>3. QED
  BY <1>2, EmptySeq

\* Of two buffers put together the first is taken, and the second left.
LEMMA TakeFirst ==
  ASSUME NEW A, NEW s \in Seq(A), NEW t \in Seq(A)
  PROVE  Take(s \o t, Len(s)) = s /\ Drop(s \o t, Len(s)) = t
<1>. DEFINE st == s \o t
<1>1. /\ st \in Seq(A) /\ Len(st) = Len(s) + Len(t)
      /\ \A i \in 1..(Len(s) + Len(t)) : st[i] = IF i <= Len(s) THEN s[i] ELSE t[i - Len(s)]
  BY ConcatProperties
<1>2. Len(s) \in Nat /\ Len(t) \in Nat
  BY LenProperties
<1>3. Take(st, Len(s)) = s
  <2>1. Take(st, Len(s)) = s \o Take(t, Len(s) - Len(s))
    BY <1>2, TakeConcat
  <2>2. Take(t, 0) = <<>> /\ s \o <<>> = s
    BY TakeNone, ConcatEmptySeq
  <2>3. Len(s) - Len(s) = 0
    BY <1>2
  <2>4. QED
    BY <2>1, <2>2, <2>3
<1>. HIDE DEF st
<1>4. /\ Drop(st, Len(s)) \in Seq(A)
      /\ Len(Drop(st, Len(s))) = IF Len(s) < Len(st) THEN Len(st) - Len(s) ELSE 0
      /\ \A i \in 1..Len(Drop(st, Len(s))) : Drop(st, Len(s))[i] = st[Len(s) + i]
  BY <1>1, <1>2, TakeDrop
<1>5. Len(Drop(st, Len(s))) = Len(t)
  BY <1>1, <1>2, <1>4
<1>6. ASSUME NEW i \in 1..Len(t) PROVE Drop(st, Len(s))[i] = t[i]
  <2>1. Len(s) + i \in 1..(Len(s) + Len(t)) /\ ~(Len(s) + i <= Len(s)) /\ (Len(s) + i) - Len(s) = i
    BY <1>2
  <2>2. st[Len(s) + i] = t[(Len(s) + i) - Len(s)]
    BY <1>1, <2>1
  <2>3. QED
    BY <1>4, <1>5, <2>1, <2>2
<1>. DEFINE rest == Drop(st, Len(s))
<1>7. rest \in Seq(A) /\ Len(rest) = Len(t) /\ \A i \in 1..Len(rest) : rest[i] = t[i]
  BY <1>4, <1>5, <1>6
<1>. HIDE DEF rest
<1>8. rest = t
  BY <1>7, SeqEqual
<1>9. QED
  BY <1>3, <1>8 DEF st, rest

\* A buffer of one byte and the others.
LEMMA Cons ==
  ASSUME NEW A, NEW a \in A, NEW s \in Seq(A)
  PROVE  /\ <<a>> \in Seq(A)
         /\ <<a>> \o s \in Seq(A) /\ <<a>> \o s # <<>>
         /\ Len(<<a>> \o s) = Len(s) + 1
         /\ Head(<<a>> \o s) = a
         /\ Tail(<<a>> \o s) = s
<1>1. <<a>> \in Seq(A) /\ Len(<<a>>) = 1 /\ <<a>>[1] = a
  OBVIOUS
<1>2. Len(s) \in Nat
  BY LenProperties
<1>. DEFINE one == <<a>>
            as == one \o s
<1>. HIDE DEF one
<1>3. /\ as \in Seq(A) /\ Len(as) = 1 + Len(s)
      /\ \A i \in 1..(1 + Len(s)) : as[i] = IF i <= 1 THEN one[i] ELSE s[i - 1]
  BY <1>1, ConcatProperties DEF one
<1>f. one[1] = a
  BY <1>1 DEF one
<1>. HIDE DEF as
<1>a. Len(as) # 0 /\ 1 \in 1..(1 + Len(s))
  BY <1>2, <1>3
<1>b. as # <<>>
  BY <1>a, EmptySeq
<1>c. as[1] = a
  <2>1. as[1] = IF 1 <= 1 THEN one[1] ELSE s[1 - 1]
    BY <1>3, <1>a
  <2>2. QED
    BY <2>1, <1>f
<1>4. as # <<>> /\ as[1] = a
  BY <1>b, <1>c
<1>d. Tail(as) \in Seq(A) /\ Len(Tail(as)) = Len(as) - 1 /\ Head(as) = as[1]
  BY <1>3, <1>b, HeadTail
<1>e. Len(as) = 1 + Len(s)
  BY <1>3
<1>g. Len(Tail(as)) = Len(s)
  <2>. DEFINE m == Len(Tail(as))
              k == Len(as)
  <2>1. m = k - 1 /\ k = 1 + Len(s)
    BY <1>d, <1>e
  <2>. HIDE DEF m, k
  <2>2. m = Len(s)
    BY <1>2, <2>1
  <2>3. QED
    BY <2>2 DEF m
<1>h. Head(as) = a
  BY <1>c, <1>d, Zenon
<1>5. Tail(as) \in Seq(A) /\ Len(Tail(as)) = Len(s)
  BY <1>d, <1>g, Zenon
<1>6. \A i \in 1..Len(Tail(as)) : Tail(as)[i] = as[i + 1]
  BY <1>3, <1>4, HeadTailProperties
<1>7. \A i \in 1..Len(s) : Tail(as)[i] = s[i]
  <2>1. TAKE i \in 1..Len(s)
  <2>2. i + 1 \in 1..(1 + Len(s)) /\ ~(i + 1 <= 1) /\ (i + 1) - 1 = i
    BY <1>2
  <2>3. QED
    BY <1>3, <1>5, <1>6, <2>2
<1>8. Tail(as) = s
  BY <1>5, <1>7, SeqEqual
<1>9. QED
  <2>1. as = <<a>> \o s
    BY DEF as, one
  <2>2. Len(as) = Len(s) + 1
    BY <1>2, <1>e
  <2>3. QED
    BY <1>1, <1>3, <1>4, <1>8, <1>h, <2>1, <2>2, Zenon
-----------------------------------------------------------------------------
(* What is written is what is read.                                        *)

\* What a charger writes of a number is read as that number, and what follows
\* it is left.
LEMMA VarintRoundTrip ==
  ASSUME NEW n \in Nat
  PROVE  /\ EncodedVarint[n] \in Seq(Bytes) /\ EncodedVarint[n] # <<>>
         /\ \A more \in Seq(Bytes) : Varint[EncodedVarint[n] \o more] = Read(n, more)
         /\ \A k \in Nat : k < Len(EncodedVarint[n]) =>
              Varint[Take(EncodedVarint[n], k)].error = "FrameError"
<1>. DEFINE Good(m) ==
              /\ EncodedVarint[m] \in Seq(Bytes) /\ EncodedVarint[m] # <<>>
              /\ \A more \in Seq(Bytes) : Varint[EncodedVarint[m] \o more] = Read(m, more)
              /\ \A k \in Nat : k < Len(EncodedVarint[m]) =>
                   Varint[Take(EncodedVarint[m], k)].error = "FrameError"
            T == {m \in Nat : Good(m)}
<1>0. Continue \in Nat /\ Continue > 1 /\ Bytes = 0..(2 * Continue - 1)
  BY FramesAssumption DEF Bytes
<1>a. Varint[<<>>] = VarintBody(Varint, <<>>)
  BY VarintDef, EmptySeq
<1>1. Varint[<<>>].error = "FrameError"
  BY <1>a DEF VarintBody, BrokenOff, Bad
<1>2. ASSUME NEW m \in Nat, \A x \in Nat : Itself(x) < Itself(m) => x \in T
      PROVE  Good(m)
  <2>1. CASE m < Continue
    <3>a. EncodedVarint[m] = EncodedVarintBody(EncodedVarint, m)
      BY EncodedVarintDef
    <3>b. m \in Bytes
      BY <1>0, <2>1
    <3>1. EncodedVarint[m] = <<m>> /\ m \in Bytes
      BY <2>1, <3>a, <3>b DEF EncodedVarintBody
    <3>2. <<m>> \in Seq(Bytes) /\ <<m>> # <<>> /\ Len(<<m>>) = 1
      BY <3>1
    <3>3. ASSUME NEW more \in Seq(Bytes) PROVE Varint[<<m>> \o more] = Read(m, more)
      <4>1. /\ <<m>> \o more \in Seq(Bytes) /\ <<m>> \o more # <<>>
            /\ Head(<<m>> \o more) = m /\ Tail(<<m>> \o more) = more
        BY <3>1, Cons
      <4>. DEFINE buf == <<m>> \o more
      <4>. HIDE DEF buf
      <4>2. buf \in Seq(Bytes) /\ buf # <<>> /\ Head(buf) = m /\ Tail(buf) = more
        BY <4>1 DEF buf
      <4>3. Varint[buf] = Read(m, more)
        BY <2>1, <4>2, VarintDef DEF VarintBody
      <4>4. QED
        BY <4>3 DEF buf
    <3>4. ASSUME NEW k \in Nat, k < Len(<<m>>) PROVE Varint[Take(<<m>>, k)].error = "FrameError"
      <4>1. k = 0
        BY <3>2, <3>4
      <4>2. Take(<<m>>, 0) = <<>>
        BY <3>2, TakeNone
      <4>3. QED
        BY <1>1, <4>1, <4>2
    <3>5. QED
      BY <3>1, <3>2, <3>3, <3>4
  <2>2. CASE ~(m < Continue)
    <3>. DEFINE q == m \div Continue
                r == m % Continue
                b == Continue + r
                high == EncodedVarint[q]
    <3>a. m >= Continue
      BY <1>0, <2>2
    <3>1. q \in Nat /\ r \in 0..(Continue - 1) /\ m = r + Continue * q /\ q < m
      BY <3>a, Digits
    <3>2. b \in Bytes /\ b - Continue = r /\ ~(b < Continue)
      BY <1>0, <3>1
    <3>3. EncodedVarint[m] = <<b>> \o high
      BY <2>2, EncodedVarintDef DEF EncodedVarintBody
    <3>4. Good(q)
      BY <1>2, <3>1 DEF Itself
    <3>. HIDE DEF q, r, b
    <3>5. high \in Seq(Bytes) /\ high # <<>>
      BY <3>4
    <3>6. ASSUME NEW tail \in Seq(Bytes)
          PROVE  /\ <<b>> \o tail \in Seq(Bytes)
                 /\ Varint[<<b>> \o tail]
                      = IF Varint[tail].error # "none" THEN Varint[tail]
                        ELSE Read((b - Continue) + Continue * Varint[tail].value, Varint[tail].rest)
      <4>. DEFINE buf == <<b>> \o tail
      <4>1. buf \in Seq(Bytes) /\ buf # <<>> /\ Head(buf) = b /\ Tail(buf) = tail
        BY <3>2, Cons
      <4>. HIDE DEF buf
      <4>2. Varint[buf] = VarintBody(Varint, buf)
        BY <4>1, VarintDef
      <4>3. Varint[buf] = IF Varint[tail].error # "none" THEN Varint[tail]
                          ELSE Read((b - Continue) + Continue * Varint[tail].value, Varint[tail].rest)
        BY <3>2, <4>1, <4>2 DEF VarintBody
      <4>4. QED
        BY <4>1, <4>3 DEF buf
    <3>7. ASSUME NEW more \in Seq(Bytes) PROVE Varint[EncodedVarint[m] \o more] = Read(m, more)
      <4>. DEFINE tail == high \o more
      <4>0. <<b>> \in Seq(Bytes)
        BY <3>2, Cons
      <4>1. (<<b>> \o high) \o more = <<b>> \o tail
        <5>. DEFINE one == <<b>>
        <5>1. one \in Seq(Bytes)
          BY <4>0
        <5>. HIDE DEF one, high
        <5>2. (one \o high) \o more = one \o (high \o more)
          BY <5>1, <3>5, ConcatAssociative
        <5>3. QED
          BY <5>2 DEF one
      <4>2. tail \in Seq(Bytes)
        BY <3>5, ConcatProperties
      <4>3. Varint[tail] = Read(q, more)
        BY <3>4
      <4>. HIDE DEF tail
      <4>4. Varint[<<b>> \o tail] = IF Varint[tail].error # "none" THEN Varint[tail]
                ELSE Read((b - Continue) + Continue * Varint[tail].value, Varint[tail].rest)
        BY <3>6, <4>2
      <4>a. Varint[tail].error = "none" /\ Varint[tail].value = q /\ Varint[tail].rest = more
        BY <4>3 DEF Read
      <4>5. (b - Continue) + Continue * q = m
        BY <3>1, <3>2
      <4>6. QED
        BY <3>3, <4>1, <4>4, <4>a, <4>5
    <3>8. ASSUME NEW k \in Nat, k < Len(EncodedVarint[m])
          PROVE  Varint[Take(EncodedVarint[m], k)].error = "FrameError"
      <4>1. <<b>> \in Seq(Bytes) /\ Len(<<b>>) = 1 /\ Len(<<b>> \o high) = Len(high) + 1
        BY <3>2, <3>5, Cons
      <4>2. CASE k = 0
        <5>1. <<b>> \o high \in Seq(Bytes)
          BY <3>5, <3>6
        <5>2. Take(<<b>> \o high, 0) = <<>>
          BY <5>1, TakeNone
        <5>3. QED
          BY <1>1, <3>3, <4>2, <5>2
      <4>3. CASE k # 0
        <5>1. k - 1 \in Nat /\ ~(k < 1)
          BY <4>3
        <5>2. k - 1 < Len(high)
          <6>1. Len(high) \in Nat
            BY <3>5, LenProperties
          <6>2. k < Len(high) + 1
            BY <3>3, <3>8, <4>1
          <6>3. QED
            BY <6>1, <6>2
        <5>3. Take(<<b>> \o high, k) = <<b>> \o Take(high, k - 1)
          BY <3>5, <4>1, <5>1, TakeConcat
        <5>4. Take(high, k - 1) \in Seq(Bytes)
          BY <3>5, <5>1, TakeDrop
        <5>5. Varint[Take(high, k - 1)].error = "FrameError"
          BY <3>4, <5>1, <5>2
        <5>6. Varint[<<b>> \o Take(high, k - 1)] = Varint[Take(high, k - 1)]
          BY <3>6, <5>4, <5>5
        <5>7. QED
          BY <3>3, <5>3, <5>5, <5>6
      <4>4. QED
        BY <4>2, <4>3
    <3>9. EncodedVarint[m] \in Seq(Bytes) /\ EncodedVarint[m] # <<>>
      BY <3>2, <3>3, <3>5, Cons
    <3>10. QED
      BY <3>7, <3>8, <3>9
  <2>3. QED
    BY <2>1, <2>2
<1>. HIDE DEF Good
<1>3. \A m \in Nat : (\A x \in Nat : Itself(x) < Itself(m) => x \in T) => m \in T
  BY <1>2
<1>4. OfEncodedVarint!Sized
  BY DEF OfEncodedVarint!Sized, Itself
<1>5. \A m \in Nat : m \in T
  <2>. HIDE DEF T
  <2>. QED
    BY <1>3, <1>4, OfEncodedVarint!Induction
<1>6. QED
  BY <1>5 DEF Good

\* A field is read, and then what follows it.
Then(number, value, later) ==
  IF later.error # "none" THEN later ELSE Decoded(Assigned(number, value, later.fields))

LEMMA DecodeField ==
  ASSUME NEW key \in Nat, NEW buf \in Seq(Bytes),
         NEW more \in Seq(Bytes), NEW value,
         OneField(key % 8, buf, Decode) = Read(value, more)
  PROVE  Decode[EncodedVarint[key] \o buf] = Then(key \div 8, value, Decode[more])
<1>. DEFINE all == EncodedVarint[key] \o buf
<1>2. EncodedVarint[key] \in Seq(Bytes) /\ EncodedVarint[key] # <<>> /\ Varint[all] = Read(key, buf)
  BY VarintRoundTrip
<1>3. all \in Seq(Bytes) /\ all # <<>>
  BY <1>2, ConcatProperties, ConcatSimplifications
<1>. HIDE DEF all
<1>4. FieldOf(Decode, all) = Read(value, more)
  BY <1>2 DEF FieldOf, Read
<1>a. Decode[all] = DecodeBody(Decode, all)
  BY <1>3, DecodeDef
<1>b. Varint[all].value = key
  BY <1>2 DEF Read
<1>c. /\ FieldOf(Decode, all).error = "none"
      /\ FieldOf(Decode, all).value = value
      /\ FieldOf(Decode, all).rest = more
  BY <1>4 DEF Read
<1>5. Decode[all] = Then(key \div 8, value, Decode[more])
  BY <1>a, <1>b, <1>c, <1>3 DEF DecodeBody, Then
<1>6. QED
  BY <1>5 DEF all

\* A field that fails is the end of it.
LEMMA DecodeFault ==
  ASSUME NEW key \in Nat, NEW buf \in Seq(Bytes),
         OneField(key % 8, buf, Decode).error # "none"
  PROVE  Decode[EncodedVarint[key] \o buf].error # "none"
<1>. DEFINE all == EncodedVarint[key] \o buf
<1>2. EncodedVarint[key] \in Seq(Bytes) /\ EncodedVarint[key] # <<>> /\ Varint[all] = Read(key, buf)
  BY VarintRoundTrip
<1>3. all \in Seq(Bytes) /\ all # <<>>
  BY <1>2, ConcatProperties, ConcatSimplifications
<1>. HIDE DEF all
<1>4. FieldOf(Decode, all) = OneField(key % 8, buf, Decode)
  BY <1>2 DEF FieldOf, Read
<1>a. Decode[all] = DecodeBody(Decode, all)
  BY <1>3, DecodeDef
<1>5. Decode[all].error # "none"
  BY <1>a, <1>3, <1>4 DEF DecodeBody
<1>6. QED
  BY <1>5 DEF all

\* A length and as many bytes are read as those bytes.
LEMMA DelimitedRoundTrip ==
  ASSUME NEW raw \in Seq(Bytes), NEW more \in Seq(Bytes), NEW decode
  PROVE  /\ EncodedVarint[Len(raw)] \o raw \in Seq(Bytes)
         /\ Delimited((EncodedVarint[Len(raw)] \o raw) \o more, decode)
              = LengthDelimited(raw, decode[raw], more)
<1>. DEFINE length == EncodedVarint[Len(raw)]
            buf == (length \o raw) \o more
<1>1. Len(raw) \in Nat
  BY LenProperties
<1>2. length \in Seq(Bytes) /\ \A x \in Seq(Bytes) : Varint[length \o x] = Read(Len(raw), x)
  BY <1>1, VarintRoundTrip
<1>. HIDE DEF length
<1>a. buf = length \o (raw \o more)
  BY <1>2, ConcatAssociative
<1>3. buf = length \o (raw \o more) /\ raw \o more \in Seq(Bytes) /\ length \o raw \in Seq(Bytes)
  BY <1>a, <1>2, ConcatProperties
<1>4. Varint[buf] = Read(Len(raw), raw \o more)
  BY <1>2, <1>3
<1>5. Take(raw \o more, Len(raw)) = raw /\ Drop(raw \o more, Len(raw)) = more
  BY TakeFirst
<1>. HIDE DEF buf
<1>6. Delimited(buf, decode) = LengthDelimited(raw, decode[raw], more)
  BY <1>4, <1>5 DEF Delimited, Read
<1>7. QED
  BY <1>3, <1>6 DEF buf, length

LEMMA LengthDelimitedReads ==
  ASSUME NEW raw \in Seq(Bytes), NEW inside, NEW rest
  PROVE  LengthDelimited(raw, inside, rest)
           = Read(LengthDelimited(raw, inside, rest).value, rest)
BY DEF LengthDelimited, Read

LEMMA DecodeNothing == Decode[<<>>] = Decoded(<<>>)
BY DecodeDef, EmptySeq DEF DecodeBody

\* A field keeps its bytes to itself: whatever they are - a number broken off,
\* a wire type there is none of - the frame around it is read (_length_delimited
\* falls back on text or bytes).
THEOREM FieldsAreOpaque == Spec => []OpaqueFieldsDecode
<1>1. Received => OpaqueFieldsDecode
  <2>. SUFFICES ASSUME Received PROVE OpaqueFieldsDecode
    OBVIOUS
  <2>. DEFINE raw == Drop(data, HeaderLen)
              length == EncodedVarint[Len(raw)]
  <2>1. raw \in Seq(Bytes)
    BY TakeDrop, FramesAssumption DEF Received
  <2>. HIDE DEF raw
  <2>2. length \o raw \in Seq(Bytes) /\ <<>> \in Seq(Bytes)
    BY <2>1, DelimitedRoundTrip, EmptySeq
  <2>3. (length \o raw) \o <<>> = length \o raw
    BY <2>2, ConcatEmptySeq
  <2>. DEFINE ld == LengthDelimited(raw, Decode[raw], <<>>)
  <2>4. Delimited(length \o raw, Decode) = ld
    BY <2>1, <2>2, <2>3, DelimitedRoundTrip
  <2>5. ld = Read(ld.value, <<>>)
    BY <2>1, LengthDelimitedReads
  <2>. DEFINE buf == length \o raw
              value == ld.value
              key == 8 + 2
  <2>6. key \in Nat /\ key % 8 = 2
    OBVIOUS
  <2>7. OneField(2, buf, Decode) = Read(value, <<>>)
    BY <2>4, <2>5 DEF OneField
  <2>8. buf \in Seq(Bytes)
    BY <2>2
  <2>9. key \in Nat /\ Len(raw) \in Nat
    BY <2>1, LenProperties
  <2>10. EncodedVarint[key] \in Seq(Bytes) /\ length \in Seq(Bytes)
    BY <2>9, VarintRoundTrip
  <2>. HIDE DEF ld, buf, value, key, length
  <2>a. OneField(key % 8, buf, Decode) = Read(value, <<>>)
    BY <2>6, <2>7
  <2>b. <<>> \in Seq(Bytes)
    BY <2>2
  <2>11. Decode[EncodedVarint[key] \o buf] = Then(key \div 8, value, Decode[<<>>])
    BY <2>6, <2>8, <2>a, <2>b, DecodeField
  <2>12. Decode[EncodedVarint[key] \o buf].error = "none"
    BY <2>11, DecodeNothing DEF Then, Decoded
  <2>. DEFINE first == EncodedVarint[key]
  <2>c. first \in Seq(Bytes)
    BY <2>10
  <2>. HIDE DEF first
  <2>d. (first \o length) \o raw = first \o (length \o raw)
    BY <2>1, <2>10, <2>c, ConcatAssociative
  <2>13. (EncodedVarint[key] \o length) \o raw = EncodedVarint[key] \o (length \o raw)
    BY <2>d DEF first
  <2>14. QED
    BY <2>12, <2>13 DEF OpaqueFieldsDecode, raw, length, buf, key
<1>2. QED
  BY <1>1, ReceivedInvariant, PTL
-----------------------------------------------------------------------------
(* A message as the sequence of its fields, of which the last with a       *)
(* number counts.                                                          *)

IsLast(s, n, i) == s[i].number = n /\ \A j \in 1..Len(s) : j > i => s[j].number # n

LEMMA LastExists ==
  ASSUME NEW E, NEW s \in Seq(E), NEW n \in Numbers(s)
  PROVE  \E i \in 1..Len(s) : IsLast(s, n, i)
<1>. DEFINE From == {Len(s) - i : i \in {j \in 1..Len(s) : s[j].number = n}}
<1>1. Len(s) \in Nat /\ DOMAIN s = 1..Len(s)
  BY LenProperties
<1>2. From \in SUBSET Nat /\ From # {}
  BY <1>1 DEF Numbers
<1>3. PICK m \in From : \A k \in From : m <= k
  <2>. HIDE DEF From
  <2>. QED
    BY <1>2, OfVarint!Least
<1>4. PICK i \in 1..Len(s) : s[i].number = n /\ m = Len(s) - i
  BY <1>3
<1>5. ASSUME NEW j \in 1..Len(s), j > i, s[j].number = n PROVE FALSE
  <2>1. Len(s) - j \in From
    BY <1>5
  <2>2. m <= Len(s) - j
    BY <1>3, <2>1
  <2>3. QED
    BY <1>1, <1>4, <1>5, <2>2
<1>6. QED
  BY <1>4, <1>5 DEF IsLast

LEMMA LastIs ==
  ASSUME NEW E, NEW s \in Seq(E), NEW n, NEW i \in 1..Len(s), IsLast(s, n, i)
  PROVE  Last(s, n) = s[i]
<1>. DEFINE P(k) == s[k].number = n /\ \A j \in DOMAIN s : j > k => s[j].number # n
            c == CHOOSE k \in DOMAIN s : P(k)
<1>1. Len(s) \in Nat /\ DOMAIN s = 1..Len(s)
  BY LenProperties
<1>2. i \in DOMAIN s /\ P(i)
  BY <1>1 DEF IsLast
<1>3. c \in DOMAIN s /\ P(c)
  BY <1>2
<1>4. Last(s, n) = s[c]
  BY DEF Last
<1>. HIDE DEF c
<1>5. c = i
  <2>1. ~(c > i) /\ ~(i > c)
    BY <1>2, <1>3
  <2>2. c \in 1..Len(s)
    BY <1>1, <1>3
  <2>3. QED
    BY <1>1, <2>1, <2>2
<1>6. QED
  BY <1>4, <1>5

Says(s) == [n \in Numbers(s) |-> Last(s, n).value]

\* A message says what its first field says, unless the others say it anew.
LEMMA SaysStep ==
  ASSUME NEW E, NEW s \in Seq(E), s # <<>>
  PROVE  Says(s) = Assigned(Head(s).number, Head(s).value, Says(Tail(s)))
<1>. DEFINE t == Tail(s)
            f == Head(s)
<1>1. /\ t \in Seq(E) /\ f = s[1] /\ Len(s) \in Nat /\ Len(t) \in Nat
      /\ Len(t) = Len(s) - 1
  BY HeadTail
<1>2. \A i \in 1..Len(t) : t[i] = s[i + 1]
  BY HeadTailProperties
<1>3. DOMAIN s = 1..Len(s) /\ DOMAIN t = 1..Len(t)
  BY <1>1, LenProperties
<1>. HIDE DEF t, f
<1>4. Len(s) = Len(t) + 1 /\ 1 \in 1..Len(s)
  BY <1>1
<1>5. Numbers(s) = Numbers(t) \cup {f.number}
  <2>1. ASSUME NEW i \in 1..Len(s) PROVE s[i].number \in Numbers(t) \cup {f.number}
    <3>1. CASE i = 1
      BY <1>1, <3>1
    <3>2. CASE i # 1
      <4>1. i - 1 \in 1..Len(t) /\ (i - 1) + 1 = i
        BY <1>1, <1>4, <3>2
      <4>2. t[i - 1] = s[i]
        BY <1>2, <4>1
      <4>3. QED
        BY <1>3, <4>1, <4>2 DEF Numbers
    <3>3. QED
      BY <3>1, <3>2
  <2>2. ASSUME NEW i \in 1..Len(t) PROVE t[i].number \in Numbers(s)
    <3>1. i + 1 \in 1..Len(s) /\ t[i] = s[i + 1]
      BY <1>1, <1>2, <1>4
    <3>2. QED
      BY <1>3, <3>1 DEF Numbers
  <2>3. f.number \in Numbers(s)
    BY <1>1, <1>3, <1>4 DEF Numbers
  <2>4. Numbers(s) \subseteq Numbers(t) \cup {f.number}
    BY <1>3, <2>1 DEF Numbers
  <2>5. Numbers(t) \subseteq Numbers(s)
    BY <1>3, <2>2 DEF Numbers
  <2>6. QED
    BY <2>3, <2>4, <2>5
<1>6. ASSUME NEW n \in Numbers(t) PROVE Last(s, n) = Last(t, n)
  <2>1. PICK i \in 1..Len(t) : IsLast(t, n, i)
    BY <1>1, LastExists
  <2>2. Last(t, n) = t[i]
    BY <1>1, <2>1, LastIs
  <2>3. i + 1 \in 1..Len(s) /\ t[i] = s[i + 1]
    BY <1>1, <1>2, <1>4
  <2>4. ASSUME NEW j \in 1..Len(s), j > i + 1 PROVE s[j].number # n
    <3>1. j - 1 \in 1..Len(t) /\ j - 1 > i /\ (j - 1) + 1 = j
      BY <1>1, <1>4, <2>4
    <3>2. t[j - 1] = s[j]
      BY <1>2, <3>1
    <3>3. QED
      BY <2>1, <3>1, <3>2 DEF IsLast
  <2>5. IsLast(s, n, i + 1)
    BY <2>1, <2>3, <2>4 DEF IsLast
  <2>6. Last(s, n) = s[i + 1]
    BY <2>3, <2>5, LastIs
  <2>7. QED
    BY <2>2, <2>3, <2>6
<1>7. ASSUME f.number \notin Numbers(t) PROVE Last(s, f.number) = f
  <2>1. ASSUME NEW j \in 1..Len(s), j > 1 PROVE s[j].number # f.number
    <3>1. j - 1 \in 1..Len(t) /\ (j - 1) + 1 = j
      BY <1>1, <1>4, <2>1
    <3>2. t[j - 1] = s[j]
      BY <1>2, <3>1
    <3>3. s[j].number \in Numbers(t)
      BY <1>3, <3>1, <3>2 DEF Numbers
    <3>4. QED
      BY <1>7, <3>3
  <2>2. IsLast(s, f.number, 1)
    BY <1>1, <2>1 DEF IsLast
  <2>3. Last(s, f.number) = s[1]
    BY <1>4, <2>2, LastIs
  <2>4. QED
    BY <1>1, <2>3
<1>8. DOMAIN Says(t) = Numbers(t) /\ \A n \in Numbers(t) : Says(t)[n] = Last(t, n).value
  BY DEF Says
<1>9. ASSUME NEW n \in Numbers(s)
      PROVE  Last(s, n).value = IF n \in DOMAIN Says(t) THEN Says(t)[n] ELSE f.value
  BY <1>5, <1>6, <1>7, <1>8
<1>10. Says(s) = [n \in DOMAIN Says(t) \cup {f.number} |->
                    IF n \in DOMAIN Says(t) THEN Says(t)[n] ELSE f.value]
  <2>1. Says(s) = [n \in Numbers(s) |-> Last(s, n).value]
    BY DEF Says
  <2>2. Numbers(s) = DOMAIN Says(t) \cup {f.number}
    BY <1>5, <1>8
  <2>. HIDE DEF Says
  <2>3. QED
    BY <1>9, <2>1, <2>2
<1>11. QED
  BY <1>10 DEF Assigned, t, f

LEMMA SaysNothing == Says(<<>>) = <<>>
<1>1. Numbers(<<>>) = {}
  BY DEF Numbers
<1>2. QED
  BY <1>1 DEF Says

LEMMA TakeStep ==
  ASSUME NEW E, NEW s \in Seq(E), s # <<>>, NEW k \in Nat
  PROVE  /\ Take(s, k + 1) \in Seq(E) /\ Take(s, k + 1) # <<>>
         /\ Head(Take(s, k + 1)) = Head(s)
         /\ Tail(Take(s, k + 1)) = Take(Tail(s), k)
<1>. DEFINE u == Take(s, k + 1)
            t == Tail(s)
            v == Take(t, k)
<1>1. /\ t \in Seq(E) /\ Head(s) = s[1] /\ Len(s) \in Nat /\ Len(t) \in Nat
      /\ Len(t) = Len(s) - 1
  BY HeadTail
<1>2. \A i \in 1..Len(t) : t[i] = s[i + 1]
  BY HeadTailProperties
<1>. HIDE DEF t
<1>3. /\ v \in Seq(E) /\ Len(v) = IF k < Len(t) THEN k ELSE Len(t)
      /\ \A i \in 1..Len(v) : v[i] = t[i]
  BY <1>1, TakeDrop
<1>. HIDE DEF v
<1>a. k + 1 \in Nat
  OBVIOUS
<1>4. /\ u \in Seq(E) /\ Len(u) = IF k + 1 < Len(s) THEN k + 1 ELSE Len(s)
      /\ \A i \in 1..Len(u) : u[i] = s[i]
  BY <1>a, TakeDrop
<1>. HIDE DEF u
<1>5. Len(u) \in Nat /\ Len(v) \in Nat /\ Len(u) = Len(v) + 1 /\ Len(v) <= Len(t)
  BY <1>1, <1>3, <1>4
<1>6. u # <<>>
  <2>1. Len(u) # 0
    BY <1>5
  <2>2. QED
    BY <2>1
<1>7. Tail(u) \in Seq(E) /\ Head(u) = u[1] /\ Len(Tail(u)) = Len(u) - 1
  BY <1>4, <1>6, HeadTail
<1>8. \A i \in 1..Len(Tail(u)) : Tail(u)[i] = u[i + 1]
  BY <1>4, <1>6, HeadTailProperties
<1>9. Head(u) = s[1]
  <2>1. 1 \in 1..Len(u)
    BY <1>5
  <2>2. u[1] = s[1]
    BY <1>4, <2>1
  <2>3. QED
    BY <1>7, <2>2
<1>. DEFINE w == Tail(u)
<1>10. w \in Seq(E) /\ Len(w) = Len(v)
  BY <1>5, <1>7
<1>11. ASSUME NEW i \in 1..Len(w) PROVE w[i] = v[i]
  <2>1. i \in 1..Len(v) /\ i \in 1..Len(t) /\ i + 1 \in 1..Len(u)
    BY <1>1, <1>5, <1>10
  <2>2. w[i] = u[i + 1]
    BY <1>8
  <2>3. QED
    BY <1>2, <1>3, <1>4, <2>1, <2>2
<1>. HIDE DEF w
<1>12. w = v
  BY <1>3, <1>10, <1>11, SeqEqual
<1>13. QED
  BY <1>1, <1>4, <1>6, <1>9, <1>12 DEF u, v, t, w
-----------------------------------------------------------------------------
(* A message of any length, of fields that are each read as they should.   *)

\* The bytes of a field are read as its number and value, whatever follows
\* them; cut short they are an error, or a field that has a length is read.
IsField(e) ==
  /\ e.bytes \in Seq(Bytes) /\ e.bytes # <<>>
  /\ \A more \in Seq(Bytes) :
       Decode[e.bytes \o more] = Then(e.number, e.value, Decode[more])
  /\ \A n \in Nat : n > 0 /\ n < Len(e.bytes) /\ Decode[Take(e.bytes, n)].error = "none" =>
       e.kind \in {"bytes", "fields"} /\ DOMAIN Decode[Take(e.bytes, n)].fields = {e.number}

Wire(es) == Concatenated[[i \in DOMAIN es |-> es[i].bytes]]

LEMMA WireNothing == Wire(<<>>) = <<>>
<1>1. [i \in DOMAIN <<>> |-> <<>>[i].bytes] = <<>>
  OBVIOUS
<1>2. <<>> \in Seq(Seq(Bytes))
  BY EmptySeq
<1>3. Concatenated[<<>>] = ConcatenatedBody(Concatenated, <<>>)
  BY <1>2, ConcatenatedDef
<1>4. Concatenated[<<>>] = <<>>
  BY <1>3 DEF ConcatenatedBody
<1>5. QED
  BY <1>1, <1>4 DEF Wire

LEMMA WireParts ==
  ASSUME NEW E, NEW s \in Seq(E), \A e \in E : IsField(e)
  PROVE  /\ [i \in DOMAIN s |-> s[i].bytes] \in Seq(Seq(Bytes))
         /\ Len([i \in DOMAIN s |-> s[i].bytes]) = Len(s)
<1>1. Len(s) \in Nat /\ DOMAIN s = 1..Len(s) /\ \A i \in 1..Len(s) : s[i] \in E
  BY LenProperties
<1>2. \A i \in 1..Len(s) : s[i].bytes \in Seq(Bytes)
  BY <1>1 DEF IsField
<1>. DEFINE n == Len(s)
            B == Seq(Bytes)
            p == [i \in 1..n |-> s[i].bytes]
<1>3. n \in Nat /\ \A i \in 1..n : s[i].bytes \in B
  BY <1>1, <1>2
<1>. HIDE DEF n, B
<1>4. p \in Seq(B) /\ Len(p) = n
  BY <1>3
<1>5. QED
  BY <1>1, <1>4 DEF n, B

LEMMA WireStep ==
  ASSUME NEW E, NEW s \in Seq(E), s # <<>>, \A e \in E : IsField(e)
  PROVE  Wire(s) = Head(s).bytes \o Wire(Tail(s))
<1>. DEFINE t == Tail(s)
            p == [i \in DOMAIN s |-> s[i].bytes]
            q == [i \in DOMAIN t |-> t[i].bytes]
<1>1. /\ t \in Seq(E) /\ Head(s) = s[1] /\ Len(s) \in Nat /\ Len(t) \in Nat
      /\ Len(t) = Len(s) - 1
  BY HeadTail
<1>2. \A i \in 1..Len(t) : t[i] = s[i + 1]
  BY HeadTailProperties
<1>3. DOMAIN s = 1..Len(s) /\ DOMAIN t = 1..Len(t)
  BY <1>1, LenProperties
<1>4. p \in Seq(Seq(Bytes)) /\ Len(p) = Len(s)
  BY WireParts
<1>. HIDE DEF t
<1>5. q \in Seq(Seq(Bytes)) /\ Len(q) = Len(t)
  BY <1>1, WireParts
<1>6. \A i \in 1..Len(s) : p[i] = s[i].bytes
  BY <1>3
<1>7. \A i \in 1..Len(t) : q[i] = t[i].bytes
  BY <1>3
<1>. HIDE DEF p, q
<1>8. p # <<>>
  <2>1. Len(s) # 0
    BY <1>1
  <2>2. QED
    BY <1>4, <2>1
<1>9. Head(p) = p[1] /\ Tail(p) \in Seq(Seq(Bytes)) /\ Len(Tail(p)) = Len(p) - 1
  BY <1>4, <1>8, HeadTail
<1>10. \A i \in 1..Len(Tail(p)) : Tail(p)[i] = p[i + 1]
  BY <1>4, <1>8, HeadTailProperties
<1>11. Head(p) = Head(s).bytes
  BY <1>1, <1>6, <1>9
<1>. DEFINE w == Tail(p)
<1>12. w \in Seq(Seq(Bytes)) /\ Len(w) = Len(q)
  BY <1>1, <1>4, <1>5, <1>9
<1>13. ASSUME NEW i \in 1..Len(w) PROVE w[i] = q[i]
  <2>1. i \in 1..Len(t) /\ i + 1 \in 1..Len(s)
    BY <1>1, <1>5, <1>12
  <2>2. w[i] = p[i + 1]
    BY <1>10
  <2>3. QED
    BY <1>2, <1>6, <1>7, <2>1, <2>2
<1>. HIDE DEF w
<1>14. w = q
  BY <1>5, <1>12, <1>13, SeqEqual
<1>15. Concatenated[p] = ConcatenatedBody(Concatenated, p)
  BY <1>4, ConcatenatedDef
<1>16. Concatenated[p] = Head(p) \o Concatenated[Tail(p)]
  BY <1>8, <1>15 DEF ConcatenatedBody
<1>17. Concatenated[p] = Head(s).bytes \o Concatenated[q]
  BY <1>11, <1>14, <1>16 DEF w
<1>18. Wire(s) = Concatenated[p] /\ Wire(Tail(s)) = Concatenated[q]
  BY DEF Wire, p, q, t
<1>19. QED
  BY <1>17, <1>18

\* Where in a message its bytes are cut: between two fields, or in one that
\* has a length.
CutAt(d, s, k) ==
  \/ d.fields = Says(Take(s, k))
  \/ /\ k < Len(s) /\ s[k + 1].kind \in {"bytes", "fields"}
     /\ DOMAIN d.fields = DOMAIN Says(Take(s, k)) \cup {s[k + 1].number}
     /\ \A m \in DOMAIN Says(Take(s, k)) \ {s[k + 1].number} :
          d.fields[m] = Says(Take(s, k))[m]

LEMMA CutStep ==
  ASSUME NEW E, NEW s \in Seq(E), s # <<>>, NEW d, NEW k \in Nat,
         CutAt(d, Tail(s), k), d.error = "none"
  PROVE  CutAt(Then(Head(s).number, Head(s).value, d), s, k + 1)
<1>. DEFINE f == Head(s)
            t == Tail(s)
            before == Says(Take(t, k))
            all == Says(Take(s, k + 1))
            c == Then(f.number, f.value, d)
<1>1. /\ t \in Seq(E) /\ Len(s) \in Nat /\ Len(t) \in Nat /\ Len(t) = Len(s) - 1
  BY HeadTail
<1>2. \A i \in 1..Len(t) : t[i] = s[i + 1]
  BY HeadTailProperties
<1>3. all = Assigned(f.number, f.value, before)
  <2>. DEFINE u == Take(s, k + 1)
  <2>1. u \in Seq(E) /\ u # <<>> /\ Head(u) = f /\ Tail(u) = Take(t, k)
    BY TakeStep
  <2>. HIDE DEF u, f
  <2>2. Says(u) = Assigned(Head(u).number, Head(u).value, Says(Tail(u)))
    BY <2>1, SaysStep
  <2>3. QED
    BY <2>1, <2>2 DEF u
<1>4. c.fields = Assigned(f.number, f.value, d.fields)
  BY DEF Then, Decoded
<1>5. CASE d.fields = before
  BY <1>3, <1>4, <1>5 DEF CutAt
<1>6. CASE /\ k < Len(t) /\ t[k + 1].kind \in {"bytes", "fields"}
           /\ DOMAIN d.fields = DOMAIN before \cup {t[k + 1].number}
           /\ \A m \in DOMAIN before \ {t[k + 1].number} : d.fields[m] = before[m]
  <2>. DEFINE x == t[k + 1].number
  <2>1. k + 1 < Len(s) /\ k + 1 \in 1..Len(t)
    BY <1>1, <1>6
  <2>2. t[k + 1] = s[(k + 1) + 1]
    BY <1>2, <2>1
  <2>. HIDE DEF f, before, all, c, x
  <2>3. DOMAIN c.fields = DOMAIN all \cup {x}
    BY <1>3, <1>4, <1>6 DEF Assigned, x
  <2>4. \A m \in DOMAIN all \ {x} : c.fields[m] = all[m]
    BY <1>3, <1>4, <1>6 DEF Assigned, x
  <2>5. QED
    BY <1>6, <2>1, <2>2, <2>3, <2>4 DEF CutAt, c, all, f, x
<1>7. QED
  BY <1>5, <1>6 DEF CutAt

\* All of a message is read as what it says, and what a cut leaves is
\* contained.
LEMMA MessageReads ==
  ASSUME NEW E, \A e \in E : IsField(e), NEW s \in Seq(E)
  PROVE  /\ Wire(s) \in Seq(Bytes)
         /\ Decode[Wire(s)] = Decoded(Says(s))
         /\ \A n \in Nat : Decode[Take(Wire(s), n)].error = "none" =>
              \E k \in 0..Len(s) : CutAt(Decode[Take(Wire(s), n)], s, k)
<1>. DEFINE Good(m) ==
              /\ Wire(m) \in Seq(Bytes)
              /\ Decode[Wire(m)] = Decoded(Says(m))
              /\ \A n \in Nat : Decode[Take(Wire(m), n)].error = "none" =>
                   \E k \in 0..Len(m) : CutAt(Decode[Take(Wire(m), n)], m, k)
            T == {l \in Nat : \A m \in Seq(E) : Len(m) = l => Good(m)}
<1>1. ASSUME NEW l \in Nat, \A x \in Nat : Itself(x) < Itself(l) => x \in T,
             NEW m \in Seq(E), Len(m) = l
      PROVE  Good(m)
  <2>1. CASE m = <<>>
    <3>1. Wire(m) = <<>> /\ Says(m) = <<>> /\ <<>> \in Seq(Bytes)
      BY <2>1, WireNothing, SaysNothing
    <3>2. Decode[Wire(m)] = Decoded(Says(m))
      BY <3>1, DecodeNothing
    <3>3. ASSUME NEW n \in Nat
          PROVE  \E k \in 0..Len(m) : CutAt(Decode[Take(Wire(m), n)], m, k)
      <4>a. <<>> \in Seq(Bytes) /\ n >= Len(<<>>)
        BY <3>1
      <4>b. Take(<<>>, n) = <<>>
        BY <4>a, TakeAll
      <4>1. Take(Wire(m), n) = <<>>
        BY <3>1, <4>b
      <4>2. Take(m, 0) = <<>>
        BY TakeNone
      <4>3. Decode[Take(Wire(m), n)].fields = Says(Take(m, 0))
        BY <2>1, <3>1, <4>1, <4>2, DecodeNothing DEF Decoded
      <4>4. CutAt(Decode[Take(Wire(m), n)], m, 0)
        BY <4>3 DEF CutAt
      <4>5. 0 \in 0..Len(m)
        BY <1>1
      <4>6. QED
        BY <4>4, <4>5
    <3>4. QED
      BY <3>1, <3>2, <3>3
  <2>2. CASE m # <<>>
    <3>. DEFINE f == Head(m)
                t == Tail(m)
                rest == Wire(t)
    <3>1. f \in E /\ t \in Seq(E) /\ Len(t) \in Nat /\ Len(t) = Len(m) - 1 /\ Len(t) < l
      BY <1>1, <2>2, HeadTail
    <3>2. Good(t)
      BY <1>1, <3>1 DEF Itself
    <3>3. IsField(f)
      BY <3>1
    <3>4. Wire(m) = f.bytes \o rest
      BY <2>2, WireStep
    <3>5. Says(m) = Assigned(f.number, f.value, Says(t))
      BY <2>2, SaysStep
    <3>6. rest \in Seq(Bytes) /\ Decode[rest] = Decoded(Says(t)) /\ f.bytes \in Seq(Bytes)
      BY <3>2, <3>3 DEF IsField
    <3>. HIDE DEF f, t
    <3>7. Wire(m) \in Seq(Bytes)
      <4>. HIDE DEF rest
      <4>1. f.bytes \o rest \in Seq(Bytes)
        BY <3>6, ConcatProperties
      <4>2. QED
        BY <3>4, <4>1
    <3>8. Decode[Wire(m)] = Decoded(Says(m))
      <4>. HIDE DEF rest
      <4>1. Decode[f.bytes \o rest] = Then(f.number, f.value, Decode[rest])
        BY <3>3, <3>6 DEF IsField
      <4>2. Then(f.number, f.value, Decoded(Says(t))) = Decoded(Assigned(f.number, f.value, Says(t)))
        BY DEF Then, Decoded
      <4>3. QED
        BY <3>4, <3>5, <3>6, <4>1, <4>2
    <3>9. ASSUME NEW n \in Nat, Decode[Take(Wire(m), n)].error = "none"
          PROVE  \E k \in 0..Len(m) : CutAt(Decode[Take(Wire(m), n)], m, k)
      <4>. DEFINE b == f.bytes
                  cut == Take(Wire(m), n)
      <4>. HIDE DEF rest
      <4>0. b \in Seq(Bytes) /\ Len(b) \in Nat
        BY <3>6, LenProperties
      <4>1. cut = IF n < Len(b) THEN Take(b, n) ELSE b \o Take(rest, n - Len(b))
        BY <3>4, <3>6, TakeConcat
      <4>2. CASE n = 0
        <5>1. cut = <<>> /\ Take(m, 0) = <<>>
          BY <3>7, <4>2, TakeNone
        <5>2. Decode[cut].fields = Says(Take(m, 0))
          BY <5>1, DecodeNothing, SaysNothing DEF Decoded
        <5>3. CutAt(Decode[cut], m, 0)
          BY <5>2 DEF CutAt
        <5>4. 0 \in 0..Len(m)
          BY <1>1
        <5>5. QED
          BY <5>3, <5>4
      <4>3. CASE n > 0 /\ n < Len(b)
        <5>1. cut = Take(b, n)
          BY <4>1, <4>3
        <5>2. f.kind \in {"bytes", "fields"} /\ DOMAIN Decode[cut].fields = {f.number}
          BY <3>3, <3>9, <4>3, <5>1 DEF IsField
        <5>3. Says(Take(m, 0)) = <<>>
          BY TakeNone, SaysNothing
        <5>4. 0 < Len(m) /\ m[0 + 1] = f /\ 0 \in 0..Len(m)
          <6>1. m[1] = f
            BY <2>2, HeadTail DEF f
          <6>2. Len(m) \in Nat /\ Len(m) = Len(t) + 1
            BY <1>1, <3>1
          <6>3. QED
            BY <3>1, <6>1, <6>2
        <5>. DEFINE d == Decode[cut]
        <5>. HIDE DEF d, cut
        <5>5. CutAt(d, m, 0)
          BY <5>2, <5>3, <5>4 DEF CutAt, d
        <5>6. QED
          BY <5>4, <5>5 DEF d, cut
      <4>4. CASE ~(n < Len(b))
        <5>. DEFINE j == n - Len(b)
                    later == Take(rest, j)
        <5>1. j \in Nat
          BY <4>0, <4>4
        <5>. HIDE DEF j
        <5>2. later \in Seq(Bytes)
          BY <3>6, <5>1, TakeDrop
        <5>. HIDE DEF later
        <5>3. cut = b \o later
          BY <4>1, <4>4 DEF later, j
        <5>4. Decode[cut] = Then(f.number, f.value, Decode[later])
          BY <3>3, <5>2, <5>3 DEF IsField
        <5>5. Decode[later].error = "none"
          BY <3>9, <5>4 DEF Then
        <5>6. PICK k \in 0..Len(t) : CutAt(Decode[later], t, k)
          BY <3>2, <5>1, <5>5 DEF later, rest
        <5>7. CutAt(Then(f.number, f.value, Decode[later]), m, k + 1)
          BY <2>2, <5>5, <5>6, CutStep DEF f, t
        <5>8. k + 1 \in 0..Len(m)
          BY <1>1, <3>1
        <5>9. QED
          BY <5>4, <5>7, <5>8
      <4>5. QED
        BY <4>0, <4>2, <4>3, <4>4
    <3>10. QED
      BY <3>7, <3>8, <3>9
  <2>3. QED
    BY <2>1, <2>2
<1>. HIDE DEF Good
<1>2. \A l \in Nat : (\A x \in Nat : Itself(x) < Itself(l) => x \in T) => l \in T
  BY <1>1
<1>3. OfEncodedVarint!Sized
  BY DEF OfEncodedVarint!Sized, Itself
<1>4. \A l \in Nat : l \in T
  <2>. HIDE DEF T
  <2>. QED
    BY <1>2, <1>3, OfEncodedVarint!Induction
<1>5. Len(s) \in Nat
  BY LenProperties
<1>6. Good(s)
  BY <1>4, <1>5
<1>7. QED
  BY <1>6 DEF Good
-----------------------------------------------------------------------------
(* Each field a charger writes is read as it should.                       *)

\* A key and what the field carries.
Written(number, wire, carried, value, kind) ==
  [bytes |-> EncodedVarint[8 * number + wire] \o carried,
   number |-> number, value |-> value, kind |-> kind]

\* They are a field, if what it carries is read as it should.
LEMMA FieldFromCarried ==
  ASSUME NEW number \in Nat, NEW wire \in 0..7, NEW carried \in Seq(Bytes),
         NEW value, NEW kind,
         \A more \in Seq(Bytes) : OneField(wire, carried \o more, Decode) = Read(value, more),
         \A k \in Nat : k < Len(carried) =>
           \/ OneField(wire, Take(carried, k), Decode).error # "none"
           \/ kind \in {"bytes", "fields"} /\ \E v : OneField(wire, Take(carried, k), Decode) = Read(v, <<>>)
  PROVE  IsField(Written(number, wire, carried, value, kind))
<1>. DEFINE key == 8 * number + wire
            first == EncodedVarint[key]
            all == first \o carried
<1>1. key \in Nat /\ key % 8 = wire /\ key \div 8 = number
  OBVIOUS
<1>. HIDE DEF key
<1>2. /\ first \in Seq(Bytes) /\ first # <<>>
      /\ \A k \in Nat : k < Len(first) => Varint[Take(first, k)].error = "FrameError"
  BY <1>1, VarintRoundTrip
<1>3. \A buf \in Seq(Bytes), more \in Seq(Bytes) : \A v :
        OneField(wire, buf, Decode) = Read(v, more) =>
          Decode[first \o buf] = Then(number, v, Decode[more])
  <2>1. TAKE buf \in Seq(Bytes), more \in Seq(Bytes)
  <2>2. TAKE v
  <2>3. HAVE OneField(wire, buf, Decode) = Read(v, more)
  <2>4. OneField(key % 8, buf, Decode) = Read(v, more)
    BY <1>1, <2>3
  <2>5. Decode[first \o buf] = Then(key \div 8, v, Decode[more])
    BY <1>1, <2>4, DecodeField
  <2>6. QED
    BY <1>1, <2>5
<1>4. \A buf \in Seq(Bytes) :
        OneField(wire, buf, Decode).error # "none" => Decode[first \o buf].error # "none"
  BY <1>1, DecodeFault
<1>. HIDE DEF first
<1>5. all \in Seq(Bytes) /\ Len(first) \in Nat /\ Len(carried) \in Nat
  BY <1>2, ConcatProperties, LenProperties
<1>6. Len(all) = Len(first) + Len(carried)
  BY <1>2, ConcatProperties
<1>7. all # <<>>
  BY <1>2, ConcatSimplifications
<1>8. ASSUME NEW more \in Seq(Bytes) PROVE Decode[all \o more] = Then(number, value, Decode[more])
  <2>1. all \o more = first \o (carried \o more)
    BY <1>2, ConcatAssociative
  <2>2. carried \o more \in Seq(Bytes)
    BY ConcatProperties
  <2>3. OneField(wire, carried \o more, Decode) = Read(value, more)
    OBVIOUS
  <2>4. Decode[first \o (carried \o more)] = Then(number, value, Decode[more])
    BY <1>3, <2>2, <2>3
  <2>5. QED
    BY <2>1, <2>4
<1>9. ASSUME NEW n \in Nat, n > 0, n < Len(all), Decode[Take(all, n)].error = "none"
      PROVE  kind \in {"bytes", "fields"} /\ DOMAIN Decode[Take(all, n)].fields = {number}
  <2>. DEFINE cut == Take(all, n)
  <2>0. cut \in Seq(Bytes) /\ Len(cut) = n
    BY <1>5, <1>9, TakeDrop
  <2>1. cut = IF n < Len(first) THEN Take(first, n) ELSE first \o Take(carried, n - Len(first))
    BY <1>2, TakeConcat
  <2>. HIDE DEF cut
  <2>2. ~(n < Len(first))
    <3>. SUFFICES ASSUME n < Len(first) PROVE FALSE
      OBVIOUS
    <3>1. Varint[cut].error = "FrameError"
      BY <1>2, <2>1
    <3>2. cut # <<>>
      <4>1. Len(cut) # 0
        BY <1>9, <2>0
      <4>2. QED
        BY <4>1
    <3>3. Decode[cut] = DecodeBody(Decode, cut)
      BY <2>0, DecodeDef
    <3>4. Decode[cut].error # "none"
      BY <3>1, <3>2, <3>3 DEF DecodeBody, FieldOf
    <3>5. QED
      BY <1>9, <3>4 DEF cut
  <2>. DEFINE j == n - Len(first)
              left == Take(carried, j)
  <2>3. j \in Nat /\ j < Len(carried)
    BY <1>5, <1>6, <1>9, <2>2
  <2>. HIDE DEF j
  <2>4. left \in Seq(Bytes)
    BY <2>3, TakeDrop
  <2>5. cut = first \o left
    BY <2>1, <2>2 DEF j
  <2>6. \/ OneField(wire, left, Decode).error # "none"
        \/ kind \in {"bytes", "fields"} /\ \E v : OneField(wire, left, Decode) = Read(v, <<>>)
    BY <2>3
  <2>. HIDE DEF left
  <2>7. ~(OneField(wire, left, Decode).error # "none")
    BY <1>4, <1>9, <2>4, <2>5 DEF cut
  <2>8. PICK v : kind \in {"bytes", "fields"} /\ OneField(wire, left, Decode) = Read(v, <<>>)
    BY <2>6, <2>7
  <2>9. Decode[cut] = Then(number, v, Decode[<<>>])
    BY <1>3, <2>4, <2>5, <2>8, EmptySeq
  <2>10. Decode[cut].fields = Assigned(number, v, <<>>)
    BY <2>9, DecodeNothing DEF Then, Decoded
  <2>11. DOMAIN Decode[cut].fields = {number}
    BY <2>10 DEF Assigned
  <2>12. QED
    BY <2>8, <2>11 DEF cut
<1>. DEFINE e == Written(number, wire, carried, value, kind)
<1>10. e.bytes = all /\ e.number = number /\ e.value = value /\ e.kind = kind
  BY DEF Written, first, key
<1>. HIDE DEF all
<1>11. IsField(e)
  <2>. HIDE DEF e
  <2>1. QED
    BY <1>5, <1>7, <1>8, <1>9, <1>10 DEF IsField
<1>12. QED
  BY <1>11

Entry(f, content, value) ==
  [bytes |-> EncodedField(f, content), number |-> f.number, value |-> value, kind |-> f.kind]

LEMMA IntField ==
  ASSUME NEW f, f.number \in Nat, f.kind = "int", NEW c \in (-Sign)..(Sign - 1)
  PROVE  IsField(Entry(f, c, <<"int", c>>))
<1>. DEFINE n == IF c < 0 THEN c + 2 * Sign ELSE c
            carried == EncodedVarint[n]
            value == <<"int", c>>
<1>1. n \in Nat /\ Signed(n) = c
  BY FramesAssumption DEF Signed
<1>. HIDE DEF n
<1>2. /\ carried \in Seq(Bytes)
      /\ \A more \in Seq(Bytes) : Varint[carried \o more] = Read(n, more)
      /\ \A k \in Nat : k < Len(carried) => Varint[Take(carried, k)].error = "FrameError"
  BY <1>1, VarintRoundTrip
<1>. HIDE DEF carried
<1>3. ASSUME NEW more \in Seq(Bytes)
      PROVE  OneField(0, carried \o more, Decode) = Read(value, more)
  <2>1. OneField(0, carried \o more, Decode) = Whole(carried \o more)
    BY DEF OneField
  <2>2. Varint[carried \o more] = Read(n, more)
    BY <1>2
  <2>3. Whole(carried \o more) = Read(<<"int", Signed(n)>>, more)
    BY <2>2 DEF Whole, Read
  <2>4. QED
    BY <1>1, <2>1, <2>3
<1>4. ASSUME NEW k \in Nat, k < Len(carried)
      PROVE  OneField(0, Take(carried, k), Decode).error # "none"
  BY <1>2, <1>4 DEF OneField, Whole
<1>5. EncodedField(f, c) = EncodedVarint[8 * f.number + 0] \o carried
  <2>1. WireType[f.kind] = 0
    BY DEF WireType
  <2>2. QED
    BY <2>1 DEF EncodedField, carried, n
<1>. DEFINE number == f.number
<1>6. number \in Nat
  OBVIOUS
<1>. HIDE DEF number, value
<1>7. IsField(Written(number, 0, carried, value, "int"))
  BY <1>2, <1>3, <1>4, <1>6, FieldFromCarried
<1>8. Written(number, 0, carried, value, "int") = Entry(f, c, value)
  BY <1>5 DEF Entry, Written, number
<1>9. QED
  BY <1>7, <1>8 DEF value

LEMMA FixedField ==
  ASSUME NEW f, f.number \in Nat, NEW kind, NEW size \in Nat, f.kind = kind,
         NEW c \in [1..size -> Bytes],
         \/ kind = "float" /\ size = FloatSize
         \/ kind = "double" /\ size = DoubleSize
  PROVE  IsField(Entry(f, c, <<kind, c>>))
<1>. DEFINE wire == IF kind = "double" THEN 1 ELSE 5
            value == <<kind, c>>
            number == f.number
<1>1. wire \in 0..7 /\ number \in Nat
  OBVIOUS
<1>2. c \in Seq(Bytes) /\ Len(c) = size
  OBVIOUS
<1>3. \A buf : OneField(wire, buf, Decode) = Fixed(buf, kind, size)
  BY DEF OneField
<1>. HIDE DEF wire, value, number
<1>4. ASSUME NEW more \in Seq(Bytes)
      PROVE  OneField(wire, c \o more, Decode) = Read(value, more)
  <2>1. Take(c \o more, size) = c /\ Drop(c \o more, size) = more
    BY <1>2, TakeFirst
  <2>2. Len(c \o more) = Len(c) + Len(more) /\ Len(more) \in Nat
    BY <1>2, ConcatProperties, LenProperties
  <2>3. ~(Len(c \o more) < size)
    BY <1>2, <2>2
  <2>4. QED
    BY <1>3, <2>1, <2>3 DEF Fixed, value
<1>5. ASSUME NEW k \in Nat, k < Len(c)
      PROVE  OneField(wire, Take(c, k), Decode).error # "none"
  <2>1. Len(Take(c, k)) < size
    BY <1>2, <1>5, TakeDrop
  <2>2. Fixed(Take(c, k), kind, size) = Bad("struct.error")
    BY <2>1 DEF Fixed
  <2>3. QED
    BY <1>3, <2>2 DEF Bad
<1>6. WireType[kind] = wire
  BY DEF WireType, wire
<1>7. EncodedField(f, c) = EncodedVarint[8 * number + wire] \o c
  BY <1>6 DEF EncodedField, number
<1>8. IsField(Written(number, wire, c, value, kind))
  BY <1>1, <1>2, <1>4, <1>5, FieldFromCarried
<1>9. Written(number, wire, c, value, kind) = Entry(f, c, value)
  BY <1>7 DEF Entry, Written, number
<1>10. QED
  BY <1>8, <1>9 DEF value

\* What has a length is read as it is, and cut short as something.
LEMMA LongField ==
  ASSUME NEW f, f.number \in Nat, f.kind \in {"bytes", "fields"}, NEW c \in Seq(Bytes)
  PROVE  IsField(Entry(f, c, LengthDelimited(c, Decode[c], <<>>).value))
<1>. DEFINE length == EncodedVarint[Len(c)]
            carried == length \o c
            value == LengthDelimited(c, Decode[c], <<>>).value
            number == f.number
<1>1. Len(c) \in Nat /\ number \in Nat
  BY LenProperties
<1>2. /\ length \in Seq(Bytes)
      /\ \A more \in Seq(Bytes) : Varint[length \o more] = Read(Len(c), more)
      /\ \A k \in Nat : k < Len(length) => Varint[Take(length, k)].error = "FrameError"
  BY <1>1, VarintRoundTrip
<1>3. carried \in Seq(Bytes)
  BY DelimitedRoundTrip
<1>4. \A buf : OneField(2, buf, Decode) = Delimited(buf, Decode)
  BY DEF OneField
<1>5. ASSUME NEW more \in Seq(Bytes)
      PROVE  OneField(2, carried \o more, Decode) = Read(value, more)
  <2>1. Delimited(carried \o more, Decode) = LengthDelimited(c, Decode[c], more)
    BY DelimitedRoundTrip
  <2>2. LengthDelimited(c, Decode[c], more) = Read(value, more)
    BY DEF LengthDelimited, Read
  <2>3. QED
    BY <1>4, <2>1, <2>2
<1>. HIDE DEF length, value, number
<1>6. ASSUME NEW k \in Nat, k < Len(carried)
      PROVE  \/ OneField(2, Take(carried, k), Decode).error # "none"
             \/ f.kind \in {"bytes", "fields"} /\ \E v : OneField(2, Take(carried, k), Decode) = Read(v, <<>>)
  <2>. DEFINE cut == Take(carried, k)
  <2>1. cut = IF k < Len(length) THEN Take(length, k) ELSE length \o Take(c, k - Len(length))
    BY <1>2, TakeConcat
  <2>2. Len(length) \in Nat
    BY <1>2, LenProperties
  <2>. HIDE DEF cut
  <2>3. CASE k < Len(length)
    <3>1. Varint[cut].error = "FrameError"
      BY <1>2, <2>1, <2>3
    <3>2. OneField(2, cut, Decode).error # "none"
      BY <1>4, <3>1 DEF Delimited
    <3>3. QED
      BY <3>2 DEF cut
  <2>4. CASE ~(k < Len(length))
    <3>. DEFINE j == k - Len(length)
                left == Take(c, j)
    <3>1. j \in Nat
      BY <2>2, <2>4
    <3>. HIDE DEF j
    <3>2. left \in Seq(Bytes) /\ Len(left) <= Len(c)
      BY <1>1, <3>1, TakeDrop
    <3>3. cut = length \o left
      BY <2>1, <2>4 DEF j
    <3>. HIDE DEF left
    <3>4. Varint[cut] = Read(Len(c), left)
      BY <1>2, <3>2, <3>3
    <3>5. Take(left, Len(c)) = left /\ Drop(left, Len(c)) = <<>>
      BY <1>1, <3>2, TakeAll, LenProperties
    <3>6. Delimited(cut, Decode) = LengthDelimited(left, Decode[left], <<>>)
      BY <3>4, <3>5 DEF Delimited, Read
    <3>. DEFINE v == LengthDelimited(left, Decode[left], <<>>).value
    <3>7. LengthDelimited(left, Decode[left], <<>>) = Read(v, <<>>)
      BY <3>2, LengthDelimitedReads
    <3>8. OneField(2, cut, Decode) = Read(v, <<>>)
      BY <1>4, <3>6, <3>7
    <3>. HIDE DEF v
    <3>9. QED
      BY <3>8 DEF cut
  <2>5. QED
    BY <2>3, <2>4
<1>7. EncodedField(f, c) = EncodedVarint[8 * number + 2] \o carried
  <2>1. WireType[f.kind] = 2
    BY DEF WireType
  <2>2. QED
    BY <2>1 DEF EncodedField, number, length
<1>. HIDE DEF carried
<1>. DEFINE kind == f.kind
<1>. HIDE DEF kind
<1>a. \A k \in Nat : k < Len(carried) =>
        \/ OneField(2, Take(carried, k), Decode).error # "none"
        \/ kind \in {"bytes", "fields"} /\ \E v : OneField(2, Take(carried, k), Decode) = Read(v, <<>>)
  BY <1>6 DEF kind
<1>8. IsField(Written(number, 2, carried, value, kind))
  BY <1>1, <1>3, <1>5, <1>a, FieldFromCarried
<1>9. Written(number, 2, carried, value, kind) = Entry(f, c, value)
  BY <1>7 DEF Entry, Written, number, kind
<1>10. QED
  BY <1>8, <1>9 DEF value
\* Two sequences with the same numbers have the last of each at the same place.
LEMMA SameNumbers ==
  ASSUME NEW E, NEW F, NEW s \in Seq(E), NEW m \in Seq(F), Len(s) = Len(m),
         \A i \in 1..Len(m) : s[i].number = m[i].number
  PROVE  /\ Numbers(s) = Numbers(m)
         /\ \A n \in Numbers(m) : \E i \in 1..Len(m) : Last(s, n) = s[i] /\ Last(m, n) = m[i]
<1>1. DOMAIN s = 1..Len(m) /\ DOMAIN m = 1..Len(m)
  BY LenProperties
<1>2. Numbers(s) = Numbers(m)
  BY <1>1 DEF Numbers
<1>3. ASSUME NEW n \in Numbers(m)
      PROVE  \E i \in 1..Len(m) : Last(s, n) = s[i] /\ Last(m, n) = m[i]
  <2>1. PICK i \in 1..Len(m) : IsLast(m, n, i)
    BY LastExists
  <2>2. IsLast(s, n, i) /\ i \in 1..Len(s)
    BY <2>1 DEF IsLast
  <2>3. Last(m, n) = m[i]
    BY <2>1, LastIs
  <2>4. Last(s, n) = s[i]
    BY <2>2, LastIs
  <2>5. QED
    BY <2>3, <2>4
<1>4. QED
  BY <1>2, <1>3

MessageEntry(f) == Entry(f, Content[f], ReadAs[f])

Entries(m) == [i \in 1..Len(m) |-> MessageEntry(m[i])]

LEMMA EntriesType ==
  ASSUME NEW F, NEW m \in Seq(F)
  PROVE  /\ Entries(m) \in Seq({MessageEntry(f) : f \in F})
         /\ Len(Entries(m)) = Len(m)
         /\ \A i \in 1..Len(m) :
              /\ Entries(m)[i] = MessageEntry(m[i])
              /\ Entries(m)[i].bytes = EncodedField(m[i], Content[m[i]])
              /\ Entries(m)[i].number = m[i].number
              /\ Entries(m)[i].value = ReadAs[m[i]]
              /\ Entries(m)[i].kind = m[i].kind
<1>. DEFINE E == {MessageEntry(f) : f \in F}
<1>1. Len(m) \in Nat /\ DOMAIN m = 1..Len(m) /\ \A i \in 1..Len(m) : m[i] \in F
  BY LenProperties
<1>2. \A i \in 1..Len(m) : MessageEntry(m[i]) \in E
  BY <1>1
<1>. HIDE DEF E
<1>3. Entries(m) \in Seq(E) /\ Len(Entries(m)) = Len(m)
  BY <1>1, <1>2 DEF Entries
<1>4. \A i \in 1..Len(m) : Entries(m)[i] = MessageEntry(m[i])
  BY DEF Entries
<1>5. QED
  BY <1>3, <1>4 DEF E, MessageEntry, Entry

LEMMA EntriesSay ==
  ASSUME NEW F, NEW m \in Seq(F)
  PROVE  Says(Entries(m)) = Meant(m)
<1>. DEFINE E == {MessageEntry(f) : f \in F}
            s == Entries(m)
<1>1. s \in Seq(E) /\ Len(s) = Len(m)
  BY EntriesType
<1>2. \A i \in 1..Len(m) : s[i].number = m[i].number /\ s[i].value = ReadAs[m[i]]
  BY EntriesType
<1>. HIDE DEF E, s
<1>3. /\ Numbers(s) = Numbers(m)
      /\ \A n \in Numbers(m) : \E i \in 1..Len(m) : Last(s, n) = s[i] /\ Last(m, n) = m[i]
  BY <1>1, <1>2, SameNumbers
<1>4. \A n \in Numbers(m) : Last(s, n).value = ReadAs[Last(m, n)]
  BY <1>2, <1>3
<1>5. Says(s) = Meant(m)
  BY <1>3, <1>4 DEF Says, Meant, MeantAs
<1>6. QED
  BY <1>5 DEF s

LEMMA EntriesTake ==
  ASSUME NEW F, NEW m \in Seq(F), NEW k \in Nat
  PROVE  Take(m, k) \in Seq(F) /\ Take(Entries(m), k) = Entries(Take(m, k))
<1>. DEFINE E == {MessageEntry(f) : f \in F}
            s == Entries(m)
            t == Take(m, k)
            u == Take(s, k)
            v == Entries(t)
<1>1. s \in Seq(E) /\ Len(s) = Len(m)
  BY EntriesType
<1>2. \A i \in 1..Len(m) : s[i] = MessageEntry(m[i])
  BY EntriesType
<1>3. /\ t \in Seq(F) /\ Len(t) = IF k < Len(m) THEN k ELSE Len(m)
      /\ \A i \in 1..Len(t) : t[i] = m[i]
  BY TakeDrop
<1>. HIDE DEF t
<1>4. v \in Seq(E) /\ Len(v) = Len(t)
  BY <1>3, EntriesType
<1>5. \A i \in 1..Len(t) : v[i] = MessageEntry(t[i])
  BY <1>3, EntriesType
<1>. HIDE DEF E, s, v
<1>6. /\ u \in Seq(E) /\ Len(u) = IF k < Len(s) THEN k ELSE Len(s)
      /\ \A i \in 1..Len(u) : u[i] = s[i]
  BY <1>1, TakeDrop
<1>. HIDE DEF u
<1>7. Len(m) \in Nat /\ Len(u) = Len(t) /\ Len(t) <= Len(m) /\ Len(t) \in Nat
  BY <1>1, <1>3, <1>6, LenProperties
<1>8. \A i \in 1..Len(u) : u[i] = v[i]
  <2>1. TAKE i \in 1..Len(u)
  <2>2. i \in 1..Len(t) /\ i \in 1..Len(m)
    BY <1>7
  <2>3. QED
    BY <1>2, <1>3, <1>5, <1>6, <2>2
<1>9. u = v
  <2>1. Len(u) = Len(v)
    BY <1>4, <1>7
  <2>2. QED
    BY <1>4, <1>6, <1>8, <2>1, SeqEqual
<1>10. QED
  BY <1>3, <1>9 DEF t, u, v, s

\* A message of fields that are each read as they should, as it is read and as it
\* is cut.
LEMMA MessageRoundTrip ==
  ASSUME NEW F, \A f \in F : IsField(MessageEntry(f)), NEW m \in Seq(F)
  PROVE  /\ Encoded(m) \in Seq(Bytes)
         /\ Decode[Encoded(m)] = Decoded(Meant(m))
         /\ \A n \in Nat : Decode[Take(Encoded(m), n)].error = "none" =>
              \E k \in 0..Len(m) : CutAt(Decode[Take(Encoded(m), n)], Entries(m), k)
<1>. DEFINE E == {MessageEntry(f) : f \in F}
            s == Entries(m)
<1>1. \A e \in E : IsField(e)
  OBVIOUS
<1>2. s \in Seq(E) /\ Len(s) = Len(m)
  BY EntriesType
<1>3. \A i \in 1..Len(m) : s[i].bytes = EncodedField(m[i], Content[m[i]])
  BY EntriesType
<1>4. Says(s) = Meant(m)
  BY EntriesSay
<1>. HIDE DEF E, s
<1>5. Wire(s) = Encoded(m)
  <2>1. DOMAIN s = 1..Len(m) /\ DOMAIN m = 1..Len(m)
    BY <1>2, LenProperties
  <2>2. [i \in DOMAIN s |-> s[i].bytes] = [i \in DOMAIN m |-> EncodedField(m[i], Content[m[i]])]
    BY <1>3, <2>1
  <2>3. QED
    BY <2>2 DEF Wire, Encoded, EncodedAs
<1>6. /\ Wire(s) \in Seq(Bytes)
      /\ Decode[Wire(s)] = Decoded(Says(s))
      /\ \A n \in Nat : Decode[Take(Wire(s), n)].error = "none" =>
           \E k \in 0..Len(s) : CutAt(Decode[Take(Wire(s), n)], s, k)
  BY <1>1, <1>2, MessageReads
<1>7. QED
  BY <1>2, <1>4, <1>5, <1>6 DEF s

-----------------------------------------------------------------------------
(* What a field carries and what it is read as, to any depth.              *)

ContentBody(g, f) == IF f.kind = "fields" THEN EncodedAs(g, f.value) ELSE f.value

ReadAsBody(g, f) ==
  IF f.kind \notin {"bytes", "fields"} THEN <<f.kind, f.value>>
  ELSE IF IsPrintable(Content[f]) THEN <<"text", Content[f]>>
  ELSE IF f.kind = "fields" THEN <<"fields", MeantAs(g, f.value)>>
  ELSE LooksLike(f.value)

OfContent == INSTANCE Recursion WITH S <- Fields, Size <- Depth, Body <- ContentBody
OfReadAs == INSTANCE Recursion WITH S <- Fields, Size <- Depth, Body <- ReadAsBody

\* The fields of a nested message nest less deep.
LEMMA NestedLess ==
  ASSUME NEW f \in Fields, f.kind = "fields"
  PROVE  f.value \in Seq({g \in Fields : Depth(g) < Depth(f)})
BY FieldsAssumption

LEMMA LastType ==
  ASSUME NEW F, NEW m \in Seq(F), NEW n \in Numbers(m)
  PROVE  Last(m, n) \in F
<1>1. PICK i \in 1..Len(m) : IsLast(m, n, i)
  BY LastExists
<1>2. Last(m, n) = m[i]
  BY <1>1, LastIs
<1>3. QED
  BY <1>2, ElementOfSeq

LEMMA ContentDef ==
  ASSUME NEW f \in Fields
  PROVE  Content[f] = IF f.kind = "fields" THEN Encoded(f.value) ELSE f.value
<1>1. OfContent!Sized
  BY FieldsAssumption DEF OfContent!Sized
<1>2. OfContent!Depends
  <2>. SUFFICES ASSUME NEW g, NEW h, NEW x \in Fields,
                       \A y \in Fields : Depth(y) < Depth(x) => g[y] = h[y]
                PROVE  ContentBody(g, x) = ContentBody(h, x)
    BY DEF OfContent!Depends
  <2>1. CASE x.kind = "fields"
    <3>. DEFINE m == x.value
                F == {y \in Fields : Depth(y) < Depth(x)}
    <3>1. m \in Seq(F)
      BY <2>1, NestedLess
    <3>2. \A y \in F : g[y] = h[y]
      OBVIOUS
    <3>. HIDE DEF m, F
    <3>3. \A i \in DOMAIN m : m[i] \in F
      BY <3>1, LenProperties, ElementOfSeq
    <3>4. \A i \in DOMAIN m : g[m[i]] = h[m[i]]
      BY <3>2, <3>3
    <3>5. EncodedAs(g, m) = EncodedAs(h, m)
      BY <3>4 DEF EncodedAs
    <3>6. QED
      BY <3>5 DEF ContentBody, m
  <2>2. CASE x.kind # "fields"
    BY <2>2 DEF ContentBody
  <2>3. QED
    BY <2>1, <2>2
<1>3. \E g : g = [x \in Fields |-> ContentBody(g, x)]
  BY <1>1, <1>2, OfContent!Exists
<1>4. Content = CHOOSE g : g = [x \in Fields |-> ContentBody(g, x)]
  BY DEF Content, ContentBody
<1>5. Content = [x \in Fields |-> ContentBody(Content, x)]
  BY <1>3, <1>4
<1>6. Content[f] = ContentBody(Content, f)
  BY <1>5
<1>7. QED
  BY <1>6 DEF ContentBody, Encoded

LEMMA ReadAsDef ==
  ASSUME NEW f \in Fields
  PROVE  ReadAs[f] = ReadAsBody(ReadAs, f)
<1>1. OfReadAs!Sized
  BY FieldsAssumption DEF OfReadAs!Sized
<1>2. OfReadAs!Depends
  <2>. SUFFICES ASSUME NEW g, NEW h, NEW x \in Fields,
                       \A y \in Fields : Depth(y) < Depth(x) => g[y] = h[y]
                PROVE  ReadAsBody(g, x) = ReadAsBody(h, x)
    BY DEF OfReadAs!Depends
  <2>1. CASE x.kind = "fields"
    <3>. DEFINE m == x.value
                F == {y \in Fields : Depth(y) < Depth(x)}
    <3>1. m \in Seq(F)
      BY <2>1, NestedLess
    <3>2. \A y \in F : g[y] = h[y]
      OBVIOUS
    <3>. HIDE DEF m, F
    <3>3. \A n \in Numbers(m) : Last(m, n) \in F
      BY <3>1, LastType
    <3>4. \A n \in Numbers(m) : g[Last(m, n)] = h[Last(m, n)]
      BY <3>2, <3>3
    <3>5. MeantAs(g, m) = MeantAs(h, m)
      BY <3>4 DEF MeantAs
    <3>6. QED
      BY <3>5 DEF ReadAsBody, m
  <2>2. CASE x.kind # "fields"
    BY <2>2 DEF ReadAsBody
  <2>3. QED
    BY <2>1, <2>2
<1>3. \E g : g = [x \in Fields |-> ReadAsBody(g, x)]
  BY <1>1, <1>2, OfReadAs!Exists
<1>4. ReadAs = CHOOSE g : g = [x \in Fields |-> ReadAsBody(g, x)]
  BY DEF ReadAs, ReadAsBody
<1>5. ReadAs = [x \in Fields |-> ReadAsBody(ReadAs, x)]
  BY <1>3, <1>4
<1>6. QED
  BY <1>5

\* A number is its own entry.
LEMMA NumberEntry ==
  ASSUME NEW f \in Fields, f.kind \notin {"bytes", "fields"}
  PROVE  MessageEntry(f) = Entry(f, f.value, <<f.kind, f.value>>)
<1>1. Content[f] = f.value
  BY ContentDef
<1>2. ReadAs[f] = <<f.kind, f.value>>
  BY ReadAsDef DEF ReadAsBody
<1>3. QED
  BY <1>1, <1>2 DEF MessageEntry

LEMMA NumberField ==
  ASSUME NEW f \in Fields, f.kind \notin {"bytes", "fields"}
  PROVE  IsField(MessageEntry(f))
<1>1. f.number \in Nat
  BY FieldsAssumption
<1>2. CASE f.kind = "int" /\ f.value \in (-Sign)..(Sign - 1)
  BY <1>1, <1>2, IntField, NumberEntry
<1>3. ASSUME NEW size \in Nat, f.value \in [1..size -> Bytes],
             \/ f.kind = "float" /\ size = FloatSize
             \/ f.kind = "double" /\ size = DoubleSize
      PROVE  IsField(MessageEntry(f))
  <2>. DEFINE kind == f.kind
  <2>1. f.kind = kind /\ \/ kind = "float" /\ size = FloatSize
                         \/ kind = "double" /\ size = DoubleSize
    BY <1>3
  <2>2. MessageEntry(f) = Entry(f, f.value, <<kind, f.value>>)
    BY NumberEntry
  <2>. HIDE DEF kind
  <2>3. IsField(Entry(f, f.value, <<kind, f.value>>))
    BY <1>1, <1>3, <2>1, FixedField
  <2>4. QED
    BY <2>2, <2>3
<1>4. CASE f.kind = "float" /\ f.value \in [1..FloatSize -> Bytes]
  BY <1>3, <1>4, FramesAssumption
<1>5. CASE f.kind = "double" /\ f.value \in [1..DoubleSize -> Bytes]
  BY <1>3, <1>5, FramesAssumption
<1>6. QED
  BY <1>2, <1>4, <1>5, FieldsAssumption

\* Each field is read as it should, if the fields nested in it are.
LEMMA FieldStep ==
  ASSUME NEW f \in Fields,
         \A g \in Fields : Depth(g) < Depth(f) => IsField(MessageEntry(g))
  PROVE  IsField(MessageEntry(f))
<1>. DEFINE c == Content[f]
            value == LengthDelimited(c, Decode[c], <<>>).value
<1>1. f.number \in Nat
  BY FieldsAssumption
<1>2. ASSUME f.kind \in {"bytes", "fields"}, c \in Seq(Bytes), value = ReadAs[f]
      PROVE  IsField(MessageEntry(f))
  <2>. HIDE DEF c
  <2>1. IsField(Entry(f, c, value))
    BY <1>1, <1>2, LongField
  <2>2. QED
    BY <1>2, <2>1 DEF MessageEntry, c
<1>3. CASE f.kind = "bytes"
  <2>1. f.value \in Seq(Bytes)
    BY <1>3, FieldsAssumption
  <2>2. c = f.value
    BY <1>3, ContentDef
  <2>3. ReadAs[f] = IF IsPrintable(c) THEN <<"text", c>> ELSE LooksLike(c)
    BY <1>3, <2>2, ReadAsDef DEF ReadAsBody
  <2>4. value = ReadAs[f]
    BY <2>3 DEF LengthDelimited, LooksLike, Read
  <2>5. QED
    BY <1>2, <1>3, <2>1, <2>2, <2>4
<1>4. CASE f.kind = "fields"
  <2>. DEFINE F == {g \in Fields : Depth(g) < Depth(f)}
              m == f.value
  <2>1. m \in Seq(F)
    BY <1>4, NestedLess
  <2>2. \A g \in F : IsField(MessageEntry(g))
    OBVIOUS
  <2>3. c = Encoded(m)
    BY <1>4, ContentDef
  <2>. HIDE DEF F, m
  <2>4. c \in Seq(Bytes) /\ Decode[c] = Decoded(Meant(m))
    BY <2>1, <2>2, <2>3, MessageRoundTrip
  <2>5. Decode[c].error = "none" /\ Decode[c].fields = Meant(m)
    BY <2>4 DEF Decoded
  <2>6. ReadAs[f] = IF IsPrintable(c) THEN <<"text", c>> ELSE <<"fields", Meant(m)>>
    BY <1>4, ReadAsDef DEF ReadAsBody, Meant, m
  <2>7. value = ReadAs[f]
    BY <2>5, <2>6 DEF LengthDelimited, Read
  <2>8. QED
    BY <1>2, <1>4, <2>4, <2>7
<1>5. QED
  BY <1>3, <1>4, NumberField

LEMMA MessageField == \A f \in Fields : IsField(MessageEntry(f))
<1>. DEFINE T == {f \in Fields : IsField(MessageEntry(f))}
<1>1. \A f \in Fields :
        (\A g \in Fields : Depth(g) < Depth(f) => g \in T) => f \in T
  BY FieldStep
<1>2. OfContent!Sized
  BY FieldsAssumption DEF OfContent!Sized
<1>3. \A f \in Fields : f \in T
  <2>. HIDE DEF T
  <2>. QED
    BY <1>1, <1>2, OfContent!Induction
<1>4. QED
  BY <1>3

\* What a charger says is what is read, of any number of fields nested to any
\* depth: decode_protobuf undoes the encoding, but for what looks like text and is
\* read as it, and for bytes that are none, which are read as they look.
THEOREM MessagesRoundTrip == Spec => []RoundTrip
<1>1. Received => RoundTrip
  BY MessageField, MessageRoundTrip DEF Received, RoundTrip
<1>2. QED
  BY <1>1, ReceivedInvariant, PTL

\* A body cut short anywhere is an error, or a part of what was said and at most
\* one field that is not.
THEOREM CutsAreContained == Spec => []CutIsContained
<1>1. ASSUME NEW m \in Seq(Fields), NEW n \in Nat, NEW d, d.error = "none",
             NEW k \in 0..Len(m), CutAt(d, Entries(m), k)
      PROVE  LET before == Meant(Take(m, k)) IN
             \/ d.fields = before
             \/ /\ k < Len(m) /\ m[k + 1].kind \in {"bytes", "fields"}
                /\ DOMAIN d.fields = DOMAIN before \cup {m[k + 1].number}
                /\ \A x \in DOMAIN before \ {m[k + 1].number} : d.fields[x] = before[x]
  <2>. DEFINE before == Meant(Take(m, k))
              s == Entries(m)
  <2>1. k \in Nat /\ Len(m) \in Nat
    BY LenProperties
  <2>2. Take(m, k) \in Seq(Fields) /\ Take(s, k) = Entries(Take(m, k))
    BY <2>1, EntriesTake
  <2>3. Says(Take(s, k)) = before
    BY <2>2, EntriesSay
  <2>4. Len(s) = Len(m)
    BY EntriesType
  <2>5. k < Len(m) => s[k + 1].number = m[k + 1].number /\ s[k + 1].kind = m[k + 1].kind
    <3>1. k < Len(m) => k + 1 \in 1..Len(m)
      BY <2>1
    <3>2. QED
      BY <3>1, EntriesType
  <2>6. CutAt(d, s, k)
    BY <1>1
  <2>. HIDE DEF before, s
  <2>7. \/ d.fields = before
        \/ /\ k < Len(m) /\ m[k + 1].kind \in {"bytes", "fields"}
           /\ DOMAIN d.fields = DOMAIN before \cup {m[k + 1].number}
           /\ \A x \in DOMAIN before \ {m[k + 1].number} : d.fields[x] = before[x]
    BY <2>3, <2>4, <2>5, <2>6 DEF CutAt
  <2>8. QED
    BY <2>7 DEF before
<1>2. Received => CutIsContained
  <2>. SUFFICES ASSUME Received,
                       NEW n \in 0..Len(Encoded(message)),
                       Decode[Take(Encoded(message), n)].error = "none"
                PROVE  \E k \in 0..Len(message) :
                         LET before == Meant(Take(message, k))
                             cut == Decode[Take(Encoded(message), n)] IN
                         \/ cut.fields = before
                         \/ /\ k < Len(message) /\ message[k + 1].kind \in {"bytes", "fields"}
                            /\ DOMAIN cut.fields = DOMAIN before \cup {message[k + 1].number}
                            /\ \A m \in DOMAIN before \ {message[k + 1].number} :
                                 cut.fields[m] = before[m]
    BY DEF CutIsContained
  <2>. DEFINE cut == Decode[Take(Encoded(message), n)]
  <2>1. message \in Seq(Fields) /\ n \in Nat
    BY DEF Received
  <2>2. PICK k \in 0..Len(message) : CutAt(cut, Entries(message), k)
    BY <2>1, MessageField, MessageRoundTrip
  <2>3. cut.error = "none"
    OBVIOUS
  <2>. HIDE DEF cut
  <2>4. LET before == Meant(Take(message, k)) IN
        \/ cut.fields = before
        \/ /\ k < Len(message) /\ message[k + 1].kind \in {"bytes", "fields"}
           /\ DOMAIN cut.fields = DOMAIN before \cup {message[k + 1].number}
           /\ \A x \in DOMAIN before \ {message[k + 1].number} : cut.fields[x] = before[x]
    BY <1>1, <2>1, <2>2, <2>3
  <2>5. QED
    BY <2>4 DEF cut
<1>3. QED
  BY <1>2, ReceivedInvariant, PTL
=============================================================================
