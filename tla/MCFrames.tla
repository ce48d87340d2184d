------------------------------ MODULE MCFrames ------------------------------
\* Values for the constants of Frames.  A whole number is of 21 bits, three bytes
\* of a varint, as 64 bits are ten of them.  Of the characters beyond ASCII there
\* are U+0080, which is not printable, and U+00A9, which is.  The parts of a body
\* cover every wire type, a key or a length broken off, text, and bytes that are
\* none; of the nested messages some look like text, one of them - 20 C2 A9 20,
\* field 4 - only because its number encodes U+00A9.
EXTENDS Frames

ASCII == {<<b>> : b \in 0..127}
MCCharacters == ASCII \cup {<<194, 128>>, <<194, 169>>}
MCPrintable == {<<9>>, <<10>>, <<32>>, <<65>>, <<194, 169>>}

MCHeaderBytes == <<{0, 1}, {64, 68}, {0}, {0}, {0, 1}, {5, 6, 8, 10}>>
MCBodyBytes == {0, 1, 8, 9, 10, 11, 13, 65, 128, 169, 194, 255}

Field(n, k, v) == [number |-> n, kind |-> k, value |-> v]

Flat ==
  {Field(n, "int", v) : n \in {1, 16}, v \in {-Sign, -1, 128, Sign - 1}}
    \cup {Field(4, "int", 529602), Field(4, "int", 524354)}
    \cup {Field(2, "float", <<255, 0>>), Field(2, "double", <<1, 2, 3>>)}
    \cup {Field(1, "bytes", raw) :
            raw \in {<<>>, <<65, 194, 169>>, <<0>>, <<8, 1>>, <<194>>, <<194, 128>>}}

Nested == {Field(2, "fields", s) : s \in
  {<<>>, <<Field(1, "int", -1)>>, <<Field(4, "int", 529602)>>, <<Field(4, "int", 524354)>>,
   <<Field(1, "bytes", <<65, 194, 169>>), Field(1, "bytes", <<194>>)>>}}

NestedTwice == {Field(1, "fields", <<f, Field(16, "int", 128)>>) : f \in Nested}

MCFields == Flat \cup Nested \cup NestedTwice

MCDepth(f) == IF f \in Flat THEN 0 ELSE IF f \in Nested THEN 1 ELSE 2
=============================================================================
