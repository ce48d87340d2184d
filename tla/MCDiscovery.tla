---------------------------- MODULE MCDiscovery -----------------------------
\* Tables for Discovery: whole; in part, without HELLO; HELLO alone; handles
\* exchanged, and a channel that cannot notify; and empty.
EXTENDS Discovery

Char(h, n) == [handle |-> h, notify |-> n]

MCTables ==
  {NoService,
   [c \in {"HELLO", "STATE", "DEBUG"} |->
      Char(CASE c = "HELLO" -> 1 [] c = "STATE" -> 2 [] c = "DEBUG" -> 3, TRUE)],
   [c \in {"STATE"} |-> Char(2, TRUE)],
   [c \in {"HELLO"} |-> Char(1, TRUE)],
   [c \in {"HELLO", "STATE"} |-> IF c = "HELLO" THEN Char(2, FALSE) ELSE Char(1, TRUE)],
   [c \in {"HELLO"} |-> Char(1, FALSE)],
   [c \in {} |-> Char(1, TRUE)]}
=============================================================================
