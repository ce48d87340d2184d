----------------------------- MODULE MCHandshake -----------------------------
\* Handshake with random numbers that TLC can take: generic ones, of which no
\* two sums of three are the same modulo Q.
EXTENDS Handshake

TwoPins        == {1234, 999}
ClientNumbers  == <<205, 0, 771, 607, 88>>
ChargerNumbers == <<931, 424, 1009, 153, 396, 509, 62>>
=============================================================================
