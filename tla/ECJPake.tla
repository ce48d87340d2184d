------------------------------- MODULE ECJPake -------------------------------
(***************************************************************************)
(* The class ECJPake (jpake.py), one side of an EC-JPAKE exchange, as      *)
(* operators on the record of its fields.  They return the fields as the   *)
(* method leaves them, also when it raises half-way; whether it raises is  *)
(* an operator of its own (Accepts...).                                    *)
(*                                                                         *)
(* A point of the curve is its discrete logarithm to the generator, an     *)
(* element of 0..Q-1, so that x * G is a product modulo Q.  The point at   *)
(* infinity, 0, has no encoding and is never sent: 0 also stands for the   *)
(* field that has no point yet.                                            *)
(*                                                                         *)
(* A proof of knowledge (the Schnorr proof of _zkp_write) is what its hash *)
(* binds it to: a base, a point and the identity of its author.            *)
(***************************************************************************)
EXTENDS Integers, Sequences

CONSTANT Q  \* _N, the order of the curve

ASSUME OrderAssumption == Q \in Nat \ {0, 1}

Points == 0..(Q - 1)
None   == 0
Gen    == 1

CLIENT == "client"
SERVER == "server"
Roles  == {CLIENT, SERVER}

peer_role(role) == IF role = CLIENT THEN SERVER ELSE CLIENT

Contexts ==
  [role : Roles, s : Nat, xm1 : Points, xm2 : Points,
   Xp1 : Points, Xp2 : Points, Xp : Points]

\* ECJPake.__init__.  (The points Xm1 and Xm2 are those of xm1 and xm2.)
NewContext(role, secret) ==
  [role |-> role, s |-> secret, xm1 |-> 0, xm2 |-> 0,
   Xp1 |-> None, Xp2 |-> None, Xp |-> None]

\* A bug: a random number is taken as it comes.
AnyScalar(k) == k >= 0

\* Whether _scalar keeps random number k; else it draws another.
IsScalar(k) == 1 <= k /\ k < Q

-----------------------------------------------------------------------------
(* Messages: points, each with a proof by its author that he knows its     *)
(* logarithm to the base; the server's second one is headed by the curve.  *)

Keys == [X : Points \ {None}, base : Points, by : Roles, intact : BOOLEAN]

Messages == [curve : BOOLEAN, keys : Seq(Keys)]

\* _kkp_write: x * G with a proof.
Key(G, x, ident) == [X |-> (x * G) % Q, base |-> G, by |-> ident, intact |-> TRUE]

\* A bug: G is left out of what the proof's hash binds.
VerifiesOnAnyBase(G, ident, key) == key.intact /\ key.by = ident

\* _kkp_read, _zkp_read: the proof is the one for this base and author.
Verifies(G, ident, key) == key.intact /\ key.by = ident /\ key.base = G

-----------------------------------------------------------------------------
(* Round one.                                                              *)

WriteRoundOne(j, x1, x2) == [j EXCEPT !.xm1 = x1, !.xm2 = x2]

RoundOne(j) ==
  [curve |-> FALSE, keys |-> <<Key(Gen, j.xm1, j.role), Key(Gen, j.xm2, j.role)>>]

\* How many keys of a round-one message are read before it is at fault.
KeysRead(j, m) ==
  LET Good(i) == ~m.curve /\ i <= Len(m.keys) /\ Verifies(Gen, peer_role(j.role), m.keys[i])
  IN IF ~Good(1) THEN 0 ELSE IF ~Good(2) THEN 1 ELSE 2

\* Each point is kept as soon as it is read.
ReadRoundOne(j, m) ==
  LET n == KeysRead(j, m)
  IN [j EXCEPT !.Xp1 = IF n >= 1 THEN m.keys[1].X ELSE @,
               !.Xp2 = IF n = 2 THEN m.keys[2].X ELSE @]

AcceptsRoundOne(j, m) == KeysRead(j, m) = 2 /\ Len(m.keys) = 2

-----------------------------------------------------------------------------
(* Round two.                                                              *)

\* A bug: the secret does not enter.
BlindedWithoutSecret(x, s) == x % Q

\* (self.xm2 * self.s) % _N
Blinded(x, s) == (x * s) % Q

\* The bases of this side's second message and of the peer's.
OwnBase(j)  == (j.Xp1 + j.Xp2 + j.xm1) % Q
PeerBase(j) == (j.xm1 + j.xm2 + j.Xp1) % Q

RoundTwo(j) ==
  [curve |-> j.role = SERVER, keys |-> <<Key(OwnBase(j), Blinded(j.xm2, j.s), j.role)>>]

\* Without keys of his own a party fails here, at a sum with None; a blinded
\* key at infinity (a secret that is 0 modulo Q) cannot be encoded.
WritesRoundTwo(j) ==
  /\ j.Xp1 # None /\ j.Xp2 # None
  /\ j.xm1 # 0
  /\ RoundTwo(j).keys[1].X # 0

\* The curve is named by the server, and by him alone.
ReadsRoundTwo(j, m) ==
  /\ j.Xp1 # None
  /\ j.xm1 # 0
  /\ m.curve = (j.role = CLIENT)
  /\ Verifies(PeerBase(j), peer_role(j.role), m.keys[1])

ReadRoundTwo(j, m) == [j EXCEPT !.Xp = IF ReadsRoundTwo(j, m) THEN m.keys[1].X ELSE @]

AcceptsRoundTwo(j, m) == ReadsRoundTwo(j, m) /\ Len(m.keys) = 1

\* derive_secret: K, of which the key is the hash of the x coordinate.
Shared(xm2, s, Xp, Xp2) == (xm2 * (Xp + ((-Blinded(xm2, s)) % Q) * Xp2)) % Q

\* A point and its opposite have the same x coordinate.
XCoordinate(K) == {K, (-K) % Q}

Derives(j) == j.Xp # None /\ j.Xp2 # None

DeriveSecret(j) == XCoordinate(Shared(j.xm2, j.s, j.Xp, j.Xp2))

=============================================================================
