---------------------------- MODULE ECJPakeProofs ----------------------------
(***************************************************************************)
(* The arithmetic of EC-JPAKE for every order Q, every choice of scalars   *)
(* and every secret: with the same secret, both sides derive the same key; *)
(* with different ones, they arrive at different points of the curve.      *)
(***************************************************************************)
EXTENDS ECJPake, TLAPS

-----------------------------------------------------------------------------
(* Remainders.                                                             *)

\* A number is the product of its quotient and the order, and a remainder.
LEMMA Division ==
  ASSUME NEW n \in Int
  PROVE  /\ n % Q \in Points
         /\ n \div Q \in Int
         /\ n = Q * (n \div Q) + (n % Q)
BY OrderAssumption DEF Points

\* Quotient and remainder are unique.
LEMMA Remainder ==
  ASSUME NEW n \in Int, NEW k \in Int, NEW r \in Points, n = Q * k + r
  PROVE  n % Q = r
<1>. Q \in Nat /\ Q > 1
  BY OrderAssumption
<1>. DEFINE d == k - (n \div Q)
<1>2. n % Q \in 0..(Q - 1) /\ r \in 0..(Q - 1)
  BY Division DEF Points
<1>a. n \div Q \in Int /\ n = Q * (n \div Q) + (n % Q)
  BY Division
<1>b. Q * (k - (n \div Q)) = (n % Q) - r
  BY <1>2, <1>a
<1>1. d \in Int /\ Q * d = (n % Q) - r
  BY <1>a, <1>b
<1>. HIDE DEF d
<1>3. ~(d >= 1)
  <2>. SUFFICES ASSUME d >= 1 PROVE FALSE
    OBVIOUS
  <2>1. Q * d >= Q
    BY <1>1
  <2>. QED
    BY <2>1, <1>1, <1>2
<1>4. ~(d <= -1)
  <2>. SUFFICES ASSUME d <= -1 PROVE FALSE
    OBVIOUS
  <2>1. Q * d <= -Q
    BY <1>1
  <2>. QED
    BY <2>1, <1>1, <1>2
<1>5. d = 0
  BY <1>1, <1>3, <1>4
<1>. QED
  BY <1>1, <1>2, <1>5

\* Numbers that differ by a multiple of the order have the same remainder.
LEMMA SameRemainder ==
  ASSUME NEW m \in Int, NEW n \in Int, NEW k \in Int, m = n + Q * k
  PROVE  m % Q = n % Q
<1>. Q \in Nat
  BY OrderAssumption
<1>1. /\ n % Q \in Points /\ n \div Q \in Int
      /\ n = Q * (n \div Q) + (n % Q)
  BY Division
<1>2. (n \div Q) + k \in Int /\ m = Q * ((n \div Q) + k) + (n % Q)
  BY <1>1 DEF Points
<1>. QED
  BY <1>1, <1>2, Remainder

\* A remainder is the number itself up to a multiple of the order.
LEMMA RemainderIs ==
  ASSUME NEW n \in Int
  PROVE  \E k \in Int : n % Q = n + Q * k
<1>. Q \in Nat
  BY OrderAssumption
<1>1. n \div Q \in Int /\ n % Q \in Int /\ n = Q * (n \div Q) + (n % Q)
  BY Division DEF Points
<1>2. -(n \div Q) \in Int /\ n % Q = n + Q * (-(n \div Q))
  BY <1>1
<1>. QED
  BY <1>2

\* Factors may be reduced before they are multiplied.
LEMMA RemainderOfProduct ==
  ASSUME NEW u \in Int, NEW v \in Int
  PROVE  ((u % Q) * (v % Q)) % Q = (u * v) % Q
<1>. Q \in Nat
  BY OrderAssumption
<1>1. PICK k1 \in Int : u % Q = u + Q * k1
  BY RemainderIs
<1>2. PICK k2 \in Int : v % Q = v + Q * k2
  BY RemainderIs
<1>. DEFINE k == k1 * v + u * k2 + Q * (k1 * k2)
            L == (u % Q) * (v % Q)
            R == u * v
<1>3. (u + Q * k1) * (v + Q * k2) = u * v + Q * k
  OBVIOUS
<1>4. L \in Int /\ R \in Int /\ k \in Int
  BY <1>1, <1>2
<1>5. L = R + Q * k
  BY <1>1, <1>2, <1>3
<1>. HIDE DEF k, L, R
<1>6. L % Q = R % Q
  BY <1>4, <1>5, SameRemainder
<1>. QED
  BY <1>6 DEF L, R

-----------------------------------------------------------------------------
(* The shared secret.                                                      *)

\* The round-two point of a party with keys c and d, to a party with a and b.
PointTwo(a, b, c, d, s) == (Blinded(d, s) * ((a + b + c) % Q)) % Q

\* What a party with keys a and b and secret s arrives at with one with c, d
\* and t.
Arrives(a, b, c, d, s, t) == (b * d * (t * (a + b + c) - s * b)) % Q

\* The secret both are to arrive at.
Agreed(a, b, c, d, s) == (b * d * s * (a + c)) % Q

\* What derive_secret computes with secret s from the keys of an honest peer
\* with secret t: own keys a and b, the peer's c and d, his round-two point.
LEMMA SharedIs ==
  ASSUME NEW a \in Int, NEW b \in Int, NEW c \in Int, NEW d \in Int,
         NEW s \in Int, NEW t \in Int
  PROVE  Shared(b, s, PointTwo(a, b, c, d, t), d) = Arrives(a, b, c, d, s, t)
<1>. Q \in Nat
  BY OrderAssumption
<1>1. a + b + c \in Int /\ d * t \in Int /\ b * s \in Int
  OBVIOUS
<1>2. PICK k1 \in Int : Blinded(d, t) = d * t + Q * k1
  BY <1>1, RemainderIs DEF Blinded
<1>3. PICK k2 \in Int : (a + b + c) % Q = (a + b + c) + Q * k2
  BY <1>1, RemainderIs
<1>. DEFINE X == Blinded(d, t) * ((a + b + c) % Q)
<1>4. X \in Int
  BY <1>1, <1>2, <1>3
<1>5. PICK k3 \in Int : X % Q = X + Q * k3
  BY <1>4, RemainderIs
<1>6. PICK k4 \in Int : Blinded(b, s) = b * s + Q * k4
  BY <1>1, RemainderIs DEF Blinded
<1>7. -Blinded(b, s) \in Int
  BY <1>1, <1>6
<1>8. PICK k5 \in Int : (-Blinded(b, s)) % Q = -Blinded(b, s) + Q * k5
  BY <1>7, RemainderIs
<1>. DEFINE K1 == k1 * (a + b + c + Q * k2) + d * t * k2 + k3
            K2 == k5 - k4
<1>9. K1 \in Int /\ K2 \in Int
  OBVIOUS
<1>10. X % Q = d * t * (a + b + c) + Q * K1
  BY <1>2, <1>3, <1>5
<1>11. (-Blinded(b, s)) % Q = -(b * s) + Q * K2
  BY <1>6, <1>8
<1>. HIDE DEF X, K1, K2
<1>12. (X % Q) + ((-Blinded(b, s)) % Q) * d = d * (t * (a + b + c) - s * b) + Q * (K1 + K2 * d)
  BY <1>9, <1>10, <1>11
<1>. DEFINE L == b * ((X % Q) + ((-Blinded(b, s)) % Q) * d)
            R == b * d * (t * (a + b + c) - s * b)
            K == b * (K1 + K2 * d)
<1>13. L = R + Q * K
  BY <1>9, <1>12
<1>14. R \in Int /\ K \in Int
  BY <1>9
<1>. HIDE DEF L, R, K
<1>15. L \in Int
  BY <1>13, <1>14
<1>16. L % Q = R % Q
  BY <1>13, <1>14, <1>15, SameRemainder
<1>. QED
  BY <1>16 DEF Shared, PointTwo, Arrives, X, L, R

\* With the same secret it is what both are to arrive at.
LEMMA SharedSecret ==
  ASSUME NEW a \in Int, NEW b \in Int, NEW c \in Int, NEW d \in Int, NEW s \in Int
  PROVE  Shared(b, s, PointTwo(a, b, c, d, s), d) = Agreed(a, b, c, d, s)
<1>1. b * d * (s * (a + b + c) - s * b) = b * d * s * (a + c)
  OBVIOUS
<1>. QED
  BY <1>1, SharedIs DEF Agreed, Arrives

\* Two contexts have read each other's messages.
Exchanged(c, d) ==
  /\ c.Xp1 = d.xm1 /\ c.Xp2 = d.xm2 /\ c.Xp = RoundTwo(d).keys[1].X
  /\ d.Xp1 = c.xm1 /\ d.Xp2 = c.xm2 /\ d.Xp = RoundTwo(c).keys[1].X

LEMMA ExchangedArrives ==
  ASSUME NEW c \in Contexts, NEW d \in Contexts, Exchanged(c, d)
  PROVE  Shared(c.xm2, c.s, c.Xp, c.Xp2) = Arrives(c.xm1, c.xm2, d.xm1, d.xm2, c.s, d.s)
<1>1. /\ c.xm1 \in Int /\ c.xm2 \in Int /\ c.s \in Int
      /\ d.xm1 \in Int /\ d.xm2 \in Int /\ d.s \in Int
  BY DEF Contexts, Points
<1>2. c.Xp = PointTwo(c.xm1, c.xm2, d.xm1, d.xm2, d.s) /\ c.Xp2 = d.xm2
  BY DEF Exchanged, RoundTwo, Key, OwnBase, PointTwo
<1>. QED
  BY <1>1, <1>2, SharedIs

\* Two contexts that have read each other's messages, and were given the same
\* secret, derive the same key (jpake.py: derive_secret on both sides).
THEOREM SameSecretSameKey ==
  ASSUME NEW c \in Contexts, NEW d \in Contexts, Exchanged(c, d), c.s = d.s
  PROVE  DeriveSecret(c) = DeriveSecret(d)
<1>1. /\ c.xm1 \in Int /\ c.xm2 \in Int /\ c.s \in Int
      /\ d.xm1 \in Int /\ d.xm2 \in Int
  BY DEF Contexts, Points
<1>2. ASSUME NEW a \in Int, NEW b \in Int, NEW e \in Int, NEW f \in Int, NEW s \in Int
      PROVE  Arrives(a, b, e, f, s, s) = Arrives(e, f, a, b, s, s)
  <2>1. b * f * (s * (a + b + e) - s * b) = f * b * (s * (e + f + a) - s * f)
    OBVIOUS
  <2>. QED
    BY <2>1 DEF Arrives
<1>3. Arrives(c.xm1, c.xm2, d.xm1, d.xm2, c.s, c.s) = Arrives(d.xm1, d.xm2, c.xm1, c.xm2, c.s, c.s)
  BY <1>1, <1>2
<1>4. Exchanged(d, c)
  BY DEF Exchanged
<1>5. Shared(c.xm2, c.s, c.Xp, c.Xp2) = Shared(d.xm2, d.s, d.Xp, d.Xp2)
  BY <1>3, <1>4, ExchangedArrives
<1>. QED
  BY <1>5 DEF DeriveSecret

\* What it means for the order to be a prime, as that of the curve is.
PrimeOrder == \A m, n \in Int : (m * n) % Q = 0 => m % Q = 0 \/ n % Q = 0

LEMMA NoMultiple ==
  ASSUME PrimeOrder, NEW m \in Int, NEW n \in Int, m % Q # 0, n % Q # 0
  PROVE  (m * n) % Q # 0
BY DEF PrimeOrder

LEMMA EqualRemainders ==
  ASSUME NEW m \in Int, NEW n \in Int, m % Q = n % Q
  PROVE  (m - n) % Q = 0
<1>. Q \in Nat /\ Q > 1
  BY OrderAssumption
<1>1. /\ m \div Q \in Int /\ n \div Q \in Int /\ n % Q \in Int
      /\ m = Q * (m \div Q) + (m % Q) /\ n = Q * (n \div Q) + (n % Q)
  BY Division DEF Points
<1>. DEFINE k == (m \div Q) - (n \div Q)
<1>2. k \in Int /\ m - n = Q * k + 0
  BY <1>1
<1>. HIDE DEF k
<1>3. m - n \in Int /\ 0 \in Points
  BY DEF Points
<1>. QED
  BY <1>2, <1>3, Remainder

\* Nothing about an exchange with secrets s and t is a multiple of the order.
NoneVanishes(a, b, c, d, s, t) ==
  b % Q # 0 /\ d % Q # 0 /\ (t - s) % Q # 0 /\ (a + b + c + d) % Q # 0

\* Then its two sides arrive at different points.
LEMMA PointsDiffer ==
  ASSUME PrimeOrder,
         NEW a \in Int, NEW b \in Int, NEW c \in Int, NEW d \in Int,
         NEW s \in Int, NEW t \in Int,
         NoneVanishes(a, b, c, d, s, t)
  PROVE  Arrives(a, b, c, d, s, t) # Arrives(c, d, a, b, t, s)
<1>. DEFINE U == b * d * (t * (a + b + c) - s * b)
            V == d * b * (s * (c + d + a) - t * d)
            E == b * d
            F == (t - s) * (a + b + c + d)
<1>1. U \in Int /\ V \in Int /\ E \in Int /\ F \in Int /\ U - V = E * F
  OBVIOUS
<1>2. E % Q # 0
  BY NoMultiple DEF NoneVanishes
<1>3. t - s \in Int /\ a + b + c + d \in Int
  OBVIOUS
<1>4. F % Q # 0
  BY <1>3, NoMultiple DEF NoneVanishes
<1>. HIDE DEF U, V, E, F
<1>5. (U - V) % Q # 0
  BY <1>1, <1>2, <1>4, NoMultiple
<1>6. U % Q # V % Q
  BY <1>1, <1>5, EqualRemainders
<1>. QED
  BY <1>6 DEF Arrives, U, V

\* Two contexts that have read each other's messages, and were given different
\* secrets, arrive at different points (jpake.py: derive_secret on both sides),
\* unless the secrets differ by a multiple of the order or the scalars add up
\* to one.
THEOREM OtherSecretOtherPoint ==
  ASSUME PrimeOrder,
         NEW c \in Contexts, NEW d \in Contexts, Exchanged(c, d),
         c.xm2 # 0, d.xm2 # 0,
         (d.s - c.s) % Q # 0, (c.xm1 + c.xm2 + d.xm1 + d.xm2) % Q # 0
  PROVE  Shared(c.xm2, c.s, c.Xp, c.Xp2) # Shared(d.xm2, d.s, d.Xp, d.Xp2)
<1>1. /\ c.xm1 \in Int /\ c.xm2 \in Points /\ c.xm2 \in Int /\ c.s \in Int
      /\ d.xm1 \in Int /\ d.xm2 \in Points /\ d.xm2 \in Int /\ d.s \in Int
  BY DEF Contexts, Points
<1>2. ASSUME NEW x \in Points, x # 0 PROVE x % Q # 0
  BY <1>2, OrderAssumption DEF Points
<1>3. NoneVanishes(c.xm1, c.xm2, d.xm1, d.xm2, c.s, d.s)
  BY <1>1, <1>2 DEF NoneVanishes
<1>4. Arrives(c.xm1, c.xm2, d.xm1, d.xm2, c.s, d.s)
        # Arrives(d.xm1, d.xm2, c.xm1, c.xm2, d.s, c.s)
  BY <1>1, <1>3, PointsDiffer
<1>5. Exchanged(d, c)
  BY DEF Exchanged
<1>. QED
  BY <1>4, <1>5, ExchangedArrives

=============================================================================
