--------------------------- MODULE HandshakeProofs ---------------------------
(***************************************************************************)
(* A session and a charger with the same PIN agree on the key, for every   *)
(* order, PIN and sequences of generic random numbers: KeysAgree.  With    *)
(* different PINs they never do: WrongPinDisagrees.                        *)
(***************************************************************************)
EXTENDS Handshake, ECJPakeProofs

LEMMA Constants ==
  /\ Q \in Nat /\ Q > 1
  /\ Pin \in Nat /\ Pins \subseteq Nat
  /\ ClientRandom \in Seq(Nat) /\ ChargerRandom \in Seq(Nat)
BY OrderAssumption, HandshakeAssumption

-----------------------------------------------------------------------------
(* Types.                                                                  *)

\* A scalar is a point that is not at infinity.
LEMMA ScalarIsPoint ==
  ASSUME NEW random \in Seq(Nat), NEW i \in Scalars(random)
  PROVE  i \in Nat /\ random[i] \in Points \ {None}
BY OrderAssumption DEF Scalars, IsScalar, Points, None

\* The keys of round one are those of their scalars.
LEMMA RoundOneKey ==
  ASSUME NEW x \in Points, NEW role
  PROVE  Key(Gen, x, role) = [X |-> x, base |-> Gen, by |-> role, intact |-> TRUE]
<1>1. x * Gen = Q * 0 + x /\ x * Gen \in Int
  BY Constants DEF Points, Gen
<1>2. (x * Gen) % Q = x
  BY <1>1, Remainder
<1>. QED
  BY <1>2 DEF Key

LEMMA RoundOneTyped ==
  ASSUME NEW j \in Contexts, j.xm1 # 0, j.xm2 # 0
  PROVE  RoundOne(j) \in Messages
<1>1. ASSUME NEW x \in Points \ {None} PROVE Key(Gen, x, j.role) \in Keys
  <2>1. Key(Gen, x, j.role) = [X |-> x, base |-> Gen, by |-> j.role, intact |-> TRUE]
    BY RoundOneKey
  <2>2. Gen \in Points /\ j.role \in Roles
    BY Constants DEF Gen, Points, Contexts
  <2>. QED
    BY <2>1, <2>2 DEF Keys
<1>2. j.xm1 \in Points \ {None} /\ j.xm2 \in Points \ {None}
  BY DEF Contexts, None
<1>3. Key(Gen, j.xm1, j.role) \in Keys /\ Key(Gen, j.xm2, j.role) \in Keys
  BY <1>1, <1>2
<1>. QED
  BY <1>3 DEF RoundOne, Messages

LEMMA RoundTwoTyped ==
  ASSUME NEW j \in Contexts, WritesRoundTwo(j)
  PROVE  RoundTwo(j) \in Messages
<1>1. OwnBase(j) \in Points
  BY Division DEF OwnBase, Contexts, Points
<1>2. Blinded(j.xm2, j.s) \in Points
  BY Division DEF Blinded, Contexts, Points
<1>3. (Blinded(j.xm2, j.s) * OwnBase(j)) % Q \in Points
  BY <1>1, <1>2, Division DEF Points
<1>4. Key(OwnBase(j), Blinded(j.xm2, j.s), j.role) \in Keys
  BY <1>1, <1>3 DEF Key, Keys, Contexts, WritesRoundTwo, RoundTwo, None
<1>. QED
  BY <1>4 DEF RoundTwo, Messages

LEMMA KeyTyped ==
  ASSUME NEW m \in Messages, NEW i \in DOMAIN m.keys
  PROVE  m.keys[i] \in Keys
<1>1. m.keys \in Seq(Keys)
  BY DEF Messages
<1>2. ASSUME NEW keys \in Seq(Keys), NEW k \in DOMAIN keys PROVE keys[k] \in Keys
  OBVIOUS
<1>. QED
  BY <1>1, <1>2

LEMMA ArrivalTyped ==
  ASSUME NEW sent \in Messages, Len(sent.keys) > 0, NEW m \in Arrivals(sent)
  PROVE  m \in Messages
<1>1. CASE m = sent
  BY <1>1
<1>2. CASE m = [sent EXCEPT !.keys = SubSeq(@, 1, 1)]
  <2>1. SubSeq(sent.keys, 1, 1) \in Seq(Keys)
    BY DEF Messages
  <2>. QED
    BY <1>2, <2>1 DEF Messages
<1>3. ASSUME NEW i \in DOMAIN sent.keys, m = [sent EXCEPT !.keys[i].intact = FALSE]
      PROVE  m \in Messages
  <2>1. [sent.keys[i] EXCEPT !.intact = FALSE] \in Keys
    <3>1. sent.keys[i] \in Keys
      BY KeyTyped
    <3>. QED
      BY <3>1 DEF Keys
  <2>2. [sent.keys EXCEPT ![i] = [sent.keys[i] EXCEPT !.intact = FALSE]] \in Seq(Keys)
    BY <2>1 DEF Messages
  <2>. QED
    BY <1>3, <2>2 DEF Messages
<1>. QED
  BY <1>1, <1>2, <1>3 DEF Arrivals

LEMMA ReadRoundOneTyped ==
  ASSUME NEW j \in Contexts, NEW m \in Messages
  PROVE  ReadRoundOne(j, m) \in Contexts
<1>1. KeysRead(j, m) >= 1 => 1 <= Len(m.keys)
  BY DEF KeysRead
<1>2. KeysRead(j, m) = 2 => 2 <= Len(m.keys)
  BY DEF KeysRead
<1>3. KeysRead(j, m) >= 1 => m.keys[1].X \in Points
  <2>1. KeysRead(j, m) >= 1 => 1 \in DOMAIN m.keys
    BY <1>1 DEF Messages
  <2>. QED
    BY <2>1, KeyTyped DEF Keys
<1>4. KeysRead(j, m) = 2 => m.keys[2].X \in Points
  <2>1. KeysRead(j, m) = 2 => 2 \in DOMAIN m.keys
    BY <1>2 DEF Messages
  <2>. QED
    BY <2>1, KeyTyped DEF Keys
<1>. QED
  BY <1>3, <1>4 DEF ReadRoundOne, Contexts

LEMMA SecretTyped ==
  ASSUME NEW j \in Contexts
  PROVE  DeriveSecret(j) \subseteq Points
<1>1. Blinded(j.xm2, j.s) \in Int
  BY Division DEF Blinded, Contexts, Points
<1>2. (-Blinded(j.xm2, j.s)) % Q \in Int
  BY <1>1, Division DEF Points
<1>3. Shared(j.xm2, j.s, j.Xp, j.Xp2) \in Points
  BY <1>2, Division DEF Shared, Contexts, Points
<1>4. (-Shared(j.xm2, j.s, j.Xp, j.Xp2)) % Q \in Points
  BY <1>3, Division DEF Points
<1>. QED
  BY <1>3, <1>4 DEF DeriveSecret, XCoordinate

\* The types, and that no message is empty.
Typed ==
  /\ TypeOK
  /\ \A m \in toCharger \cup toClient : Len(m.keys) > 0

\* The scalars drawn after number last are two points of their own.
LEMMA DrawnTyped ==
  ASSUME NEW random \in Seq(Nat), NEW last \in Nat, NEW i, NEW j,
         NextScalar(random, last, i), NextScalar(random, i, j)
  PROVE  /\ j \in Nat
         /\ random[i] \in Points \ {None} /\ random[j] \in Points \ {None}
<1>1. i \in Scalars(random) /\ j \in Scalars(random)
  BY DEF NextScalar
<1>. QED
  BY <1>1, ScalarIsPoint

LEMMA NewContextTyped ==
  ASSUME NEW role \in Roles, NEW secret \in Nat
  PROVE  NewContext(role, secret) \in Contexts
<1>1. None \in Points /\ 0 \in Points
  BY Constants DEF None, Points
<1>. QED
  BY <1>1 DEF NewContext, Contexts

LEMMA InitTyped == Init => Typed
<1>. SUFFICES ASSUME Init PROVE Typed
  OBVIOUS
<1>1. jpake \in Contexts /\ server \in Contexts
  <2>1. CLIENT \in Roles /\ SERVER \in Roles /\ Pin \in Nat /\ chargerPin \in Nat
    BY Constants DEF Init, Roles
  <2>. QED
    BY <2>1, NewContextTyped DEF Init
<1>. QED
  BY <1>1 DEF Init, Typed, TypeOK

LEMMA StartTyped == Typed /\ StartHandshake => Typed'
<1>. SUFFICES ASSUME Typed, StartHandshake PROVE Typed'
  OBVIOUS
<1>1. PICK i, j \in DOMAIN ClientRandom :
        /\ NextScalar(ClientRandom, drawn, i) /\ NextScalar(ClientRandom, i, j)
        /\ jpake' = WriteRoundOne(jpake, ClientRandom[i], ClientRandom[j])
        /\ drawn' = j
  BY DEF StartHandshake
<1>2. drawn' \in Nat /\ ClientRandom[i] \in Points \ {None} /\ ClientRandom[j] \in Points \ {None}
  BY <1>1, DrawnTyped, Constants DEF Typed, TypeOK
<1>3. jpake' \in Contexts /\ jpake'.xm1 # 0 /\ jpake'.xm2 # 0
  BY <1>1, <1>2 DEF WriteRoundOne, Typed, TypeOK, Contexts, None
<1>4. RoundOne(jpake') \in Messages /\ Len(RoundOne(jpake').keys) = 2
  BY <1>3, RoundOneTyped DEF RoundOne
<1>. QED
  BY <1>2, <1>3, <1>4 DEF StartHandshake, Typed, TypeOK, chargerVars

LEMMA ReplyOneTyped ==
  ASSUME Typed, NEW m \in Messages, ReadReplyOne(m)
  PROVE  Typed'
<1>1. jpake' \in Contexts
  BY ReadRoundOneTyped DEF ReadReplyOne, Typed, TypeOK
<1>2. WritesRoundTwo(jpake') =>
        RoundTwo(jpake') \in Messages /\ Len(RoundTwo(jpake').keys) = 1
  BY <1>1, RoundTwoTyped DEF RoundTwo
<1>3. /\ raised' \in BOOLEAN
      /\ toCharger' = toCharger
           \/ (WritesRoundTwo(jpake') /\ toCharger' = toCharger \cup {RoundTwo(jpake')})
      /\ UNCHANGED <<drawn, session_key, toClient, chargerVars>>
  <2>1. CASE AcceptsRoundOne(jpake, m) /\ WritesRoundTwo(jpake')
    <3>1. /\ UNCHANGED raised
          /\ toCharger' = toCharger \cup {RoundTwo(jpake')}
          /\ UNCHANGED <<drawn, session_key, toClient, chargerVars>>
      BY <2>1 DEF ReadReplyOne
    <3>2. raised' \in BOOLEAN
      BY <3>1 DEF Typed, TypeOK
    <3>. QED
      BY <2>1, <3>1, <3>2
  <2>2. CASE ~(AcceptsRoundOne(jpake, m) /\ WritesRoundTwo(jpake'))
    <3>1. /\ raised' = TRUE
          /\ UNCHANGED toCharger
          /\ UNCHANGED <<drawn, session_key, toClient, chargerVars>>
      BY <2>2 DEF ReadReplyOne
    <3>. QED
      BY <3>1
  <2>. QED
    BY <2>1, <2>2
<1>. QED
  BY <1>1, <1>2, <1>3 DEF Typed, TypeOK, chargerVars

LEMMA ReadRoundTwoTyped ==
  ASSUME NEW j \in Contexts, NEW m \in Messages, Len(m.keys) > 0
  PROVE  ReadRoundTwo(j, m) \in Contexts
<1>1. 1 \in DOMAIN m.keys
  BY DEF Messages
<1>2. m.keys[1].X \in Points
  BY <1>1, KeyTyped DEF Keys
<1>. QED
  BY <1>2 DEF ReadRoundTwo, Contexts

LEMMA ReplyTwoTyped ==
  ASSUME Typed, NEW m \in Messages, Len(m.keys) > 0, ReadReplyTwo(m)
  PROVE  Typed'
<1>1. jpake' \in Contexts
  BY ReadRoundTwoTyped DEF ReadReplyTwo, Typed, TypeOK
<1>2. DeriveSecret(jpake') \subseteq Points
  BY <1>1, SecretTyped
<1>. QED
  BY <1>1, <1>2 DEF ReadReplyTwo, Typed, TypeOK, chargerVars

LEMMA ChargerOneTyped ==
  ASSUME Typed, NEW m \in toCharger, ChargerReadsRoundOne(m)
  PROVE  Typed'
<1>. DEFINE Fresh(i, j) == WriteRoundOne(NewContext(SERVER, chargerPin),
                                         ChargerRandom[i], ChargerRandom[j])
<1>1. PICK i, j \in DOMAIN ChargerRandom :
        /\ NextScalar(ChargerRandom, serverDrawn, i) /\ NextScalar(ChargerRandom, i, j)
        /\ server' = ReadRoundOne(Fresh(i, j), m)
        /\ serverDrawn' = j
  BY DEF ChargerReadsRoundOne
<1>2. /\ serverDrawn' \in Nat
      /\ ChargerRandom[i] \in Points \ {None} /\ ChargerRandom[j] \in Points \ {None}
  BY <1>1, DrawnTyped, Constants DEF Typed, TypeOK
<1>a. NewContext(SERVER, chargerPin) \in Contexts
  <2>1. SERVER \in Roles /\ chargerPin \in Nat
    BY Constants DEF Typed, TypeOK, Roles
  <2>. QED
    BY <2>1, NewContextTyped
<1>3. Fresh(i, j) \in Contexts
  BY <1>2, <1>a DEF WriteRoundOne, Contexts
<1>4. server' \in Contexts
  BY <1>1, <1>3, ReadRoundOneTyped DEF Typed, TypeOK
<1>5. server'.xm1 # 0 /\ server'.xm2 # 0
  BY <1>1, <1>2 DEF ReadRoundOne, WriteRoundOne, NewContext, None
<1>6. RoundOne(server') \in Messages /\ Len(RoundOne(server').keys) = 2
  BY <1>4, <1>5, RoundOneTyped DEF RoundOne
<1>7. toClient' = toClient \cup {RoundOne(server')} /\ UNCHANGED <<sessionVars, toCharger, chargerPin, serverKeys>>
  BY DEF ChargerReadsRoundOne
<1>. HIDE DEF Fresh
<1>. QED
  BY <1>2, <1>4, <1>6, <1>7 DEF Typed, TypeOK, sessionVars

LEMMA ChargerTwoTyped ==
  ASSUME Typed, NEW m \in toCharger, ChargerReadsRoundTwo(m)
  PROVE  Typed'
<1>1. server' \in Contexts
  BY ReadRoundTwoTyped DEF ChargerReadsRoundTwo, Typed, TypeOK
<1>2. DeriveSecret(server') \subseteq Points
  BY <1>1, SecretTyped
<1>3. RoundTwo(server) \in Messages /\ Len(RoundTwo(server).keys) = 1
  BY RoundTwoTyped DEF ChargerReadsRoundTwo, Typed, TypeOK, RoundTwo
<1>. QED
  BY <1>1, <1>2, <1>3 DEF ChargerReadsRoundTwo, Typed, TypeOK, sessionVars

\* Cutting leaves a key.
LEMMA ArrivalNotEmpty ==
  ASSUME NEW sent \in Messages, Len(sent.keys) > 0, NEW m \in Arrivals(sent)
  PROVE  Len(m.keys) > 0
<1>. sent.keys \in Seq(Keys)
  BY DEF Messages
<1>1. CASE m = [sent EXCEPT !.keys = SubSeq(@, 1, 1)]
  BY <1>1 DEF Messages
<1>2. ASSUME NEW i \in DOMAIN sent.keys, m = [sent EXCEPT !.keys[i].intact = FALSE]
      PROVE  Len(m.keys) > 0
  <2>1. m.keys = [sent.keys EXCEPT ![i] = [sent.keys[i] EXCEPT !.intact = FALSE]]
    BY <1>2 DEF Messages
  <2>. QED
    BY <2>1
<1>. QED
  BY <1>1, <1>2 DEF Arrivals

LEMMA NextTyped == Typed /\ [Next]_vars => Typed'
<1>. SUFFICES ASSUME Typed, [Next]_vars PROVE Typed'
  OBVIOUS
<1>1. CASE StartHandshake
  BY <1>1, StartTyped
<1>2. ASSUME NEW sent \in toClient, NEW m \in Arrivals(sent),
             ReadReplyOne(m) \/ ReadReplyTwo(m)
      PROVE  Typed'
  <2>1. m \in Messages /\ Len(m.keys) > 0
    BY ArrivalTyped, ArrivalNotEmpty DEF Typed, TypeOK
  <2>. QED
    BY <1>2, <2>1, ReplyOneTyped, ReplyTwoTyped
<1>3. ASSUME NEW m \in toCharger, ChargerReadsRoundOne(m) \/ ChargerReadsRoundTwo(m)
      PROVE  Typed'
  BY <1>3, ChargerOneTyped, ChargerTwoTyped
<1>4. CASE UNCHANGED vars
  BY <1>4 DEF vars, sessionVars, chargerVars, Typed, TypeOK
<1>. QED
  BY <1>1, <1>2, <1>3, <1>4 DEF Next

\* The variables keep their types.
THEOREM TypeCorrect == Spec => []TypeOK
<1>1. Typed => TypeOK
  BY DEF Typed
<1>. QED
  BY InitTyped, NextTyped, <1>1, PTL DEF Spec

-----------------------------------------------------------------------------
(* Who holds what.                                                         *)

\* The two scalars of one handshake: the second is the next after the first.
Pair(random, i, j) == i \in Scalars(random) /\ NextScalar(random, i, j)

\* What a context has of its own, and of the peer: nothing, or a pair.
Owns(c, random) ==
  \/ c.xm1 = 0
  \/ \E i, j \in Nat : Pair(random, i, j) /\ c.xm1 = random[i] /\ c.xm2 = random[j]

Knows(c, random) ==
  \/ c.Xp1 = None
  \/ \E i, j \in Nat : Pair(random, i, j) /\ c.Xp1 = random[i] /\ c.Xp2 = random[j]

\* Round one of a party with keys a and b; round two of a party with keys c
\* and d and secret s, to a peer with keys a and b.
One(role, a, b) ==
  [curve |-> FALSE, keys |-> <<Key(Gen, a, role), Key(Gen, b, role)>>]

Two(role, a, b, c, d, s) ==
  [curve |-> role = SERVER, keys |-> <<Key((a + b + c) % Q, Blinded(d, s), role)>>]

\* The key of the exchange of the client's scalars i, j with the charger's k, l.
Secret(i, j, k, l) ==
  XCoordinate(Agreed(ClientRandom[i], ClientRandom[j], ChargerRandom[k], ChargerRandom[l], Pin))

IsRequestOne(m) ==
  \E i, j \in Nat : /\ Pair(ClientRandom, i, j)
                    /\ m = One(CLIENT, ClientRandom[i], ClientRandom[j])

IsReplyOne(m) ==
  \E k, l \in Nat : /\ Pair(ChargerRandom, k, l)
                    /\ m = One(SERVER, ChargerRandom[k], ChargerRandom[l])

IsRequestTwo(m) ==
  \E i, j, k, l \in Nat :
    /\ Pair(ClientRandom, i, j) /\ Pair(ChargerRandom, k, l)
    /\ m = Two(CLIENT, ChargerRandom[k], ChargerRandom[l],
               ClientRandom[i], ClientRandom[j], Pin)

\* The charger has the key by the time it answers round two.
IsReplyTwo(m) ==
  \E i, j, k, l \in Nat :
    /\ Pair(ClientRandom, i, j) /\ Pair(ChargerRandom, k, l)
    /\ m = Two(SERVER, ClientRandom[i], ClientRandom[j],
               ChargerRandom[k], ChargerRandom[l], chargerPin)
    /\ chargerPin = Pin => Secret(i, j, k, l) \in serverKeys

ClientConsistent ==
  /\ jpake.role = CLIENT /\ jpake.s = Pin /\ Owns(jpake, ClientRandom)
  /\ ~raised => Knows(jpake, ChargerRandom)

ServerConsistent ==
  /\ server.role = SERVER /\ server.s = chargerPin
  /\ Owns(server, ChargerRandom) /\ Knows(server, ClientRandom)

Consistent ==
  /\ ClientConsistent
  /\ ServerConsistent
  /\ \A m \in toCharger : IsRequestOne(m) \/ IsRequestTwo(m)
  /\ \A m \in toClient : IsReplyOne(m) \/ IsReplyTwo(m)

\* A context that has read a and b in round one, X in round two.
ReadOne(c, a, b) == [c EXCEPT !.Xp1 = a, !.Xp2 = b]
ReadTwo(c, X) == [c EXCEPT !.Xp = X]

-----------------------------------------------------------------------------
(* What a message that is accepted says.                                   *)

LEMMA PairTyped ==
  ASSUME NEW random \in Seq(Nat), NEW i, NEW j, Pair(random, i, j)
  PROVE  /\ i \in Nat /\ j \in Nat /\ i < j
         /\ i \in Scalars(random) /\ j \in Scalars(random)
         /\ random[i] \in Points \ {None} /\ random[j] \in Points \ {None}
<1>1. i \in Scalars(random) /\ j \in Scalars(random) /\ i < j
  BY DEF Pair, NextScalar
<1>. QED
  BY <1>1, ScalarIsPoint

\* A round-one message is read as it was sent.
LEMMA RoundOneRead ==
  ASSUME NEW c \in Contexts, NEW role, NEW a \in Points, NEW b \in Points,
         NEW m \in Arrivals(One(role, a, b)), AcceptsRoundOne(c, m)
  PROVE  ReadRoundOne(c, m) = ReadOne(c, a, b)
<1>. DEFINE ka == [X |-> a, base |-> Gen, by |-> role, intact |-> TRUE]
            kb == [X |-> b, base |-> Gen, by |-> role, intact |-> TRUE]
<1>1. One(role, a, b) = [curve |-> FALSE, keys |-> <<ka, kb>>]
  BY RoundOneKey DEF One
<1>2. KeysRead(c, m) = 2 /\ Len(m.keys) = 2
  BY DEF AcceptsRoundOne
<1>3. m.keys[1].intact /\ m.keys[2].intact
  BY <1>2 DEF KeysRead, Verifies
<1>4. m = One(role, a, b)
  <2>1. m # [One(role, a, b) EXCEPT !.keys = SubSeq(@, 1, 1)]
    BY <1>1, <1>2
  <2>2. ASSUME NEW i \in DOMAIN One(role, a, b).keys,
               m = [One(role, a, b) EXCEPT !.keys[i].intact = FALSE]
        PROVE  FALSE
    <3>1. i \in {1, 2}
      BY <1>1
    <3>2. ~m.keys[i].intact
      BY <2>2, <1>1, <3>1
    <3>. QED
      BY <1>3, <3>1, <3>2
  <2>. QED
    BY <2>1, <2>2 DEF Arrivals
<1>5. m.keys[1].X = a /\ m.keys[2].X = b
  BY <1>1, <1>4
<1>. QED
  BY <1>2, <1>5 DEF ReadRoundOne, ReadOne

\* A round-two message has one key, which is intact if it is accepted.
LEMMA RoundTwoRead ==
  ASSUME NEW c \in Contexts, NEW curve, NEW key \in [X : Int, base : Int, by : Roles, intact : BOOLEAN],
         NEW m \in Arrivals([curve |-> curve, keys |-> <<key>>])
  PROVE  /\ ~AcceptsRoundOne(c, m)
         /\ AcceptsRoundTwo(c, m) =>
              /\ c.Xp1 # None /\ c.xm1 # 0
              /\ key.base = PeerBase(c)
              /\ ReadRoundTwo(c, m) = ReadTwo(c, key.X)
<1>. DEFINE sent == [curve |-> curve, keys |-> <<key>>]
<1>1. CASE m = sent
  BY <1>1 DEF AcceptsRoundOne, AcceptsRoundTwo, ReadsRoundTwo, ReadRoundTwo, ReadTwo, Verifies
<1>2. CASE m = [sent EXCEPT !.keys = SubSeq(@, 1, 1)]
  <2>1. m = sent
    BY <1>2
  <2>. QED
    BY <2>1, <1>1
<1>3. ASSUME NEW i \in DOMAIN sent.keys, m = [sent EXCEPT !.keys[i].intact = FALSE]
      PROVE  ~AcceptsRoundOne(c, m) /\ ~AcceptsRoundTwo(c, m)
  <2>1. i = 1 /\ Len(m.keys) = 1 /\ ~m.keys[1].intact
    BY <1>3
  <2>. QED
    BY <2>1 DEF AcceptsRoundOne, AcceptsRoundTwo, ReadsRoundTwo, Verifies
<1>. QED
  BY <1>1, <1>2, <1>3 DEF Arrivals

\* As RoundTwoRead, for the messages that the sides build.
LEMMA TwoRead ==
  ASSUME NEW t \in Contexts, NEW role \in Roles, NEW a \in Int, NEW b \in Int,
         NEW c \in Int, NEW d \in Int, NEW s \in Int,
         NEW m \in Arrivals(Two(role, a, b, c, d, s))
  PROVE  /\ ~AcceptsRoundOne(t, m)
         /\ AcceptsRoundTwo(t, m) =>
              /\ t.Xp1 # None /\ t.xm1 # 0
              /\ (a + b + c) % Q = PeerBase(t)
              /\ ReadRoundTwo(t, m) = ReadTwo(t, PointTwo(a, b, c, d, s))
<1>. DEFINE key == Key((a + b + c) % Q, Blinded(d, s), role)
<1>1. a + b + c \in Int /\ d * s \in Int
  OBVIOUS
<1>2. (a + b + c) % Q \in Int /\ Blinded(d, s) \in Int
  BY <1>1, Division DEF Blinded, Points
<1>3. PointTwo(a, b, c, d, s) \in Int
  BY <1>2, Division DEF PointTwo, Points
<1>4. key = [X |-> PointTwo(a, b, c, d, s), base |-> (a + b + c) % Q,
             by |-> role, intact |-> TRUE]
  BY DEF Key, PointTwo
<1>. HIDE DEF key
<1>5. key \in [X : Int, base : Int, by : Roles, intact : BOOLEAN]
  BY <1>2, <1>3, <1>4
<1>6. key.X = PointTwo(a, b, c, d, s) /\ key.base = (a + b + c) % Q
  BY <1>4
<1>7. Two(role, a, b, c, d, s) = [curve |-> role = SERVER, keys |-> <<key>>]
  BY DEF Two, key
<1>. QED
  BY <1>5, <1>6, <1>7, RoundTwoRead

\* A reply to round two is not taken for one to round one.
LEMMA ReplyTwoIsNotOne ==
  ASSUME Typed, NEW sent, IsReplyTwo(sent), NEW m \in Arrivals(sent)
  PROVE  ~AcceptsRoundOne(jpake, m)
<1>1. PICK i, j, k, l \in Nat :
        /\ Pair(ClientRandom, i, j) /\ Pair(ChargerRandom, k, l)
        /\ sent = Two(SERVER, ClientRandom[i], ClientRandom[j],
                      ChargerRandom[k], ChargerRandom[l], chargerPin)
  BY DEF IsReplyTwo
<1>2. /\ ClientRandom[i] \in Int /\ ClientRandom[j] \in Int
      /\ ChargerRandom[k] \in Int /\ ChargerRandom[l] \in Int
  BY <1>1, PairTyped, Constants DEF Points
<1>3. jpake \in Contexts /\ chargerPin \in Int /\ SERVER \in Roles
  BY Constants DEF Typed, TypeOK, Roles
<1>. QED
  BY <1>1, <1>2, <1>3, TwoRead

\* A request for round two is not taken for one for round one.
LEMMA RequestTwoIsNotOne ==
  ASSUME NEW c \in Contexts, NEW m, IsRequestTwo(m)
  PROVE  ~AcceptsRoundOne(c, m)
<1>1. PICK i, j, k, l \in Nat :
        /\ Pair(ClientRandom, i, j) /\ Pair(ChargerRandom, k, l)
        /\ m = Two(CLIENT, ChargerRandom[k], ChargerRandom[l],
                   ClientRandom[i], ClientRandom[j], Pin)
  BY DEF IsRequestTwo
<1>2. /\ ClientRandom[i] \in Int /\ ClientRandom[j] \in Int
      /\ ChargerRandom[k] \in Int /\ ChargerRandom[l] \in Int
      /\ Pin \in Int /\ CLIENT \in Roles
  BY <1>1, PairTyped, Constants DEF Points, Roles
<1>3. m \in Arrivals(m)
  BY DEF Arrivals
<1>. QED
  BY <1>1, <1>2, <1>3, TwoRead

\* A round-one message is not taken for one of round two.
LEMMA RoundOneIsNotTwo ==
  ASSUME NEW c \in Contexts, NEW role, NEW a, NEW b,
         NEW m \in Arrivals(One(role, a, b)),
         c.role = CLIENT \/ m = One(role, a, b)
  PROVE  ~AcceptsRoundTwo(c, m)
<1>1. CASE m = One(role, a, b)
  BY <1>1 DEF One, AcceptsRoundTwo
<1>2. CASE c.role = CLIENT
  <2>1. m.curve = FALSE
    BY DEF Arrivals, One
  <2>. QED
    BY <1>2, <2>1 DEF AcceptsRoundTwo, ReadsRoundTwo
<1>. QED
  BY <1>1, <1>2

\* The base of a round-two message tells the exchange.
LEMMA BaseTellsExchange ==
  ASSUME NEW random \in Seq(Nat), NEW other \in Seq(Nat), Generic(random, other),
         NEW i1, NEW i2, NEW j1, NEW j2, NEW k1, NEW k2, NEW l1, NEW l2,
         Pair(random, i1, i2), Pair(random, j1, j2),
         Pair(other, k1, k2), Pair(other, l1, l2),
         (random[i1] + random[i2] + other[k1]) % Q = (random[j1] + random[j2] + other[l1]) % Q
  PROVE  i1 = j1 /\ i2 = j2 /\ k1 = l1 /\ k2 = l2
<1>1. ASSUME NEW r \in Seq(Nat), NEW i, NEW j, Pair(r, i, j)
      PROVE  i \in Usable(r) /\ j \in Usable(r) /\ i < j
  BY <1>1, PairTyped DEF Scalars, Usable
<1>2. i1 = j1 /\ i2 = j2 /\ k1 = l1
  <2>1. /\ i1 \in Usable(random) /\ i2 \in Usable(random) /\ i1 < i2
        /\ j1 \in Usable(random) /\ j2 \in Usable(random) /\ j1 < j2
        /\ k1 \in Usable(other) /\ l1 \in Usable(other)
    BY <1>1
  <2>. QED
    BY <2>1, Zenon DEF Generic
<1>3. k2 \in Nat /\ l2 \in Nat
  BY PairTyped
<1>4. k2 <= l2 /\ l2 <= k2
  BY <1>2, PairTyped DEF Pair, NextScalar
<1>. QED
  BY <1>2, <1>3, <1>4

\* What round two computes from the keys of the other side, blinded with Pin.
LEMMA SecretOfClient ==
  ASSUME NEW i, NEW j, NEW k, NEW l,
         Pair(ClientRandom, i, j), Pair(ChargerRandom, k, l)
  PROVE  XCoordinate(Shared(ClientRandom[j], Pin,
                            PointTwo(ClientRandom[i], ClientRandom[j],
                                     ChargerRandom[k], ChargerRandom[l], Pin),
                            ChargerRandom[l])) = Secret(i, j, k, l)
<1>1. /\ ClientRandom[i] \in Int /\ ClientRandom[j] \in Int
      /\ ChargerRandom[k] \in Int /\ ChargerRandom[l] \in Int /\ Pin \in Int
  BY PairTyped, Constants DEF Points
<1>. QED
  BY <1>1, SharedSecret DEF Secret

LEMMA SecretOfServer ==
  ASSUME NEW i, NEW j, NEW k, NEW l,
         Pair(ClientRandom, i, j), Pair(ChargerRandom, k, l)
  PROVE  XCoordinate(Shared(ChargerRandom[l], Pin,
                            PointTwo(ChargerRandom[k], ChargerRandom[l],
                                     ClientRandom[i], ClientRandom[j], Pin),
                            ClientRandom[j])) = Secret(i, j, k, l)
<1>. DEFINE a == ClientRandom[i]  b == ClientRandom[j]
            c == ChargerRandom[k] d == ChargerRandom[l]
<1>1. a \in Int /\ b \in Int /\ c \in Int /\ d \in Int /\ Pin \in Int
  BY PairTyped, Constants DEF Points
<1>. HIDE DEF a, b, c, d
<1>2. Shared(d, Pin, PointTwo(c, d, a, b, Pin), b) = Agreed(c, d, a, b, Pin)
  BY <1>1, SharedSecret
<1>3. d * b * Pin * (c + a) = b * d * Pin * (a + c)
  BY <1>1
<1>4. Agreed(c, d, a, b, Pin) = Agreed(a, b, c, d, Pin)
  BY <1>3 DEF Agreed
<1>. QED
  BY <1>2, <1>4 DEF Secret, a, b, c, d

-----------------------------------------------------------------------------
(* The invariant.                                                          *)

IInv == Typed /\ Consistent /\ KeysAgree

LEMMA InitConsistent == Init => IInv
<1>. SUFFICES ASSUME Init PROVE IInv
  OBVIOUS
<1>1. ClientConsistent /\ ServerConsistent
  BY DEF Init, ClientConsistent, ServerConsistent, Owns, Knows, NewContext
<1>. QED
  BY <1>1, InitTyped DEF Init, IInv, Consistent, KeysAgree

\* Consistency after a step of the session that adds at most a good request.
LEMMA ConsistentIf ==
  ASSUME Consistent, ClientConsistent',
         \/ UNCHANGED toCharger
         \/ /\ toCharger' = toCharger \cup {RoundTwo(jpake')}
            /\ IsRequestTwo(RoundTwo(jpake')),
         UNCHANGED <<toClient, chargerPin, server, serverKeys>>
  PROVE  Consistent' /\ (KeysAgree /\ UNCHANGED session_key => KeysAgree')
<1>1. ServerConsistent'
  BY DEF Consistent, ServerConsistent
<1>2. \A m \in toCharger' : IsRequestOne(m) \/ IsRequestTwo(m)
  BY DEF Consistent
<1>3. \A m \in toClient' : IsReplyOne(m) \/ IsReplyTwo(m)'
  BY DEF Consistent, IsReplyTwo
<1>. QED
  BY <1>1, <1>2, <1>3 DEF Consistent, KeysAgree, IsRequestOne, IsRequestTwo, IsReplyOne

\* The same after a step of the charger that sends one good reply.
LEMMA ConsistentAfterCharger ==
  ASSUME Consistent, KeysAgree, ServerConsistent', NEW reply,
         toClient' = toClient \cup {reply}, IsReplyOne(reply) \/ IsReplyTwo(reply)',
         serverKeys \subseteq serverKeys',
         UNCHANGED <<jpake, session_key, raised, toCharger, chargerPin>>
  PROVE  Consistent' /\ KeysAgree'
<1>1. ClientConsistent'
  BY DEF Consistent, ClientConsistent
<1>2. ASSUME NEW m, IsReplyTwo(m) PROVE IsReplyTwo(m)'
  BY <1>2 DEF IsReplyTwo
<1>3. \A m \in toClient' : IsReplyOne(m) \/ IsReplyTwo(m)'
  BY <1>2 DEF Consistent
<1>. QED
  BY <1>1, <1>3 DEF Consistent, KeysAgree, IsRequestOne, IsRequestTwo, IsReplyOne

LEMMA StartConsistent == IInv /\ StartHandshake => Consistent' /\ KeysAgree'
<1>. SUFFICES ASSUME IInv, StartHandshake PROVE Consistent' /\ KeysAgree'
  OBVIOUS
<1>1. PICK i, j \in DOMAIN ClientRandom :
        /\ NextScalar(ClientRandom, drawn, i) /\ NextScalar(ClientRandom, i, j)
        /\ jpake' = WriteRoundOne(jpake, ClientRandom[i], ClientRandom[j])
  BY DEF StartHandshake
<1>2. Pair(ClientRandom, i, j) /\ i \in Nat /\ j \in Nat
  BY <1>1, Constants DEF Pair, NextScalar
<1>3. jpake' = [jpake EXCEPT !.xm1 = ClientRandom[i], !.xm2 = ClientRandom[j]]
  BY <1>1 DEF WriteRoundOne
<1>4. jpake \in Contexts
  BY DEF IInv, Typed, TypeOK
<1>5. /\ jpake'.xm1 = ClientRandom[i] /\ jpake'.xm2 = ClientRandom[j]
      /\ jpake'.role = jpake.role /\ jpake'.s = jpake.s
      /\ jpake'.Xp1 = jpake.Xp1 /\ jpake'.Xp2 = jpake.Xp2
  BY <1>3, <1>4 DEF Contexts
<1>6. UNCHANGED <<session_key, raised, toClient, chargerPin, server, serverKeys>>
  BY DEF StartHandshake, chargerVars
<1>7. ClientConsistent'
  BY <1>2, <1>5, <1>6 DEF IInv, Consistent, ClientConsistent, Owns, Knows
<1>8. RoundOne(jpake') = One(CLIENT, ClientRandom[i], ClientRandom[j])
  BY <1>5 DEF RoundOne, One, IInv, Consistent, ClientConsistent
<1>9. IsRequestOne(RoundOne(jpake'))
  BY <1>2, <1>8 DEF IsRequestOne
<1>10. ServerConsistent'
  BY <1>6 DEF IInv, Consistent, ServerConsistent
<1>11. \A m \in toCharger' : IsRequestOne(m) \/ IsRequestTwo(m)
  BY <1>9 DEF StartHandshake, IInv, Consistent
<1>12. \A m \in toClient' : IsReplyOne(m) \/ IsReplyTwo(m)'
  BY <1>6 DEF IInv, Consistent, IsReplyTwo
<1>. QED
  BY <1>6, <1>7, <1>10, <1>11, <1>12 DEF IInv, Consistent, KeysAgree, IsRequestOne, IsRequestTwo, IsReplyOne

LEMMA ReplyOneConsistent ==
  ASSUME IInv, NEW sent \in toClient, NEW m \in Arrivals(sent), ReadReplyOne(m)
  PROVE  Consistent' /\ KeysAgree'
<1>. Consistent /\ KeysAgree
  BY DEF IInv
<1>1. jpake \in Contexts /\ jpake.role = CLIENT /\ jpake.s = Pin
  BY DEF IInv, Typed, TypeOK, Consistent, ClientConsistent
<1>2. /\ jpake' = ReadRoundOne(jpake, m)
      /\ UNCHANGED <<session_key, toClient, chargerPin, server, serverKeys>>
  BY DEF ReadReplyOne, chargerVars
<1>3. /\ jpake'.role = CLIENT /\ jpake'.s = Pin
      /\ jpake'.xm1 = jpake.xm1 /\ jpake'.xm2 = jpake.xm2
  BY <1>1, <1>2 DEF ReadRoundOne, Contexts
<1>4. Owns(jpake', ClientRandom)
  BY <1>3 DEF Owns, IInv, Consistent, ClientConsistent
<1>5. ASSUME AcceptsRoundOne(jpake, m)
      PROVE  Knows(jpake', ChargerRandom)
  <2>1. CASE IsReplyOne(sent)
    <3>1. PICK k, l \in Nat : /\ Pair(ChargerRandom, k, l)
                             /\ sent = One(SERVER, ChargerRandom[k], ChargerRandom[l])
      BY <2>1 DEF IsReplyOne
    <3>2. ChargerRandom[k] \in Points /\ ChargerRandom[l] \in Points
      BY <3>1, PairTyped, Constants
    <3>3. jpake' = ReadOne(jpake, ChargerRandom[k], ChargerRandom[l])
      <4>1. m \in Arrivals(One(SERVER, ChargerRandom[k], ChargerRandom[l]))
        BY <3>1
      <4>2. ReadRoundOne(jpake, m) = ReadOne(jpake, ChargerRandom[k], ChargerRandom[l])
        BY <1>1, <1>5, <3>2, <4>1, RoundOneRead
      <4>. QED
        BY <1>2, <4>2
    <3>4. jpake'.Xp1 = ChargerRandom[k] /\ jpake'.Xp2 = ChargerRandom[l]
      BY <1>1, <3>3 DEF ReadOne, Contexts
    <3>. QED
      BY <3>1, <3>4 DEF Knows
  <2>2. CASE IsReplyTwo(sent)
    BY <1>5, <2>2, ReplyTwoIsNotOne DEF IInv
  <2>. QED
    BY <2>1, <2>2 DEF IInv, Consistent
<1>6. CASE AcceptsRoundOne(jpake, m) /\ WritesRoundTwo(jpake')
  <2>1. toCharger' = toCharger \cup {RoundTwo(jpake')} /\ UNCHANGED raised
    BY <1>6 DEF ReadReplyOne
  <2>2. Knows(jpake', ChargerRandom)
    BY <1>5, <1>6
  <2>3. IsRequestTwo(RoundTwo(jpake'))
    <3>1. PICK i, j \in Nat : /\ Pair(ClientRandom, i, j)
                             /\ jpake'.xm1 = ClientRandom[i] /\ jpake'.xm2 = ClientRandom[j]
      BY <1>4, <1>6 DEF Owns, WritesRoundTwo
    <3>2. PICK k, l \in Nat : /\ Pair(ChargerRandom, k, l)
                             /\ jpake'.Xp1 = ChargerRandom[k] /\ jpake'.Xp2 = ChargerRandom[l]
      BY <1>6, <2>2 DEF Knows, WritesRoundTwo
    <3>3. RoundTwo(jpake') = Two(CLIENT, ChargerRandom[k], ChargerRandom[l],
                                 ClientRandom[i], ClientRandom[j], Pin)
      BY <1>3, <3>1, <3>2 DEF RoundTwo, Two, OwnBase
    <3>. QED
      BY <3>1, <3>2, <3>3 DEF IsRequestTwo
  <2>4. ClientConsistent'
    BY <1>3, <1>4, <2>2 DEF ClientConsistent
  <2>. QED
    BY <1>2, <2>1, <2>3, <2>4, ConsistentIf
<1>7. CASE ~(AcceptsRoundOne(jpake, m) /\ WritesRoundTwo(jpake'))
  <2>1. raised' = TRUE /\ UNCHANGED toCharger
    BY <1>7 DEF ReadReplyOne
  <2>2. ClientConsistent'
    BY <1>3, <1>4, <2>1 DEF ClientConsistent
  <2>. QED
    BY <1>2, <2>1, <2>2, ConsistentIf
<1>. QED
  BY <1>6, <1>7

\* The key that the session derives is of one exchange, and with the charger's
\* PIN the charger has it.
LEMMA ReplyTwoDerives ==
  ASSUME IInv, NEW sent \in toClient, NEW m \in Arrivals(sent), ~raised,
         AcceptsRoundTwo(jpake, m)
  PROVE  \E i, j, k, l \in Nat :
           /\ Pair(ClientRandom, i, j) /\ Pair(ChargerRandom, k, l)
           /\ DeriveSecret(ReadRoundTwo(jpake, m)) =
                XCoordinate(Shared(ClientRandom[j], Pin,
                                   PointTwo(ClientRandom[i], ClientRandom[j],
                                            ChargerRandom[k], ChargerRandom[l], chargerPin),
                                   ChargerRandom[l]))
           /\ chargerPin = Pin => Secret(i, j, k, l) \in serverKeys
<1>1. jpake \in Contexts /\ jpake.role = CLIENT /\ jpake.s = Pin
  BY DEF IInv, Typed, TypeOK, Consistent, ClientConsistent
<1>2. IsReplyTwo(sent)
  BY <1>1, RoundOneIsNotTwo DEF IsReplyOne, IInv, Consistent
<1>3. PICK i, j, k, l \in Nat :
        /\ Pair(ClientRandom, i, j) /\ Pair(ChargerRandom, k, l)
        /\ sent = Two(SERVER, ClientRandom[i], ClientRandom[j],
                      ChargerRandom[k], ChargerRandom[l], chargerPin)
        /\ chargerPin = Pin => Secret(i, j, k, l) \in serverKeys
  BY <1>2 DEF IsReplyTwo
<1>4. /\ jpake.Xp1 # None /\ jpake.xm1 # 0
      /\ (ClientRandom[i] + ClientRandom[j] + ChargerRandom[k]) % Q = PeerBase(jpake)
      /\ ReadRoundTwo(jpake, m) =
           ReadTwo(jpake, PointTwo(ClientRandom[i], ClientRandom[j],
                                   ChargerRandom[k], ChargerRandom[l], chargerPin))
  <2>1. /\ ClientRandom[i] \in Int /\ ClientRandom[j] \in Int
        /\ ChargerRandom[k] \in Int /\ ChargerRandom[l] \in Int
        /\ chargerPin \in Int /\ SERVER \in Roles
    BY <1>3, PairTyped, Constants DEF Points, Roles, IInv, Typed, TypeOK
  <2>2. m \in Arrivals(Two(SERVER, ClientRandom[i], ClientRandom[j],
                           ChargerRandom[k], ChargerRandom[l], chargerPin))
    BY <1>3
  <2>. QED
    BY <1>1, <2>1, <2>2, TwoRead
<1>5. PICK i2, j2 \in Nat : /\ Pair(ClientRandom, i2, j2)
                           /\ jpake.xm1 = ClientRandom[i2] /\ jpake.xm2 = ClientRandom[j2]
  BY <1>4 DEF Owns, IInv, Consistent, ClientConsistent
<1>6. PICK k2, l2 \in Nat : /\ Pair(ChargerRandom, k2, l2)
                           /\ jpake.Xp1 = ChargerRandom[k2] /\ jpake.Xp2 = ChargerRandom[l2]
  BY <1>4 DEF Knows, IInv, Consistent, ClientConsistent
<1>7. i = i2 /\ j = j2 /\ k = k2 /\ l = l2
  <2>1. (ClientRandom[i] + ClientRandom[j] + ChargerRandom[k]) % Q
          = (ClientRandom[i2] + ClientRandom[j2] + ChargerRandom[k2]) % Q
    BY <1>4, <1>5, <1>6 DEF PeerBase
  <2>. QED
    BY <1>3, <1>5, <1>6, <2>1, BaseTellsExchange, Constants, GenericAssumption
<1>8. DeriveSecret(ReadRoundTwo(jpake, m)) =
        XCoordinate(Shared(ClientRandom[j], Pin,
                           PointTwo(ClientRandom[i], ClientRandom[j],
                                    ChargerRandom[k], ChargerRandom[l], chargerPin),
                           ChargerRandom[l]))
  BY <1>1, <1>4, <1>5, <1>6, <1>7 DEF DeriveSecret, ReadTwo, Contexts
<1>. QED
  BY <1>3, <1>8

\* With the charger's PIN, the key that the session derives is the charger's.
LEMMA ReplyTwoAgrees ==
  ASSUME IInv, NEW sent \in toClient, NEW m \in Arrivals(sent), ~raised,
         AcceptsRoundTwo(jpake, m), chargerPin = Pin
  PROVE  DeriveSecret(ReadRoundTwo(jpake, m)) \in serverKeys
<1>1. PICK i, j, k, l \in Nat :
        /\ Pair(ClientRandom, i, j) /\ Pair(ChargerRandom, k, l)
        /\ DeriveSecret(ReadRoundTwo(jpake, m)) =
             XCoordinate(Shared(ClientRandom[j], Pin,
                                PointTwo(ClientRandom[i], ClientRandom[j],
                                         ChargerRandom[k], ChargerRandom[l], Pin),
                                ChargerRandom[l]))
        /\ Secret(i, j, k, l) \in serverKeys
  BY ReplyTwoDerives
<1>. QED
  BY <1>1, SecretOfClient

LEMMA ReplyTwoConsistent ==
  ASSUME IInv, NEW sent \in toClient, NEW m \in Arrivals(sent), ReadReplyTwo(m)
  PROVE  Consistent' /\ KeysAgree'
<1>. Consistent
  BY DEF IInv
<1>1. jpake \in Contexts
  BY DEF IInv, Typed, TypeOK
<1>2. /\ ~raised /\ jpake' = ReadRoundTwo(jpake, m)
      /\ UNCHANGED <<toCharger, toClient, chargerPin, server, serverKeys>>
  BY DEF ReadReplyTwo, chargerVars
<1>3. /\ jpake'.role = jpake.role /\ jpake'.s = jpake.s
      /\ jpake'.xm1 = jpake.xm1 /\ jpake'.xm2 = jpake.xm2
      /\ jpake'.Xp1 = jpake.Xp1 /\ jpake'.Xp2 = jpake.Xp2
  BY <1>1, <1>2 DEF ReadRoundTwo, Contexts
<1>4. ClientConsistent'
  BY <1>2, <1>3 DEF IInv, Consistent, ClientConsistent, Owns, Knows
<1>5. session_key' = session_key
        \/ (AcceptsRoundTwo(jpake, m) /\ session_key' = DeriveSecret(jpake'))
  BY DEF ReadReplyTwo
<1>6. KeysAgree'
  BY <1>2, <1>5, ReplyTwoAgrees DEF IInv, KeysAgree
<1>7. Consistent'
  BY <1>2, <1>4, ConsistentIf
<1>. QED
  BY <1>6, <1>7

LEMMA ChargerOneConsistent ==
  ASSUME IInv, NEW m \in toCharger, ChargerReadsRoundOne(m)
  PROVE  Consistent' /\ KeysAgree'
<1>. DEFINE Fresh(k, l) == WriteRoundOne(NewContext(SERVER, chargerPin),
                                         ChargerRandom[k], ChargerRandom[l])
<1>1. PICK k, l \in DOMAIN ChargerRandom :
        /\ NextScalar(ChargerRandom, serverDrawn, k) /\ NextScalar(ChargerRandom, k, l)
        /\ AcceptsRoundOne(Fresh(k, l), m)
        /\ server' = ReadRoundOne(Fresh(k, l), m)
  BY DEF ChargerReadsRoundOne
<1>2. Pair(ChargerRandom, k, l) /\ k \in Nat /\ l \in Nat
  BY <1>1, Constants DEF Pair, NextScalar
<1>3. /\ Fresh(k, l).role = SERVER /\ Fresh(k, l).s = chargerPin
      /\ Fresh(k, l).xm1 = ChargerRandom[k] /\ Fresh(k, l).xm2 = ChargerRandom[l]
      /\ Fresh(k, l) \in Contexts
  <2>1. SERVER \in Roles /\ chargerPin \in Nat
    BY Constants DEF IInv, Typed, TypeOK, Roles
  <2>2. NewContext(SERVER, chargerPin) \in Contexts
    BY <2>1, NewContextTyped
  <2>3. ChargerRandom[k] \in Points /\ ChargerRandom[l] \in Points
    BY <1>2, PairTyped, Constants
  <2>4. Fresh(k, l) \in Contexts
    BY <2>2, <2>3 DEF WriteRoundOne, Contexts
  <2>. QED
    BY <2>4 DEF WriteRoundOne, NewContext
<1>. HIDE DEF Fresh
<1>4. IsRequestOne(m)
  BY <1>1, <1>3, RequestTwoIsNotOne DEF IInv, Consistent
<1>5. PICK i, j \in Nat : /\ Pair(ClientRandom, i, j)
                         /\ m = One(CLIENT, ClientRandom[i], ClientRandom[j])
  BY <1>4 DEF IsRequestOne
<1>6. server' = ReadOne(Fresh(k, l), ClientRandom[i], ClientRandom[j])
  <2>1. ClientRandom[i] \in Points /\ ClientRandom[j] \in Points
    BY <1>5, PairTyped, Constants
  <2>2. m \in Arrivals(One(CLIENT, ClientRandom[i], ClientRandom[j]))
    BY <1>5 DEF Arrivals
  <2>. QED
    BY <1>1, <1>3, <2>1, <2>2, RoundOneRead
<1>7. /\ server'.role = SERVER /\ server'.s = chargerPin
      /\ server'.xm1 = ChargerRandom[k] /\ server'.xm2 = ChargerRandom[l]
      /\ server'.Xp1 = ClientRandom[i] /\ server'.Xp2 = ClientRandom[j]
  BY <1>3, <1>6 DEF ReadOne, Contexts
<1>8. /\ toClient' = toClient \cup {RoundOne(server')}
      /\ UNCHANGED <<jpake, session_key, raised, toCharger, chargerPin, serverKeys>>
  BY DEF ChargerReadsRoundOne, sessionVars
<1>9. ServerConsistent'
  BY <1>2, <1>5, <1>7, <1>8 DEF ServerConsistent, Owns, Knows
<1>10. RoundOne(server') = One(SERVER, ChargerRandom[k], ChargerRandom[l])
  BY <1>7 DEF RoundOne, One
<1>11. IsReplyOne(RoundOne(server'))
  BY <1>2, <1>10 DEF IsReplyOne
<1>. QED
  BY <1>8, <1>9, <1>11, ConsistentAfterCharger DEF IInv

\* The key that the charger derives is of one exchange, and with the client's
\* PIN it is the one both are to have.
LEMMA RequestTwoAgrees ==
  ASSUME IInv, NEW m \in toCharger, ChargerReadsRoundTwo(m)
  PROVE  /\ server'.role = server.role /\ server'.s = server.s
         /\ server'.xm1 = server.xm1 /\ server'.xm2 = server.xm2
         /\ server'.Xp1 = server.Xp1 /\ server'.Xp2 = server.Xp2
         /\ \E i, j, k, l \in Nat :
              /\ Pair(ClientRandom, i, j) /\ Pair(ChargerRandom, k, l)
              /\ RoundTwo(server) = Two(SERVER, ClientRandom[i], ClientRandom[j],
                                        ChargerRandom[k], ChargerRandom[l], chargerPin)
              /\ DeriveSecret(server') =
                   XCoordinate(Shared(ChargerRandom[l], chargerPin,
                                      PointTwo(ChargerRandom[k], ChargerRandom[l],
                                               ClientRandom[i], ClientRandom[j], Pin),
                                      ClientRandom[j]))
              /\ chargerPin = Pin => DeriveSecret(server') = Secret(i, j, k, l)
<1>1. server \in Contexts /\ server.role = SERVER /\ server.s = chargerPin
  BY DEF IInv, Typed, TypeOK, Consistent, ServerConsistent
<1>2. AcceptsRoundTwo(server, m) /\ server' = ReadRoundTwo(server, m)
  BY DEF ChargerReadsRoundTwo
<1>3. IsRequestTwo(m)
  <2>1. m \in Arrivals(m)
    BY DEF Arrivals
  <2>2. ~IsRequestOne(m)
    BY <1>1, <1>2, <2>1, RoundOneIsNotTwo DEF IsRequestOne
  <2>. QED
    BY <2>2 DEF IInv, Consistent
<1>4. PICK i, j, k, l \in Nat :
        /\ Pair(ClientRandom, i, j) /\ Pair(ChargerRandom, k, l)
        /\ m = Two(CLIENT, ChargerRandom[k], ChargerRandom[l],
                   ClientRandom[i], ClientRandom[j], Pin)
  BY <1>3 DEF IsRequestTwo
<1>. DEFINE X == PointTwo(ChargerRandom[k], ChargerRandom[l],
                          ClientRandom[i], ClientRandom[j], Pin)
<1>5. /\ server.Xp1 # None /\ server.xm1 # 0
      /\ (ChargerRandom[k] + ChargerRandom[l] + ClientRandom[i]) % Q = PeerBase(server)
      /\ server' = ReadTwo(server, X)
  <2>1. /\ ClientRandom[i] \in Int /\ ClientRandom[j] \in Int
        /\ ChargerRandom[k] \in Int /\ ChargerRandom[l] \in Int
        /\ Pin \in Int /\ CLIENT \in Roles
    BY <1>4, PairTyped, Constants DEF Points, Roles
  <2>2. m \in Arrivals(Two(CLIENT, ChargerRandom[k], ChargerRandom[l],
                           ClientRandom[i], ClientRandom[j], Pin))
    BY <1>4 DEF Arrivals
  <2>. QED
    BY <1>1, <1>2, <2>1, <2>2, TwoRead
<1>6. PICK k2, l2 \in Nat : /\ Pair(ChargerRandom, k2, l2)
                           /\ server.xm1 = ChargerRandom[k2] /\ server.xm2 = ChargerRandom[l2]
  BY <1>5 DEF Owns, IInv, Consistent, ServerConsistent
<1>7. PICK i2, j2 \in Nat : /\ Pair(ClientRandom, i2, j2)
                           /\ server.Xp1 = ClientRandom[i2] /\ server.Xp2 = ClientRandom[j2]
  BY <1>5 DEF Knows, IInv, Consistent, ServerConsistent
<1>8. i = i2 /\ j = j2 /\ k = k2 /\ l = l2
  <2>1. (ChargerRandom[k] + ChargerRandom[l] + ClientRandom[i]) % Q
          = (ChargerRandom[k2] + ChargerRandom[l2] + ClientRandom[i2]) % Q
    BY <1>5, <1>6, <1>7 DEF PeerBase
  <2>. QED
    BY <1>4, <1>6, <1>7, <2>1, BaseTellsExchange, Constants, GenericAssumption
<1>9. RoundTwo(server) = Two(SERVER, ClientRandom[i], ClientRandom[j],
                             ChargerRandom[k], ChargerRandom[l], chargerPin)
  BY <1>1, <1>6, <1>7, <1>8 DEF RoundTwo, Two, OwnBase
<1>. HIDE DEF X
<1>10. /\ server'.role = server.role /\ server'.s = server.s
       /\ server'.xm1 = server.xm1 /\ server'.xm2 = server.xm2
       /\ server'.Xp1 = server.Xp1 /\ server'.Xp2 = server.Xp2
       /\ server'.Xp = X
  BY <1>1, <1>5 DEF ReadTwo, Contexts
<1>11. DeriveSecret(server') =
         XCoordinate(Shared(ChargerRandom[l], chargerPin, X, ClientRandom[j]))
  BY <1>1, <1>6, <1>7, <1>8, <1>10 DEF DeriveSecret
<1>12. chargerPin = Pin => DeriveSecret(server') = Secret(i, j, k, l)
  BY <1>4, <1>11, SecretOfServer DEF X
<1>. QED
  BY <1>4, <1>9, <1>10, <1>11, <1>12 DEF X

LEMMA ChargerTwoConsistent ==
  ASSUME IInv, NEW m \in toCharger, ChargerReadsRoundTwo(m)
  PROVE  Consistent' /\ KeysAgree'
<1>. PICK reply : reply = RoundTwo(server)
  OBVIOUS
<1>1. /\ toClient' = toClient \cup {reply}
      /\ serverKeys' = serverKeys \cup {DeriveSecret(server')}
      /\ UNCHANGED <<jpake, session_key, raised, toCharger, chargerPin>>
  BY DEF ChargerReadsRoundTwo, sessionVars
<1>2. ServerConsistent'
  BY <1>1, RequestTwoAgrees DEF IInv, Consistent, ServerConsistent, Owns, Knows
<1>3. IsReplyTwo(reply)'
  <2>1. PICK i, j, k, l \in Nat :
          /\ Pair(ClientRandom, i, j) /\ Pair(ChargerRandom, k, l)
          /\ reply = Two(SERVER, ClientRandom[i], ClientRandom[j],
                         ChargerRandom[k], ChargerRandom[l], chargerPin)
          /\ chargerPin = Pin => DeriveSecret(server') = Secret(i, j, k, l)
    BY RequestTwoAgrees
  <2>. QED
    BY <1>1, <2>1 DEF IsReplyTwo
<1>. QED
  BY <1>1, <1>2, <1>3, ConsistentAfterCharger DEF IInv

LEMMA NextConsistent == IInv /\ [Next]_vars => IInv'
<1>. SUFFICES ASSUME IInv, [Next]_vars PROVE IInv'
  OBVIOUS
<1>1. Typed'
  BY NextTyped DEF IInv
<1>2. CASE StartHandshake
  BY <1>1, <1>2, StartConsistent DEF IInv
<1>3. ASSUME NEW sent \in toClient, NEW m \in Arrivals(sent),
             ReadReplyOne(m) \/ ReadReplyTwo(m)
      PROVE  IInv'
  BY <1>1, <1>3, ReplyOneConsistent, ReplyTwoConsistent DEF IInv
<1>4. ASSUME NEW m \in toCharger, ChargerReadsRoundOne(m) \/ ChargerReadsRoundTwo(m)
      PROVE  IInv'
  BY <1>1, <1>4, ChargerOneConsistent, ChargerTwoConsistent DEF IInv
<1>5. CASE UNCHANGED vars
  <2>1. UNCHANGED <<jpake, session_key, raised, toCharger, toClient, chargerPin, server, serverKeys>>
    BY <1>5 DEF vars, sessionVars, chargerVars
  <2>. QED
    BY <1>1, <2>1 DEF IInv, Consistent, ClientConsistent, ServerConsistent, KeysAgree,
         Owns, Knows, IsRequestOne, IsRequestTwo, IsReplyOne, IsReplyTwo
<1>. QED
  BY <1>2, <1>3, <1>4, <1>5 DEF Next

\* With the charger's PIN, a session that is established has a key that the
\* charger has derived too, whatever replies it was given and in which order.
THEOREM SessionsAgree == Spec => []KeysAgree
<1>1. IInv => KeysAgree
  BY DEF IInv
<1>. QED
  BY InitConsistent, NextConsistent, <1>1, PTL DEF Spec


-----------------------------------------------------------------------------
(* The wrong PIN.                                                          *)

\* derive_secret reaches what the scalars and the two secrets say.
LEMMA SharedReached ==
  ASSUME NEW a \in Int, NEW b \in Int, NEW c \in Int, NEW d \in Int,
         NEW s \in Int, NEW t \in Int
  PROVE  Shared(b, s, PointTwo(a, b, c, d, t), d) = Reached(<<a, b>>, s, <<c, d>>, t)
<1>1. Shared(b, s, PointTwo(a, b, c, d, t), d) = Arrives(a, b, c, d, s, t)
  BY SharedIs
<1>2. b * d \in Int /\ t * (a + b + c) - s * b \in Int
  OBVIOUS
<1>3. (((b * d) % Q) * ((t * (a + b + c) - s * b) % Q)) % Q
        = (b * d * (t * (a + b + c) - s * b)) % Q
  BY <1>2, RemainderOfProduct
<1>. QED
  BY <1>1, <1>3 DEF Reached, Arrives

\* The keys of a client and of a charger with secret pin, in one exchange.
ClientKey(i, j, k, l, pin) ==
  XCoordinate(Shared(ClientRandom[j], Pin,
                     PointTwo(ClientRandom[i], ClientRandom[j],
                              ChargerRandom[k], ChargerRandom[l], pin),
                     ChargerRandom[l]))

ChargerKey(i, j, k, l, pin) ==
  XCoordinate(Shared(ChargerRandom[l], pin,
                     PointTwo(ChargerRandom[k], ChargerRandom[l],
                              ClientRandom[i], ClientRandom[j], Pin),
                     ClientRandom[j]))

\* Scalars drawn one after another.
LEMMA PairDrawn ==
  ASSUME NEW random \in Seq(Nat), NEW i, NEW j, Pair(random, i, j)
  PROVE  <<random[i], random[j]>> \in Drawn(random)
<1>. PICK p : p = <<i, j>>
  OBVIOUS
<1>1. ASSUME NEW k PROVE k \in Scalars(random) <=> k \in Usable(random)
  BY OrderAssumption, ScalarIsPoint DEF Scalars, IsScalar, Usable, Points, None
<1>2. p \in Usable(random) \X Usable(random) /\ p[1] = i /\ p[2] = j
  BY <1>1, PairTyped
<1>3. i < j /\ \A k \in Usable(random) : i < k => j <= k
  BY <1>1 DEF Pair, NextScalar
<1>4. p \in {q \in Usable(random) \X Usable(random) :
              q[1] < q[2] /\ \A k \in Usable(random) : q[1] < k => q[2] <= k}
  BY <1>2, <1>3
<1>. QED
  BY <1>2, <1>4 DEF Drawn

\* A client and a charger with different PINs derive different keys.
LEMMA KeysDiffer ==
  ASSUME NEW pin \in Pins \ {Pin},
         NEW i, NEW j, NEW k, NEW l, NEW i2, NEW j2, NEW k2, NEW l2,
         Pair(ClientRandom, i, j), Pair(ChargerRandom, k, l),
         Pair(ClientRandom, i2, j2), Pair(ChargerRandom, k2, l2)
  PROVE  ClientKey(i, j, k, l, pin) # ChargerKey(i2, j2, k2, l2, pin)
<1>. DEFINE x == <<ClientRandom[i], ClientRandom[j]>>
            y == <<ChargerRandom[k], ChargerRandom[l]>>
            x2 == <<ClientRandom[i2], ClientRandom[j2]>>
            y2 == <<ChargerRandom[k2], ChargerRandom[l2]>>
<1>1. /\ ClientRandom[i] \in Int /\ ClientRandom[j] \in Int
      /\ ChargerRandom[k] \in Int /\ ChargerRandom[l] \in Int
      /\ ClientRandom[i2] \in Int /\ ClientRandom[j2] \in Int
      /\ ChargerRandom[k2] \in Int /\ ChargerRandom[l2] \in Int
      /\ pin \in Int /\ Pin \in Int
  <2>1. ASSUME NEW random \in Seq(Nat), NEW n, NEW o, Pair(random, n, o)
        PROVE  random[n] \in Int /\ random[o] \in Int
    BY <2>1, PairTyped, Constants DEF Points
  <2>2. /\ ClientRandom[i] \in Int /\ ClientRandom[j] \in Int
        /\ ChargerRandom[k] \in Int /\ ChargerRandom[l] \in Int
    BY <2>1, Constants
  <2>3. /\ ClientRandom[i2] \in Int /\ ClientRandom[j2] \in Int
        /\ ChargerRandom[k2] \in Int /\ ChargerRandom[l2] \in Int
    BY <2>1, Constants
  <2>. QED
    BY <2>2, <2>3, Constants
<1>2. ClientKey(i, j, k, l, pin) = XCoordinate(Reached(x, Pin, y, pin))
  BY <1>1, SharedReached DEF ClientKey
<1>3. ChargerKey(i2, j2, k2, l2, pin) = XCoordinate(Reached(y2, pin, x2, Pin))
  BY <1>1, SharedReached DEF ChargerKey
<1>4. /\ x \in Drawn(ClientRandom) /\ x2 \in Drawn(ClientRandom)
      /\ y \in Drawn(ChargerRandom) /\ y2 \in Drawn(ChargerRandom)
  BY PairDrawn, Constants
<1>. HIDE DEF x, y, x2, y2
<1>5. Reached(x, Pin, y, pin) \notin XCoordinate(Reached(y2, pin, x2, Pin))
  BY <1>4, GuessAssumption, Zenon
<1>6. Reached(x, Pin, y, pin) \in XCoordinate(Reached(x, Pin, y, pin))
  BY DEF XCoordinate
<1>. QED
  BY <1>2, <1>3, <1>5, <1>6

\* Every key that was derived is of one exchange.
Derived ==
  /\ session_key # {} =>
       \E i, j, k, l \in Nat : /\ Pair(ClientRandom, i, j) /\ Pair(ChargerRandom, k, l)
                              /\ session_key = ClientKey(i, j, k, l, chargerPin)
  /\ \A key \in serverKeys :
       \E i, j, k, l \in Nat : /\ Pair(ClientRandom, i, j) /\ Pair(ChargerRandom, k, l)
                              /\ key = ChargerKey(i, j, k, l, chargerPin)

LEMMA InitDerived == Init => Derived
BY DEF Init, Derived

\* A step that derives no key keeps it so.
LEMMA DerivedStill == Derived /\ UNCHANGED <<session_key, serverKeys, chargerPin>> => Derived'
BY DEF Derived

LEMMA ReplyTwoDerived ==
  ASSUME IInv, Derived, NEW sent \in toClient, NEW m \in Arrivals(sent), ReadReplyTwo(m)
  PROVE  Derived'
<1>1. ~raised /\ jpake' = ReadRoundTwo(jpake, m) /\ UNCHANGED <<chargerPin, serverKeys>>
  BY DEF ReadReplyTwo, chargerVars
<1>2. CASE UNCHANGED session_key
  BY <1>1, <1>2, DerivedStill
<1>3. CASE AcceptsRoundTwo(jpake, m) /\ session_key' = DeriveSecret(jpake')
  <2>1. \E i, j, k, l \in Nat :
          /\ Pair(ClientRandom, i, j) /\ Pair(ChargerRandom, k, l)
          /\ DeriveSecret(ReadRoundTwo(jpake, m)) = ClientKey(i, j, k, l, chargerPin)
    BY <1>1, <1>3, ReplyTwoDerives DEF ClientKey
  <2>. QED
    BY <1>1, <1>3, <2>1 DEF Derived
<1>. QED
  BY <1>2, <1>3 DEF ReadReplyTwo

LEMMA ChargerTwoDerived ==
  ASSUME IInv, Derived, NEW m \in toCharger, ChargerReadsRoundTwo(m)
  PROVE  Derived'
<1>. DEFINE new == DeriveSecret(server')
<1>1. serverKeys' = serverKeys \cup {new} /\ UNCHANGED <<session_key, chargerPin>>
  BY DEF ChargerReadsRoundTwo, sessionVars
<1>2. \E i, j, k, l \in Nat : /\ Pair(ClientRandom, i, j) /\ Pair(ChargerRandom, k, l)
                             /\ new = ChargerKey(i, j, k, l, chargerPin)
  BY RequestTwoAgrees DEF ChargerKey
<1>. HIDE DEF new
<1>. QED
  BY <1>1, <1>2 DEF Derived

LEMMA NextDerived == IInv /\ Derived /\ [Next]_vars => Derived'
<1>. SUFFICES ASSUME IInv, Derived, [Next]_vars PROVE Derived'
  OBVIOUS
<1>1. CASE StartHandshake
  BY <1>1, DerivedStill DEF StartHandshake, chargerVars
<1>2. ASSUME NEW sent \in toClient, NEW m \in Arrivals(sent), ReadReplyOne(m)
      PROVE  Derived'
  BY <1>2, DerivedStill DEF ReadReplyOne, chargerVars
<1>3. ASSUME NEW sent \in toClient, NEW m \in Arrivals(sent), ReadReplyTwo(m)
      PROVE  Derived'
  BY <1>3, ReplyTwoDerived
<1>4. ASSUME NEW m \in toCharger, ChargerReadsRoundOne(m)
      PROVE  Derived'
  BY <1>4, DerivedStill DEF ChargerReadsRoundOne, sessionVars
<1>5. ASSUME NEW m \in toCharger, ChargerReadsRoundTwo(m)
      PROVE  Derived'
  BY <1>5, ChargerTwoDerived
<1>6. CASE UNCHANGED vars
  BY <1>6, DerivedStill DEF vars, sessionVars, chargerVars
<1>. QED
  BY <1>1, <1>2, <1>3, <1>4, <1>5, <1>6 DEF Next

\* With another PIN than the charger's, an established session has a key that
\* the charger derived in no exchange, whichever replies it was given.
THEOREM WrongPinIsFound == Spec => []WrongPinDisagrees
<1>1. IInv /\ Derived => WrongPinDisagrees
  <2>. SUFFICES ASSUME IInv, Derived, session_key # {}, chargerPin # Pin, session_key \in serverKeys
                PROVE  FALSE
    BY DEF WrongPinDisagrees
  <2>1. chargerPin \in Pins \ {Pin}
    BY DEF IInv, Typed, TypeOK
  <2>. QED
    BY <2>1, KeysDiffer DEF Derived
<1>2. Init => IInv /\ Derived
  BY InitConsistent, InitDerived
<1>3. IInv /\ Derived /\ [Next]_vars => (IInv /\ Derived)'
  BY NextConsistent, NextDerived
<1>. QED
  BY <1>1, <1>2, <1>3, PTL DEF Spec

=============================================================================
