------------------------------ MODULE Handshake ------------------------------
(***************************************************************************)
(* The handshake of a Session (session.py) with a charger: start_handshake,*)
(* read_round_one and read_round_two, in any order its user may call them, *)
(* on replies that are lost, late, repeated, reordered, or cut short by an *)
(* MTU too small for them.  Each side runs an ECJPake.                     *)
(*                                                                         *)
(* A user who has a reply repeated gets there without doing anything odd:  *)
(* _write_with_retry writes a request again that the charger had received. *)
(* A session that raised is not used again, as connect() does not.         *)
(*                                                                         *)
(* The random numbers of both sides are given, one after another, as `rng` *)
(* returns them: each handshake takes the next two that are scalars.  That *)
(* what is computed from different ones does not coincide is assumed.      *)
(***************************************************************************)
EXTENDS ECJPake

CONSTANTS
  Pin,            \* the client's
  Pins,           \* those the charger may have been given
  ClientRandom,   \* what _rng returns, one number after another
  ChargerRandom

ASSUME HandshakeAssumption ==
  /\ Pin \in Pins /\ Pins \subseteq Nat
  /\ ClientRandom \in Seq(Nat) /\ ChargerRandom \in Seq(Nat)

\* The i in a sequence of random numbers that _scalar does not draw again.
Scalars(random) == {i \in DOMAIN random : IsScalar(random[i])}

\* What may be assumed of random numbers is assumed of those that are points.
Usable(random) == {i \in DOMAIN random : random[i] \in Points \ {None}}

\* Two of one side's scalars and one of the other's are told by their sum,
\* which is the base of a round-two message.
Generic(random, other) ==
  \A i1, i2, j1, j2 \in Usable(random), k, l \in Usable(other) :
    /\ i1 < i2 /\ j1 < j2
    /\ (random[i1] + random[i2] + other[k]) % Q = (random[j1] + random[j2] + other[l]) % Q
    => i1 = j1 /\ i2 = j2 /\ k = l

ASSUME GenericAssumption ==
  Generic(ClientRandom, ChargerRandom) /\ Generic(ChargerRandom, ClientRandom)

\* Two that follow one another: the scalars of a handshake.
Drawn(random) ==
  {<<random[p[1]], random[p[2]]>> : p \in
    {q \in Usable(random) \X Usable(random) :
      q[1] < q[2] /\ \A k \in Usable(random) : q[1] < k => q[2] <= k}}

\* What the arithmetic makes of two scalars of one's own and secret s, two of
\* the peer's and his secret t.
Reached(own, s, peer, t) ==
  (((own[2] * peer[2]) % Q) * ((t * (own[1] + own[2] + peer[1]) - s * own[2]) % Q)) % Q

\* With another secret than his, a client reaches no point that the charger
\* does in any exchange, nor its opposite.
ASSUME GuessAssumption ==
  \A pin \in Pins \ {Pin}, x, x2 \in Drawn(ClientRandom), y, y2 \in Drawn(ChargerRandom) :
    Reached(x, Pin, y, pin) \notin XCoordinate(Reached(y2, pin, x2, Pin))

VARIABLES
  jpake,        \* Session._jpake
  drawn,        \* how many random numbers it has drawn
  session_key,  \* Session.session_key; {}: None
  raised,       \* whether a call of the session has raised
  toCharger,    \* the requests built
  toClient,     \* the replies sent
  chargerPin,   \* the PIN printed on the charger
  server,       \* the charger's side of the exchange
  serverDrawn,
  serverKeys    \* ghost: every key the charger has derived

sessionVars == <<jpake, drawn, session_key, raised>>
chargerVars == <<chargerPin, server, serverDrawn, serverKeys>>
vars == <<sessionVars, toCharger, toClient, chargerVars>>

\* _scalar: number i is the next after number `last` that is a scalar.
NextScalar(random, last, i) ==
  /\ i \in Scalars(random) /\ last < i
  /\ \A k \in Scalars(random) : last < k => i <= k

\* What arrives of a reply: it, or what fits in too small an MTU, or a copy
\* with a proof that is damaged.
Arrivals(m) ==
  {m, [m EXCEPT !.keys = SubSeq(@, 1, 1)]}
    \cup {[m EXCEPT !.keys[i].intact = FALSE] : i \in DOMAIN m.keys}

-----------------------------------------------------------------------------
(* The session.                                                            *)

StartHandshake ==
  /\ ~raised
  /\ \E i, j \in DOMAIN ClientRandom :
       /\ NextScalar(ClientRandom, drawn, i) /\ NextScalar(ClientRandom, i, j)
       /\ jpake' = WriteRoundOne(jpake, ClientRandom[i], ClientRandom[j])
       /\ drawn' = j
  /\ toCharger' = toCharger \cup {RoundOne(jpake')}
  /\ UNCHANGED <<session_key, raised, toClient, chargerVars>>

\* The reply is read and round two written.
ReadReplyOne(m) ==
  /\ ~raised
  /\ jpake' = ReadRoundOne(jpake, m)
  /\ IF AcceptsRoundOne(jpake, m) /\ WritesRoundTwo(jpake')
     THEN /\ toCharger' = toCharger \cup {RoundTwo(jpake')}
          /\ UNCHANGED raised
     ELSE /\ raised' = TRUE
          /\ UNCHANGED toCharger
  /\ UNCHANGED <<drawn, session_key, toClient, chargerVars>>

\* The reply is read and the key derived.
ReadReplyTwo(m) ==
  /\ ~raised
  /\ jpake' = ReadRoundTwo(jpake, m)
  /\ IF AcceptsRoundTwo(jpake, m) /\ Derives(jpake')
     THEN /\ session_key' = DeriveSecret(jpake')
          /\ UNCHANGED raised
     ELSE /\ raised' = TRUE
          /\ UNCHANGED session_key
  /\ UNCHANGED <<drawn, toCharger, toClient, chargerVars>>

-----------------------------------------------------------------------------
(* The charger.  Round one begins an exchange anew; a message that is not  *)
(* what the exchange waits for is ignored.                                 *)

ChargerReadsRoundOne(m) ==
  /\ \E i, j \in DOMAIN ChargerRandom :
       /\ NextScalar(ChargerRandom, serverDrawn, i) /\ NextScalar(ChargerRandom, i, j)
       /\ LET fresh == WriteRoundOne(NewContext(SERVER, chargerPin),
                                     ChargerRandom[i], ChargerRandom[j])
          IN  AcceptsRoundOne(fresh, m) /\ server' = ReadRoundOne(fresh, m)
       /\ serverDrawn' = j
  /\ toClient' = toClient \cup {RoundOne(server')}
  /\ UNCHANGED <<sessionVars, toCharger, chargerPin, serverKeys>>

ChargerReadsRoundTwo(m) ==
  /\ AcceptsRoundTwo(server, m)
  /\ WritesRoundTwo(server)
  /\ server' = ReadRoundTwo(server, m)
  /\ serverKeys' = serverKeys \cup {DeriveSecret(server')}
  /\ toClient' = toClient \cup {RoundTwo(server)}
  /\ UNCHANGED <<sessionVars, toCharger, chargerPin, serverDrawn>>

-----------------------------------------------------------------------------
(* The specification.                                                      *)

Init ==
  /\ jpake = NewContext(CLIENT, Pin) /\ drawn = 0
  /\ session_key = {} /\ raised = FALSE
  /\ toCharger = {} /\ toClient = {}
  /\ chargerPin \in Pins
  /\ server = NewContext(SERVER, chargerPin) /\ serverDrawn = 0
  /\ serverKeys = {}

Next ==
  \/ StartHandshake
  \/ \E sent \in toClient : \E m \in Arrivals(sent) : ReadReplyOne(m) \/ ReadReplyTwo(m)
  \/ \E m \in toCharger : ChargerReadsRoundOne(m) \/ ChargerReadsRoundTwo(m)

Spec == Init /\ [][Next]_vars

-----------------------------------------------------------------------------
(* Properties.                                                             *)

TypeOK ==
  /\ jpake \in Contexts /\ server \in Contexts
  /\ drawn \in Nat /\ serverDrawn \in Nat
  /\ session_key \subseteq Points
  /\ raised \in BOOLEAN
  /\ toCharger \subseteq Messages /\ toClient \subseteq Messages
  /\ chargerPin \in Pins
  /\ serverKeys \subseteq SUBSET Points

\* With the charger's PIN, a session that is established has a key that the
\* charger has derived too, however many exchanges were begun, on either
\* side, and whichever of their replies it was given, in whichever order.
KeysAgree ==
  session_key # {} /\ chargerPin = Pin => session_key \in serverKeys

\* With another PIN it has a key that the charger has never derived.
WrongPinDisagrees ==
  session_key # {} /\ chargerPin # Pin => session_key \notin serverKeys

-----------------------------------------------------------------------------
(* What the repository says of a handshake and the code does not keep.     *)

\* README.md:157, "except JPakeError: # almost always the wrong PIN", and
\* exceptions.py:31, "A verification failure usually means the wrong PIN.": with
\* another PIN than the charger's the handshake raises, and no session is
\* established.
WrongPinRaises == session_key # {} => chargerPin = Pin

=============================================================================
