-------------------------- MODULE ConnectionProofs --------------------------
(***************************************************************************)
(* Proofs about Connection, for any number of clients, for a caller with   *)
(* or without discipline and whether or not another task disconnects: type *)
(* correctness, and that no link and no half-made client is left behind.   *)
(***************************************************************************)
EXTENDS Connection, TLAPS

\* Where the caller's task is and what its locals are: while it establishes a
\* link there is room for a client, and while it sets one up that is `mine`.
Located ==
  /\ phase = "establishing" => made < MaxClients
  /\ phase \in SetupPhases => mine # None
  /\ phase \in SetupPhases => client \in {None, mine}

Typed == TypeOK /\ Located

\* disconnect(), from the caller's task or another one, keeps the types.
LEMMA ReleasedTyped ==
  ASSUME Typed, Released
  PROVE  /\ client' = None /\ session' = None /\ bonded' = FALSE
         /\ closing' \in [Clients -> {"no", "running", "done", "failed", "cancelled"}]
         /\ UNCHANGED <<linkLost, lostEvent>>
<1>1. closing' \in [Clients -> {"no", "running", "done", "failed", "cancelled"}]
  <2>1. CASE client = None
    BY <2>1 DEF Released, Typed, TypeOK
  <2>2. CASE client # None
    BY <2>2 DEF Released, Typed, TypeOK
  <2>3. QED
    BY <2>1, <2>2
<1>2. QED
  BY <1>1 DEF Released, Typed, TypeOK

LEMMA DisconnectTyped == Typed /\ Disconnect => Typed'
<1> SUFFICES ASSUME Typed, Disconnect PROVE Typed'
  OBVIOUS
<1>1. phase' \in {"idle", "closing"} /\ mine' = client /\ arrived' = FALSE /\ pairing' = None
      /\ UNCHANGED <<made, link, believed, reported, stale, pairedOn>>
  BY DEF Disconnect
<1>2. Released
  BY DEF Disconnect
<1>3. QED
  BY <1>1, <1>2, ReleasedTyped
     DEF Typed, TypeOK, Located, Phases, SetupPhases, HelloPhases, HelloPhases

LEMMA InitTyped == Init => Typed
<1> SUFFICES ASSUME Init PROVE Typed
  OBVIOUS
<1>1. link \in [Clients -> {"none", "up", "down"}]
      /\ closing \in [Clients -> {"no", "running", "done", "failed", "cancelled"}]
  BY DEF Init
<1>2. made \in 0..MaxClients /\ stale \in 0..MaxStale
  BY ConnectionAssumption DEF Init
<1>3. phase = "idle" /\ phase \in Phases /\ phase \notin SetupPhases
  BY DEF Init, Phases, SetupPhases, HelloPhases
<1>4. QED
  BY <1>1, <1>2, <1>3 DEF Init, Typed, TypeOK, Located

LEMMA NextTyped == Typed /\ [Next]_vars => Typed'
<1> SUFFICES ASSUME Typed, [Next]_vars PROVE Typed'
  OBVIOUS
<1> USE DEF Typed
<1>1. ASSUME Connect PROVE Typed'
  BY <1>1 DEF Connect, TypeOK, Located, Phases, SetupPhases, HelloPhases, backendVars
<1>2. ASSUME EstablishFails PROVE Typed'
  BY <1>2 DEF EstablishFails, TypeOK, Located, Phases, SetupPhases, HelloPhases,
       fieldVars, backendVars
<1>3. ASSUME Established PROVE Typed'
  <2>1. made + 1 \in Clients /\ made + 1 # None /\ made + 1 \in 0..MaxClients
    BY <1>3, ConnectionAssumption DEF Established, TypeOK, Located, Clients, None
  <2>2. link' \in [Clients -> {"none", "up", "down"}]
    BY <1>3, <2>1 DEF Established, TypeOK
  <2>3. phase' = "subscribing" /\ phase' \in Phases
    BY <1>3 DEF Established, Phases, SetupPhases, HelloPhases
  <2>4. QED
    BY <1>3, <2>1, <2>2, <2>3 DEF Established, TypeOK, Located
<1>4. ASSUME Ask \/ RequestEnds PROVE Typed'
  BY <1>4 DEF Ask, RequestEnds, TypeOK, Located, Phases, SetupPhases, HelloPhases, fieldVars,
       backendVars
<1>5. ASSUME NEW next \in {"hello1", "hello2"}, phase \in SetupPhases, Hello(next) PROVE Typed'
  <2>1. CASE MayWrite
    BY <1>5, <2>1 DEF Hello, TypeOK, Located, Phases, SetupPhases, HelloPhases,
         fieldVars, backendVars
  <2>2. CASE ~MayWrite
    BY <1>5, <2>2, DisconnectTyped DEF Hello
  <2>3. QED
    BY <2>1, <2>2
<1>6. ASSUME StartHandshake \/ ReadRoundOne PROVE Typed'
  BY <1>5, <1>6 DEF StartHandshake, ReadRoundOne, SetupPhases, HelloPhases
<1>7. ASSUME Bond \/ PairEnds PROVE Typed'
  BY <1>7 DEF Bond, PairEnds, TypeOK, Located, Phases, SetupPhases, HelloPhases, fieldVars,
       backendVars
<1>8. ASSUME HelloReply PROVE Typed'
  BY <1>8 DEF HelloReply, TypeOK, Located, fieldVars, backendVars
<1>9. ASSUME ReadRoundTwo PROVE Typed'
  <2>1. CASE Disconnect
    BY <2>1, DisconnectTyped
  <2>2. CASE ~Disconnect
    BY <1>9, <2>2 DEF ReadRoundTwo, TypeOK, Located, Phases, SetupPhases, HelloPhases,
         backendVars
  <2>3. QED
    BY <2>1, <2>2
<1>10. ASSUME SetupFails \/ CallDisconnect PROVE Typed'
  BY <1>10, DisconnectTyped DEF SetupFails, CallDisconnect
<1>11. ASSUME CloseEnds PROVE Typed'
  BY <1>11 DEF CloseEnds, TypeOK, Located, Phases, SetupPhases, HelloPhases,
       fieldVars, backendVars
<1>12. ASSUME OtherDisconnects PROVE Typed'
  BY <1>12, ReleasedTyped DEF OtherDisconnects, TypeOK, Located, callVars
<1>13. ASSUME AttemptDrops PROVE Typed'
  BY <1>13, ConnectionAssumption DEF AttemptDrops, TypeOK, Located, callVars, fieldVars
<1>14. ASSUME AttemptReported PROVE Typed'
  BY <1>14, ConnectionAssumption DEF AttemptReported, OnDisconnected, TypeOK, Located, callVars
<1>15. ASSUME NEW c \in Clients, LinkDrops(c) \/ BeliefCatchesUp(c) PROVE Typed'
  BY <1>15 DEF LinkDrops, BeliefCatchesUp, TypeOK, Located, callVars, fieldVars
<1>16. ASSUME NEW c \in Clients, DropReported(c) PROVE Typed'
  BY <1>16 DEF DropReported, OnDisconnected, TypeOK, Located, callVars
<1>17. ASSUME NEW c \in Clients, DisconnectCompletes(c) \/ DisconnectFails(c) PROVE Typed'
  BY <1>17 DEF DisconnectCompletes, DisconnectFails, TypeOK, Located, callVars, fieldVars
<1>18. ASSUME UNCHANGED vars PROVE Typed'
  BY <1>18 DEF vars, TypeOK, Located, callVars, fieldVars, backendVars
<1>19. QED
  BY <1>1, <1>2, <1>3, <1>4, <1>6, <1>7, <1>8, <1>9, <1>10, <1>11, <1>12, <1>13, <1>14,
     <1>15, <1>16, <1>17, <1>18 DEF Next

LEMMA AlwaysTyped == Spec => []Typed
BY InitTyped, NextTyped, PTL DEF Spec

\* Every variable has its type in every reachable state.
THEOREM TypeCorrect == Spec => []TypeOK
BY AlwaysTyped, PTL DEF Typed

-----------------------------------------------------------------------------
(* What is left behind.                                                    *)

\* NoLinkAbandoned is inductive over Typed: a client leaves `_client` only in
\* Released, which sets off its disconnect, and in Established, where the one
\* slot of the charger is free.
LEMMA ReleasedAbandonsNone ==
  ASSUME Typed, NoLinkAbandoned, Released, UNCHANGED link
  PROVE  NoLinkAbandoned'
<1> SUFFICES ASSUME NEW c \in Clients, link'[c] = "up"
             PROVE  closing'[c] \in {"running", "failed"}
  BY DEF NoLinkAbandoned
<1>1. client = c \/ closing[c] \in {"running", "failed"}
  BY DEF NoLinkAbandoned
<1>2. c # None
  BY DEF Clients, None
<1>3. QED
  BY <1>1, <1>2 DEF Released, Typed, TypeOK

LEMMA NextAbandonsNone == Typed /\ NoLinkAbandoned /\ [Next]_vars => NoLinkAbandoned'
<1> SUFFICES ASSUME Typed, NoLinkAbandoned, [Next]_vars PROVE NoLinkAbandoned'
  OBVIOUS
<1>1. ASSUME Disconnect PROVE NoLinkAbandoned'
  BY <1>1, ReleasedAbandonsNone DEF Disconnect
<1>2. ASSUME UNCHANGED <<client, link, closing>> PROVE NoLinkAbandoned'
  BY <1>2 DEF NoLinkAbandoned
<1>3. ASSUME \/ Connect \/ EstablishFails \/ HelloReply \/ Ask \/ RequestEnds \/ Bond
             \/ PairEnds \/ CloseEnds \/ AttemptDrops \/ AttemptReported
      PROVE  NoLinkAbandoned'
  BY <1>2, <1>3 DEF Connect, EstablishFails, HelloReply, Ask, RequestEnds, Bond, PairEnds,
       CloseEnds, AttemptDrops, AttemptReported, OnDisconnected, fieldVars, backendVars
<1>4. ASSUME Established PROVE NoLinkAbandoned'
  <2>1. \A c \in Clients : link'[c] = "up" => c = made + 1
    BY <1>4 DEF Established, SlotFree, Typed, TypeOK
  <2>2. client' = made + 1
    BY <1>4 DEF Established
  <2>3. QED
    BY <2>1, <2>2 DEF NoLinkAbandoned
<1>5. ASSUME StartHandshake \/ ReadRoundOne \/ ReadRoundTwo PROVE NoLinkAbandoned'
  BY <1>1, <1>2, <1>5 DEF StartHandshake, ReadRoundOne, ReadRoundTwo, Hello, fieldVars,
       backendVars
<1>6. ASSUME SetupFails \/ CallDisconnect PROVE NoLinkAbandoned'
  BY <1>1, <1>6 DEF SetupFails, CallDisconnect
<1>7. ASSUME OtherDisconnects PROVE NoLinkAbandoned'
  BY <1>7, ReleasedAbandonsNone DEF OtherDisconnects
<1>8. ASSUME NEW c \in Clients, LinkDrops(c) \/ BeliefCatchesUp(c) \/ DropReported(c)
      PROVE  NoLinkAbandoned'
  BY <1>8 DEF LinkDrops, BeliefCatchesUp, DropReported, OnDisconnected, fieldVars,
       NoLinkAbandoned, Typed, TypeOK
<1>9. ASSUME NEW c \in Clients, DisconnectCompletes(c) \/ DisconnectFails(c)
      PROVE  NoLinkAbandoned'
  BY <1>9 DEF DisconnectCompletes, DisconnectFails, fieldVars, NoLinkAbandoned, Typed, TypeOK
<1>10. ASSUME UNCHANGED vars PROVE NoLinkAbandoned'
  BY <1>2, <1>10 DEF vars, fieldVars, backendVars
<1>11. QED
  BY <1>3, <1>4, <1>5, <1>6, <1>7, <1>8, <1>9, <1>10 DEF Next

\* However connect() and disconnect() end, a link that is up is in use, being
\* closed, or one that its backend would not close.
THEOREM LinksAreNotAbandoned == Spec => []NoLinkAbandoned
<1>1. Init => NoLinkAbandoned
  BY DEF Init, NoLinkAbandoned
<1>2. QED
  BY <1>1, NextAbandonsNone, AlwaysTyped, PTL DEF Spec

\* The strengthening of ClientIsAuthenticated, which speaks of the time from the
\* end of connect() on, to all of it.
Settled ==
  /\ phase = "closing" => client = None
  /\ phase \in {"idle", "asking", "establishing"} /\ client # None => session = client

LEMMA SettledSuffices == Settled => ClientIsAuthenticated
BY DEF Settled, ClientIsAuthenticated

LEMMA DisconnectSettles == Settled /\ Disconnect => Settled'
<1> SUFFICES ASSUME Settled, Disconnect PROVE Settled'
  OBVIOUS
<1>1. client' = None
  BY DEF Disconnect, Released
<1>2. QED
  BY <1>1 DEF Settled

LEMMA NextSettled == Typed /\ Settled /\ [Next]_vars => Settled'
<1> SUFFICES ASSUME Typed, Settled, [Next]_vars PROVE Settled'
  OBVIOUS
\* The steps of the backend touch nothing of this.
<1>1. ASSUME UNCHANGED <<phase, client, session>> PROVE Settled'
  BY <1>1 DEF Settled
<1>2. ASSUME HelloReply \/ Bond \/ AttemptDrops \/ AttemptReported \/ UNCHANGED vars
      PROVE  Settled'
  BY <1>1, <1>2 DEF HelloReply, Bond, AttemptDrops, AttemptReported, OnDisconnected,
       vars, callVars, fieldVars, backendVars
<1>3. ASSUME NEW c \in Clients,
             \/ LinkDrops(c) \/ BeliefCatchesUp(c) \/ DropReported(c)
             \/ DisconnectCompletes(c) \/ DisconnectFails(c)
      PROVE  Settled'
  BY <1>1, <1>3 DEF LinkDrops, BeliefCatchesUp, DropReported, DisconnectCompletes,
       DisconnectFails, OnDisconnected, callVars, fieldVars
<1>4. ASSUME Connect \/ EstablishFails \/ CloseEnds PROVE Settled'
  BY <1>4 DEF Connect, EstablishFails, CloseEnds, Settled, fieldVars, backendVars
<1>5. ASSUME Established PROVE Settled'
  BY <1>5 DEF Established, Settled
\* A request is made of a client with its session, and leaves it so.
<1>6. ASSUME Ask \/ RequestEnds \/ PairEnds PROVE Settled'
  BY <1>6 DEF Ask, RequestEnds, PairEnds, Settled, fieldVars, backendVars
<1>7. ASSUME NEW next \in {"hello1", "hello2"}, Hello(next) PROVE Settled'
  <2>1. CASE MayWrite
    BY <1>7, <2>1 DEF Hello, Settled, fieldVars, backendVars
  <2>2. CASE ~MayWrite
    BY <1>7, <2>2, DisconnectSettles DEF Hello
  <2>3. QED
    BY <2>1, <2>2
<1>8. ASSUME StartHandshake \/ ReadRoundOne PROVE Settled'
  BY <1>7, <1>8 DEF StartHandshake, ReadRoundOne
\* At the end of the handshake the client, unless it has gone, is `mine`.
<1>9. ASSUME ReadRoundTwo PROVE Settled'
  <2>1. CASE Disconnect
    BY <2>1, DisconnectSettles
  <2>2. CASE ~Disconnect
    <3>1. /\ session' = mine /\ phase' = "idle" /\ phase = "hello2"
          /\ UNCHANGED client
      BY <1>9, <2>2 DEF ReadRoundTwo, backendVars
    <3>2. client \in {None, mine}
      BY <3>1 DEF Typed, Located, SetupPhases, HelloPhases
    <3>3. QED
      BY <3>1, <3>2 DEF Settled
  <2>3. QED
    BY <2>1, <2>2
<1>10. ASSUME SetupFails \/ CallDisconnect PROVE Settled'
  BY <1>10, DisconnectSettles DEF SetupFails, CallDisconnect
<1>11. ASSUME OtherDisconnects PROVE Settled'
  <2>1. client' = None /\ phase' = phase
    BY <1>11 DEF OtherDisconnects, Released, callVars
  <2>2. QED
    BY <2>1 DEF Settled
<1>12. QED
  BY <1>2, <1>3, <1>4, <1>5, <1>6, <1>8, <1>9, <1>10, <1>11 DEF Next

LEMMA AlwaysSettled == Spec => []Settled
<1>1. Init => Settled
  BY DEF Init, Settled
<1>2. QED
  BY <1>1, NextSettled, AlwaysTyped, PTL DEF Spec

\* Once connect() is over, and while a request is out, a client is there only
\* with the session negotiated over it, also when calls were cancelled or another
\* task disconnected under them.
THEOREM ClientsAreAuthenticated == Spec => []ClientIsAuthenticated
BY AlwaysSettled, SettledSuffices, PTL

=============================================================================
