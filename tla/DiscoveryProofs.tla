-------------------------- MODULE DiscoveryProofs ---------------------------
(***************************************************************************)
(* Proofs about Discovery, for any channels, handles and GATT tables and   *)
(* any number of links: type correctness; that no handler is left but one  *)
(* whose registration was cut off; that the fields speak of their own      *)
(* link; that _notify_ok tells the truth; and that no handshake is begun   *)
(* on a link no reply can come over.                                       *)
(***************************************************************************)
EXTENDS Discovery, FiniteSetTheorems, TLAPS

\* The phases in which the table of the link is being gone through, or has been.
Found == {"discovering", "starting", "registering", "authenticating"}
Pending == {"starting", "registering"}

\* There is a link, and nothing in the fields can be of another.
Known == client # None /\ ~kept

Empty == chars = {} /\ notifyOk = <<>> /\ handleToChannel = <<>> /\ cancels = {}

\* The locals of connect() are those of the last link.
Located ==
  /\ client <= made
  /\ phase \in SetupPhases => mine \in Links /\ mine = made /\ client \in {None, mine}
  /\ phase \in Found => table # NoService /\ todo \subseteq DOMAIN table
  /\ phase \in Pending => at \in DOMAIN table /\ table[at].notify /\ at \notin todo
  /\ phase \in {"idle", "authenticating"} => todo = {}
  /\ \A cb \in callbacks : cb.link <= made
  /\ phase = "resolving" => \A cb \in callbacks : cb.link # mine

Typed == TypeOK /\ Located

\* Every handler the backend has can be unsubscribed, or was cut off, or is
\* the one being registered.
Remembered ==
  \A r \in registered :
    r \in cancels \/ r \in interrupted \/ (phase = "registering" /\ r = Registering)

\* Nothing is kept of a connection that has been torn down.
Emptied == client = None /\ phase \in {"idle", "authenticating"} => Empty

\* The channels of the table that are to be subscribed to, of those visited.
Wanted == {c \in chars \cap Subscribed : table[c].notify}

\* The fields are about the part of the table that has been visited.
Own ==
  Known =>
    /\ phase = "resolving" => Empty
    /\ phase \in Found \cup {"idle"} =>
         /\ table # NoService
         /\ chars = DOMAIN table \ todo
         /\ DOMAIN notifyOk = Wanted \ (IF phase \in Pending THEN {at} ELSE {})
         /\ \A r \in cancels : r.link = client
    /\ phase = "registering" =>
         /\ table[at].handle \in DOMAIN handleToChannel
         /\ handleToChannel[table[at].handle] = at

\* The two ways a notification of channel c is delivered.
ByCallback(c) == [link |-> client, channel |-> c] \in callbacks
ByHandle(c)   == [link |-> client, handle |-> table[c].handle] \in registered

Said(c) == c \in DOMAIN notifyOk /\ notifyOk[c]

\* What is said to notify does.
Heard ==
  Known =>
    /\ phase \in Found \cup {"idle"} =>
         \A c \in DOMAIN notifyOk : notifyOk[c] => ByCallback(c) \/ ByHandle(c)
    /\ phase = "authenticating" => AnyNotifies

\* It does so once, and what is not said to notify does not.
Once ==
  Known /\ interrupted = {} /\ phase \in Found \cup {"idle"} =>
    \A c \in DOMAIN table :
      /\ ~(ByCallback(c) /\ ByHandle(c))
      /\ ByCallback(c) => Said(c)
      /\ ByHandle(c) => /\ Said(c) \/ (phase = "registering" /\ c = at)
                        /\ table[c].handle \in DOMAIN handleToChannel
                        /\ handleToChannel[table[c].handle] = c

IInv == Typed /\ Remembered /\ Emptied /\ Own /\ Heard /\ Once


-----------------------------------------------------------------------------
\* An empty dict has no keys.
LEMMA NoKeys == DOMAIN <<>> = {}
  OBVIOUS

\* A table that is not missing has the shape the assumption gives it.
LEMMA TableShape ==
  ASSUME table \in Tables, table # NoService
  PROVE  /\ DOMAIN table \subseteq Channels
         /\ \A c \in DOMAIN table : table[c].handle \in Handles /\ table[c].notify \in BOOLEAN
         /\ \A c, d \in DOMAIN table : table[c].handle = table[d].handle => c = d
  BY TableAssumption

\* The handler being registered is of this link and of a handle of its table.
LEMMA RegisteringTyped ==
  ASSUME Typed, phase = "registering" PROVE Registering \in Handlers
<1>1. table[at].handle \in Handles
  BY TableShape DEF Typed, TypeOK, Located, Found, Pending
<1>2. mine \in Links
  BY DEF Typed, Located, SetupPhases
<1>3. QED
  BY <1>1, <1>2 DEF Registering, Handlers

\* disconnect(), from whichever task, keeps the types and empties the fields.
LEMMA ReleasedTyped ==
  ASSUME TypeOK, Released
  PROVE  /\ client' = None /\ Empty'
         /\ registered' = registered \ cancels /\ registered' \subseteq Handlers
         /\ cancels' \subseteq registered'
         /\ DOMAIN notifyOk' = {} /\ DOMAIN handleToChannel' = {}
         /\ UNCHANGED <<made, table, callbacks>>
  BY NoKeys DEF TypeOK, Released, Empty

LEMMA InitInv == Init => IInv
<1> SUFFICES ASSUME Init PROVE IInv
  OBVIOUS
<1>1. TypeOK
  <2>1. 0 \in 0..MaxLinks
    BY DiscoveryAssumption
  <2>2. QED
    BY <2>1, DiscoveryAssumption, NoKeys DEF Init, TypeOK, None
<1>2. Located
  BY DEF Init, Located, SetupPhases, Found, Pending, None
<1>3. Typed
  BY <1>1, <1>2 DEF Typed
<1>4. QED
  BY <1>3 DEF Init, IInv, Remembered, Emptied, Empty, Own, Heard, Once, Known, None

-----------------------------------------------------------------------------
(* Type correctness.                                                       *)

\* The end of a subscription keeps the types, whatever it tells.
LEMMA SubscribeTyped ==
  ASSUME Typed, phase \in Pending, NEW heard \in BOOLEAN, Subscribe(heard)
  PROVE  /\ phase' = "discovering"
         /\ UNCHANGED <<mine, todo, at, client, chars, made, table, interrupted, kept>>
         /\ DOMAIN notifyOk' \subseteq Subscribed
         /\ \A c \in DOMAIN notifyOk' : notifyOk'[c] \in BOOLEAN
         /\ at \in DOMAIN table /\ at \in Channels /\ mine \in Links
<1>1. notifyOk' = Set(notifyOk, at, heard)
  BY DEF Subscribe
<1>2. DOMAIN notifyOk' \subseteq Subscribed
  BY <1>1 DEF Set, Typed, TypeOK
<1>3. ASSUME NEW c \in DOMAIN notifyOk' PROVE notifyOk'[c] \in BOOLEAN
  <2>1. CASE c = at
    BY <2>1, <1>1 DEF Set
  <2>2. CASE c # at
    BY <2>2, <1>1, <1>3 DEF Set, Typed, TypeOK
  <2>3. QED
    BY <2>1, <2>2
<1>4. at \in DOMAIN table /\ at \in Channels /\ mine \in Links
  BY DiscoveryAssumption DEF Typed, TypeOK, Located, Pending, SetupPhases
<1>5. QED
  BY <1>2, <1>3, <1>4 DEF Subscribe

LEMMA NextTyped == Typed /\ [Next]_vars => Typed'
<1> SUFFICES ASSUME Typed, [Next]_vars PROVE Typed'
  OBVIOUS
<1> USE DEF Typed
<1>1. ASSUME Connect PROVE Typed'
  <2>1. made + 1 \in Links /\ made + 1 \in 0..MaxLinks /\ made + 1 > made /\ made + 1 # None
    BY <1>1, DiscoveryAssumption DEF Connect, TypeOK, Links, None
  <2>2. TypeOK'
    BY <1>1, <2>1 DEF Connect, TypeOK, SetupPhases
  <2>3. \A cb \in callbacks : cb.link <= made + 1 /\ cb.link # made + 1
    BY <2>1 DEF TypeOK, Located, Links
  <2>4. Located'
    BY <1>1, <2>1, <2>3 DEF Connect, TypeOK, Located, SetupPhases, Found, Pending
  <2>5. QED
    BY <2>2, <2>4
<1>2. ASSUME Resolve PROVE Typed'
  BY <1>2, TableShape DEF Resolve, TypeOK, Located, SetupPhases, Found, Pending, backendVars
<1>3. ASSUME NEW c \in Channels, Visit(c) PROVE Typed'
  <2>1. c \in DOMAIN table
    BY <1>3 DEF Visit, Located, Found
  <2>2. QED
    BY <1>3, <2>1 DEF Visit, TypeOK, Located, SetupPhases, Found, Pending, backendVars
<1>4. ASSUME StartNotify PROVE Typed'
  <2>1. Subscribe(TRUE) /\ phase \in Pending
    BY <1>4 DEF StartNotify, Pending
  <2>2. mine = made /\ mine \in Links /\ made <= made
    BY <2>1 DEF Located, Pending, SetupPhases, Links, TypeOK
  <2>3. /\ callbacks' \subseteq [link : Links, channel : Channels]
        /\ \A cb \in callbacks' : cb.link <= made
    <3>1. at \in Channels
      BY DiscoveryAssumption DEF TypeOK
    <3>2. [link |-> mine, channel |-> at] \in [link : Links, channel : Channels]
      BY <2>2, <3>1
    <3>3. callbacks' = callbacks \cup {[link |-> mine, channel |-> at]}
      BY <1>4 DEF StartNotify
    <3>4. QED
      BY <2>2, <3>2, <3>3 DEF TypeOK, Located
  <2>4. QED
    BY <1>4, <2>1, <2>3, SubscribeTyped
       DEF StartNotify, TypeOK, Located, SetupPhases, Found, Pending
<1>5. ASSUME NoWayAround PROVE Typed'
  <2>1. Subscribe(FALSE) /\ phase \in Pending
    BY <1>5 DEF NoWayAround, Pending
  <2>2. QED
    BY <1>5, <2>1, SubscribeTyped
       DEF NoWayAround, TypeOK, Located, SetupPhases, Found, Pending
<1>6. ASSUME SubscribeWithoutCCCD PROVE Typed'
  <2>1. phase \in Pending /\ at \in DOMAIN table /\ table[at].handle \in Handles
    BY <1>6, TableShape DEF SubscribeWithoutCCCD, TypeOK, Located, Found, Pending
  <2>2. handleToChannel' = Set(handleToChannel, table[at].handle, at)
    BY <1>6 DEF SubscribeWithoutCCCD
  <2>3. /\ DOMAIN handleToChannel' \subseteq Handles
        /\ \A h \in DOMAIN handleToChannel' : handleToChannel'[h] \in Subscribed
    BY <2>1, <2>2 DEF Set, TypeOK
  <2>4. QED
    BY <1>6, <2>3 DEF SubscribeWithoutCCCD, TypeOK, Located, SetupPhases, Found, Pending, backendVars
<1>7. ASSUME BackendRegisters PROVE Typed'
  <2>1. Registering \in Handlers
    BY <1>7, RegisteringTyped DEF BackendRegisters
  <2>2. QED
    BY <1>7, <2>1 DEF BackendRegisters, TypeOK, Located, SetupPhases, Found, Pending, fieldVars
<1>8. ASSUME RememberCancel PROVE Typed'
  <2>1. Subscribe(TRUE) /\ phase \in Pending
    BY <1>8 DEF RememberCancel, Pending
  <2>2. QED
    BY <1>8, <2>1, SubscribeTyped
       DEF RememberCancel, TypeOK, Located, SetupPhases, Found, Pending
<1>9. ASSUME RegisterFails PROVE Typed'
  <2>1. Subscribe(FALSE) /\ phase \in Pending
    BY <1>9 DEF RegisterFails, Pending
  <2>2. QED
    BY <1>9, <2>1, SubscribeTyped
       DEF RegisterFails, TypeOK, Located, SetupPhases, Found, Pending
<1>10. ASSUME DiscoveryEnds PROVE Typed'
  BY <1>10 DEF DiscoveryEnds, TypeOK, Located, SetupPhases, Found, Pending, fieldVars, backendVars
<1>11. ASSUME Authenticated PROVE Typed'
  BY <1>11 DEF Authenticated, TypeOK, Located, SetupPhases, Found, Pending, fieldVars, backendVars
<1>12. ASSUME SetupFails PROVE Typed'
  <2>1. Released /\ {r \in registered \ cancels : r.link = mine} \subseteq Handlers
    BY <1>12 DEF SetupFails, TypeOK
  <2>2. interrupted' \subseteq Handlers
    BY <1>12, <2>1 DEF SetupFails, TypeOK
  <2>3. QED
    BY <1>12, <2>1, <2>2, ReleasedTyped
       DEF SetupFails, TypeOK, Located, SetupPhases, Found, Pending, Empty, Links, None
<1>13. ASSUME CallDisconnect PROVE Typed'
  BY <1>13, ReleasedTyped
     DEF CallDisconnect, TypeOK, Located, SetupPhases, Found, Pending, Empty, Links, None
<1>14. ASSUME OtherDisconnects PROVE Typed'
  BY <1>14, ReleasedTyped
     DEF OtherDisconnects, TypeOK, Located, SetupPhases, Found, Pending, Empty, Links, None
<1>15. ASSUME UNCHANGED vars PROVE Typed'
  BY <1>15 DEF vars, fieldVars, backendVars, TypeOK, Located
<1>16. QED
  BY <1>1, <1>2, <1>3, <1>4, <1>5, <1>6, <1>7, <1>8, <1>9, <1>10, <1>11, <1>12, <1>13, <1>14,
     <1>15 DEF Next

-----------------------------------------------------------------------------
(* No handler but one that was cut off is left.                            *)

LEMMA RememberedKept == Typed /\ Remembered /\ [Next]_vars => Remembered'
<1> SUFFICES ASSUME Typed, Remembered, [Next]_vars PROVE Remembered'
  OBVIOUS
<1>1. ASSUME Connect PROVE Remembered'
  BY <1>1 DEF Connect, Remembered
<1>2. ASSUME Resolve PROVE Remembered'
  BY <1>2 DEF Resolve, Remembered, backendVars
<1>3. ASSUME NEW c \in Channels, Visit(c) PROVE Remembered'
  BY <1>3 DEF Visit, Remembered, backendVars
<1>4. ASSUME StartNotify PROVE Remembered'
  BY <1>4 DEF StartNotify, Subscribe, Remembered
<1>5. ASSUME NoWayAround PROVE Remembered'
  BY <1>5 DEF NoWayAround, Subscribe, Remembered
<1>6. ASSUME SubscribeWithoutCCCD PROVE Remembered'
  BY <1>6 DEF SubscribeWithoutCCCD, Remembered, backendVars
<1>7. ASSUME BackendRegisters PROVE Remembered'
  <2>1. Registering' = Registering /\ phase' = "registering"
    BY <1>7 DEF BackendRegisters, Registering
  <2>2. QED
    BY <1>7, <2>1 DEF BackendRegisters, Remembered, fieldVars
<1>8. ASSUME RememberCancel PROVE Remembered'
  BY <1>8 DEF RememberCancel, Subscribe, Remembered
<1>9. ASSUME RegisterFails PROVE Remembered'
  BY <1>9 DEF RegisterFails, Subscribe, Remembered
<1>10. ASSUME DiscoveryEnds PROVE Remembered'
  BY <1>10 DEF DiscoveryEnds, Remembered, fieldVars, backendVars
<1>11. ASSUME Authenticated PROVE Remembered'
  BY <1>11 DEF Authenticated, Remembered, fieldVars, backendVars
<1>12. ASSUME SetupFails PROVE Remembered'
  <2>1. registered' = registered \ cancels /\ Registering.link = mine
    BY <1>12 DEF SetupFails, Released, Registering
  <2>2. ASSUME NEW r \in registered' PROVE r \in interrupted'
    <3>1. r \in registered \ cancels
      BY <2>1, <2>2
    <3>2. r \in interrupted \/ (phase = "registering" /\ r.link = mine)
      BY <2>1, <3>1 DEF Remembered
    <3>3. QED
      BY <1>12, <3>1, <3>2 DEF SetupFails
  <2>3. QED
    BY <2>2 DEF Remembered
<1>13. ASSUME CallDisconnect PROVE Remembered'
  BY <1>13 DEF CallDisconnect, Released, Remembered
<1>14. ASSUME OtherDisconnects PROVE Remembered'
  <2>1. Registering' = Registering
    BY <1>14 DEF OtherDisconnects, Released, Registering
  <2>2. QED
    BY <1>14, <2>1 DEF OtherDisconnects, Released, Remembered
<1>15. ASSUME UNCHANGED vars PROVE Remembered'
  <2>1. Registering' = Registering
    BY <1>15 DEF vars, backendVars, Registering
  <2>2. QED
    BY <1>15, <2>1 DEF vars, fieldVars, backendVars, Remembered
<1>16. QED
  BY <1>1, <1>2, <1>3, <1>4, <1>5, <1>6, <1>7, <1>8, <1>9, <1>10, <1>11, <1>12, <1>13, <1>14,
     <1>15 DEF Next

LEMMA EmptiedKept == Typed /\ Emptied /\ [Next]_vars => Emptied'
<1> SUFFICES ASSUME Typed, Emptied, [Next]_vars PROVE Emptied'
  OBVIOUS
<1>1. CASE Released
  BY <1>1, ReleasedTyped DEF Typed, Emptied
<1>2. CASE DiscoveryEnds \/ Authenticated \/ UNCHANGED vars
  BY <1>2 DEF DiscoveryEnds, Authenticated, vars, fieldVars, backendVars, Emptied, Empty
<1>3. CASE Connect \/ Resolve \/ \E c \in Channels : Visit(c)
  BY <1>3 DEF Connect, Resolve, Visit, Emptied
<1>4. CASE \/ StartNotify \/ NoWayAround \/ SubscribeWithoutCCCD
           \/ BackendRegisters \/ RememberCancel \/ RegisterFails
  BY <1>4 DEF StartNotify, NoWayAround, SubscribeWithoutCCCD, BackendRegisters, RememberCancel,
              RegisterFails, Subscribe, Emptied
<1>5. QED
  BY <1>1, <1>2, <1>3, <1>4 DEF Next, SetupFails, CallDisconnect, OtherDisconnects

-----------------------------------------------------------------------------
(* The fields are of the link.                                             *)

LEMMA OwnKept == Typed /\ Emptied /\ Own /\ [Next]_vars => Own'
<1> SUFFICES ASSUME Typed, Emptied, Own, [Next]_vars, Known' PROVE Own'
  BY DEF Own
<1>1. ASSUME Released PROVE FALSE
  BY <1>1 DEF Released, Known
<1>2. ASSUME Connect PROVE Own'
  <2>1. client = None /\ phase = "idle" /\ phase' = "resolving"
    BY <1>2 DEF Connect, Known
  <2>2. Empty'
    BY <1>2, <2>1 DEF Connect, Emptied, Empty
  <2>3. QED
    BY <2>1, <2>2 DEF Own, Found
<1>3. ASSUME Resolve PROVE Own'
  <2>1. Known /\ Empty
    BY <1>3 DEF Resolve, Known, Own
  <2>2. CASE table = NoService
    BY <1>3, <2>2 DEF Resolve, Own, Found
  <2>3. CASE table # NoService
    <3>1. /\ phase' = "discovering" /\ chars' = {} /\ todo' = DOMAIN table
          /\ DOMAIN notifyOk' = {} /\ cancels' = {} /\ table' = table
      BY <1>3, <2>1, <2>3, NoKeys DEF Resolve, Empty, backendVars
    <3>2. QED
      BY <2>3, <3>1 DEF Own, Found, Pending, Wanted
  <2>4. QED
    BY <2>2, <2>3
<1>4. ASSUME NEW c \in Channels, Visit(c) PROVE Own'
  <2>1. Known /\ c \in DOMAIN table /\ phase = "discovering"
    BY <1>4 DEF Visit, Known, Typed, Located, Found
  <2>2. /\ chars = DOMAIN table \ todo /\ DOMAIN notifyOk = Wanted
        /\ table # NoService /\ \A r \in cancels : r.link = client
    BY <2>1 DEF Own, Found, Pending
  <2>3. /\ chars' = DOMAIN table \ todo' /\ phase' # "registering" /\ phase' # "resolving"
        /\ UNCHANGED <<table, notifyOk, cancels, client>>
    BY <1>4, <2>1, <2>2 DEF Visit, backendVars
  <2>4. DOMAIN notifyOk' = Wanted' \ (IF phase' \in Pending THEN {at'} ELSE {})
    <3>1. CASE c \in Subscribed /\ table[c].notify
      <4>1. phase' = "starting" /\ at' = c /\ Wanted' = Wanted \cup {c} /\ c \notin Wanted
        BY <1>4, <2>2, <2>3, <3>1 DEF Visit, Wanted
      <4>2. QED
        BY <2>2, <2>3, <4>1 DEF Pending
    <3>2. CASE ~(c \in Subscribed /\ table[c].notify)
      <4>1. phase' = "discovering" /\ Wanted' = Wanted
        BY <1>4, <2>1, <2>3, <3>2 DEF Visit, Wanted
      <4>2. QED
        BY <2>2, <2>3, <4>1 DEF Pending
    <3>3. QED
      BY <3>1, <3>2
  <2>5. QED
    BY <2>2, <2>3, <2>4 DEF Own
<1>5. ASSUME NEW heard \in BOOLEAN, Subscribe(heard), phase \in Pending,
             cancels' = cancels \/ (phase = "registering" /\ cancels' = cancels \cup {Registering})
      PROVE  Own'
  <2>1. Known /\ client = mine
    BY <1>5 DEF Subscribe, Known, Typed, Located, Pending, SetupPhases
  <2>2. /\ chars = DOMAIN table \ todo /\ DOMAIN notifyOk = Wanted \ {at}
        /\ table # NoService /\ \A r \in cancels : r.link = client
    BY <1>5, <2>1 DEF Own, Found, Pending
  <2>3. /\ DOMAIN notifyOk' = DOMAIN notifyOk \cup {at} /\ phase' = "discovering"
        /\ UNCHANGED <<todo, client, chars, table>> /\ Wanted' = Wanted
    BY <1>5 DEF Subscribe, Set, Wanted
  <2>4. at \in Wanted
    BY <1>5, <2>2 DEF Typed, TypeOK, Located, Wanted
  <2>5. \A r \in cancels' : r.link = client
    BY <1>5, <2>1, <2>2 DEF Registering
  <2>6. QED
    BY <2>2, <2>3, <2>4, <2>5 DEF Own, Pending
<1>6. ASSUME SubscribeWithoutCCCD PROVE Own'
  <2>1. Known /\ phase = "starting" /\ phase' = "registering"
        /\ UNCHANGED <<todo, at, client, chars, notifyOk, cancels, table>> /\ Wanted' = Wanted
    BY <1>6 DEF SubscribeWithoutCCCD, backendVars, Known, Wanted
  <2>2. /\ table[at].handle \in DOMAIN handleToChannel'
        /\ handleToChannel'[table[at].handle] = at
    BY <1>6 DEF SubscribeWithoutCCCD, Set
  <2>3. QED
    BY <2>1, <2>2 DEF Own, Found, Pending
<1>7. ASSUME BackendRegisters PROVE Own'
  BY <1>7 DEF BackendRegisters, fieldVars, Own, Known, Wanted, Found, Pending, Empty
<1>8. ASSUME DiscoveryEnds PROVE Own'
  BY <1>8 DEF DiscoveryEnds, fieldVars, backendVars, Own, Known, Wanted, Found, Pending
<1>9. ASSUME Authenticated PROVE Own'
  BY <1>9 DEF Authenticated, fieldVars, backendVars, Own, Known, Wanted, Found, Pending
<1>10. ASSUME UNCHANGED vars PROVE Own'
  BY <1>10 DEF vars, fieldVars, backendVars, Own, Known, Wanted, Found, Pending, Empty
<1>11. CASE StartNotify \/ NoWayAround \/ RememberCancel \/ RegisterFails
  BY <1>11, <1>5 DEF StartNotify, NoWayAround, RememberCancel, RegisterFails, Pending
<1>12. QED
  BY <1>1, <1>2, <1>3, <1>4, <1>6, <1>7, <1>8, <1>9, <1>10, <1>11
     DEF Next, SetupFails, CallDisconnect, OtherDisconnects

-----------------------------------------------------------------------------
(* What is said to notify does, and does so once.                          *)

\* While a channel is being subscribed to nothing is said of it yet.
LEMMA NotSaidYet ==
  ASSUME Typed, Own, Known, phase \in Pending
  PROVE  /\ at \notin DOMAIN notifyOk /\ at \in DOMAIN table /\ client = mine
         /\ \A c \in DOMAIN table : table[c].handle = table[at].handle => c = at
<1>1. at \notin DOMAIN notifyOk
  BY DEF Own, Found, Pending
<1>2. at \in DOMAIN table /\ client = mine /\ table # NoService /\ table \in Tables
  BY DEF Typed, TypeOK, Located, Known, Pending, Found, SetupPhases
<1>3. QED
  BY <1>1, <1>2, TableShape

\* What the end of a subscription says of the channel, and of no other.
LEMMA SubscribeOthers ==
  ASSUME NEW heard, Subscribe(heard)
  PROVE  /\ \A c : c # at => /\ c \in DOMAIN notifyOk' <=> c \in DOMAIN notifyOk
                             /\ c \in DOMAIN notifyOk => notifyOk'[c] = notifyOk[c]
         /\ at \in DOMAIN notifyOk'
         /\ phase' = "discovering"
         /\ UNCHANGED <<mine, todo, at, client, chars, made, table, interrupted, kept>>
  BY DEF Subscribe, Set

LEMMA HeardKept == Typed /\ Own /\ Heard /\ [Next]_vars => Heard'
<1> SUFFICES ASSUME Typed, Own, Heard, [Next]_vars, Known' PROVE Heard'
  BY DEF Heard
<1> USE DEF ByCallback, ByHandle
<1>1. ASSUME Released PROVE FALSE
  BY <1>1 DEF Released, Known
<1>2. ASSUME Connect PROVE Heard'
  BY <1>2 DEF Connect, Heard, Found
<1>3. ASSUME Resolve PROVE Heard'
  <2>1. DOMAIN notifyOk' = {} /\ phase' # "authenticating"
    BY <1>3, NoKeys DEF Resolve, Known, Own, Empty
  <2>2. QED
    BY <2>1 DEF Heard
<1>4. ASSUME NEW c \in Channels, Visit(c) PROVE Heard'
  BY <1>4 DEF Visit, backendVars, Heard, Known, Found
<1>5. ASSUME StartNotify PROVE Heard'
  <2>0. Subscribe(TRUE)
    BY <1>5 DEF StartNotify
  <2>1. Known /\ phase \in Pending /\ phase \in Found
    BY <1>5, <2>0, SubscribeOthers DEF StartNotify, Known, Pending, Found
  <2>2. [link |-> client, channel |-> at] \in callbacks' /\ callbacks \subseteq callbacks'
    BY <1>5, <2>1, NotSaidYet DEF StartNotify
  <2>3. /\ phase' = "discovering" /\ UNCHANGED <<client, table, registered>>
        /\ \A c \in DOMAIN notifyOk' : c # at => c \in DOMAIN notifyOk /\ notifyOk'[c] = notifyOk[c]
    BY <1>5, <2>0 DEF StartNotify, Subscribe, Set
  <2>4. ASSUME NEW c \in DOMAIN notifyOk', notifyOk'[c] PROVE ByCallback(c)' \/ ByHandle(c)'
    <3>1. CASE c = at
      BY <2>2, <2>3, <3>1
    <3>2. CASE c # at
      BY <2>1, <2>2, <2>3, <2>4, <3>2 DEF Heard
    <3>3. QED
      BY <3>1, <3>2
  <2>5. QED
    BY <2>3, <2>4 DEF Heard
<1>6. ASSUME NoWayAround \/ RegisterFails PROVE Heard'
  <2>0. Subscribe(FALSE)
    BY <1>6 DEF NoWayAround, RegisterFails
  <2>1. Known /\ phase \in Found /\ UNCHANGED <<callbacks, registered>>
    BY <1>6, <2>0, SubscribeOthers DEF NoWayAround, RegisterFails, Known, Found
  <2>2. /\ phase' = "discovering" /\ UNCHANGED <<client, table>>
        /\ \A c \in DOMAIN notifyOk' : notifyOk'[c] => c \in DOMAIN notifyOk /\ notifyOk[c]
    BY <2>0 DEF Subscribe, Set
  <2>3. QED
    BY <2>1, <2>2 DEF Heard
<1>7. ASSUME SubscribeWithoutCCCD PROVE Heard'
  BY <1>7 DEF SubscribeWithoutCCCD, backendVars, Heard, Known, Found
<1>8. ASSUME BackendRegisters PROVE Heard'
  BY <1>8 DEF BackendRegisters, fieldVars, Heard, Known, Found
<1>9. ASSUME RememberCancel PROVE Heard'
  <2>0. Subscribe(TRUE)
    BY <1>9 DEF RememberCancel
  <2>1. Known /\ phase \in Pending /\ phase \in Found
    BY <1>9, <2>0, SubscribeOthers DEF RememberCancel, Known, Pending, Found
  <2>2. [link |-> client, handle |-> table[at].handle] \in registered
    BY <1>9, <2>1, NotSaidYet DEF RememberCancel, Registering
  <2>3. /\ phase' = "discovering" /\ UNCHANGED <<client, table, callbacks, registered>>
        /\ \A c \in DOMAIN notifyOk' : c # at => c \in DOMAIN notifyOk /\ notifyOk'[c] = notifyOk[c]
    BY <1>9, <2>0 DEF RememberCancel, Subscribe, Set
  <2>4. ASSUME NEW c \in DOMAIN notifyOk', notifyOk'[c] PROVE ByCallback(c)' \/ ByHandle(c)'
    <3>1. CASE c = at
      BY <2>2, <2>3, <3>1
    <3>2. CASE c # at
      BY <2>1, <2>3, <2>4, <3>2 DEF Heard
    <3>3. QED
      BY <3>1, <3>2
  <2>5. QED
    BY <2>3, <2>4 DEF Heard
<1>10. ASSUME DiscoveryEnds PROVE Heard'
  BY <1>10 DEF DiscoveryEnds, fieldVars, backendVars, Heard, Known, Found, AnyNotifies
<1>11. ASSUME Authenticated PROVE Heard'
  BY <1>11 DEF Authenticated, fieldVars, backendVars, Heard, Known, Found
<1>12. ASSUME UNCHANGED vars PROVE Heard'
  BY <1>12 DEF vars, fieldVars, backendVars, Heard, Known, Found, AnyNotifies
<1>13. QED
  BY <1>1, <1>2, <1>3, <1>4, <1>5, <1>6, <1>7, <1>8, <1>9, <1>10, <1>11, <1>12
     DEF Next, SetupFails, CallDisconnect, OtherDisconnects

LEMMA OnceKept == Typed /\ Remembered /\ Own /\ Once /\ [Next]_vars => Once'
<1> SUFFICES ASSUME Typed, Remembered, Own, Once, [Next]_vars,
                    Known', interrupted' = {}, phase' \in Found \cup {"idle"}
             PROVE  Once'
  BY DEF Once
<1> USE DEF ByCallback, ByHandle, Said
<1>1. ASSUME Released PROVE FALSE
  BY <1>1 DEF Released, Known
<1>2. ASSUME Connect PROVE Once'
  BY <1>2 DEF Connect, Found
<1>3. ASSUME Resolve PROVE Once'
  <2>1. Empty /\ interrupted = {} /\ phase = "resolving" /\ client = mine
    BY <1>3 DEF Resolve, Known, Own, Typed, Located, SetupPhases
  <2>2. registered = {} /\ \A cb \in callbacks : cb.link # client
    BY <2>1 DEF Empty, Remembered, Typed, Located
  <2>3. UNCHANGED <<client, table, callbacks, registered>>
    BY <1>3 DEF Resolve, backendVars
  <2>4. \A c : [link |-> client, channel |-> c] \notin callbacks
    BY <2>2
  <2>5. QED
    BY <2>2, <2>3, <2>4 DEF Once
<1>4. ASSUME NEW c \in Channels, Visit(c) PROVE Once'
  BY <1>4 DEF Visit, backendVars, Once, Known, Found
<1>5. ASSUME StartNotify PROVE Once'
  <2>0. Subscribe(TRUE)
    BY <1>5 DEF StartNotify
  <2>1. Known /\ phase \in Pending /\ phase \in Found /\ phase # "registering"
        /\ interrupted = {}
    BY <1>5, <2>0, SubscribeOthers DEF StartNotify, Known, Pending, Found
  <2>2. ~ByHandle(at)
    BY <2>1, NotSaidYet DEF Once
  <2>3. callbacks' = callbacks \cup {[link |-> client, channel |-> at]}
    BY <1>5, <2>1, NotSaidYet DEF StartNotify
  <2>4. UNCHANGED <<handleToChannel, registered>>
    BY <1>5 DEF StartNotify
  <2>5. /\ phase' = "discovering" /\ UNCHANGED <<at, client, table>>
        /\ \A c : Said(c)' <=> c = at \/ Said(c)
    BY <2>0 DEF Subscribe, Set
  <2>6. QED
    BY <2>1, <2>2, <2>3, <2>4, <2>5 DEF Once
<1>6. ASSUME NoWayAround \/ RegisterFails PROVE Once'
  <2>0. Subscribe(FALSE)
    BY <1>6 DEF NoWayAround, RegisterFails
  <2>1. Known /\ phase \in Pending /\ phase \in Found /\ interrupted = {}
    BY <1>6, <2>0, SubscribeOthers DEF NoWayAround, RegisterFails, Known, Pending, Found
  <2>2. ~ByHandle(at)
    BY <1>6, <2>1, NotSaidYet DEF Once, NoWayAround, RegisterFails, Registering
  <2>3. ~ByCallback(at)
    BY <2>1, NotSaidYet DEF Once
  <2>4. UNCHANGED <<handleToChannel, callbacks, registered>>
    BY <1>6 DEF NoWayAround, RegisterFails
  <2>5. /\ phase' = "discovering" /\ UNCHANGED <<at, client, table>>
        /\ \A c : Said(c)' <=> c # at /\ Said(c)
    BY <2>0 DEF Subscribe, Set
  <2>6. QED
    BY <2>1, <2>2, <2>3, <2>4, <2>5 DEF Once
<1>7. ASSUME SubscribeWithoutCCCD PROVE Once'
  <2>1. Known /\ phase \in Pending /\ phase \in Found /\ phase = "starting" /\ interrupted = {}
    BY <1>7 DEF SubscribeWithoutCCCD, Known, Pending, Found
  <2>2. ~ByHandle(at)
    BY <2>1, NotSaidYet DEF Once
  <2>3. handleToChannel' = Set(handleToChannel, table[at].handle, at)
        /\ UNCHANGED <<client, notifyOk, table, callbacks, registered>>
    BY <1>7 DEF SubscribeWithoutCCCD, backendVars
  <2>4. \A h \in DOMAIN handleToChannel :
          /\ h \in DOMAIN handleToChannel'
          /\ h # table[at].handle => handleToChannel'[h] = handleToChannel[h]
    BY <2>3 DEF Set
  <2>5. QED
    BY <2>1, <2>2, <2>3, <2>4, NotSaidYet DEF Once
<1>8. ASSUME BackendRegisters PROVE Once'
  <2>1. Known /\ phase \in Pending /\ phase \in Found /\ phase = "registering" /\ interrupted = {}
    BY <1>8 DEF BackendRegisters, fieldVars, Known, Pending, Found
  <2>2. registered' = registered \cup {[link |-> client, handle |-> table[at].handle]}
        /\ UNCHANGED <<phase, at, client, notifyOk, handleToChannel, table, callbacks>>
    BY <1>8, <2>1, NotSaidYet DEF BackendRegisters, fieldVars, Registering
  <2>3. ~ByCallback(at)
    BY <2>1, NotSaidYet DEF Once
  <2>4. /\ table[at].handle \in DOMAIN handleToChannel
        /\ handleToChannel[table[at].handle] = at
    BY <2>1 DEF Own
  <2>5. QED
    BY <2>1, <2>2, <2>3, <2>4, NotSaidYet DEF Once
<1>9. ASSUME RememberCancel PROVE Once'
  <2>0. Subscribe(TRUE)
    BY <1>9 DEF RememberCancel
  <2>1. Known /\ phase \in Pending /\ phase \in Found /\ interrupted = {}
    BY <1>9, <2>0, SubscribeOthers DEF RememberCancel, Known, Pending, Found
  <2>2. ~ByCallback(at)
    BY <2>1, NotSaidYet DEF Once
  <2>3. UNCHANGED <<handleToChannel, callbacks, registered>>
    BY <1>9 DEF RememberCancel
  <2>4. /\ phase' = "discovering" /\ UNCHANGED <<at, client, table>>
        /\ \A c : Said(c)' <=> c = at \/ Said(c)
    BY <2>0 DEF Subscribe, Set
  <2>5. QED
    BY <2>1, <2>2, <2>3, <2>4 DEF Once
<1>10. ASSUME DiscoveryEnds PROVE Once'
  BY <1>10 DEF DiscoveryEnds, fieldVars, backendVars, Once, Known, Found
<1>11. ASSUME Authenticated PROVE Once'
  BY <1>11 DEF Authenticated, fieldVars, backendVars, Once, Known, Found
<1>12. ASSUME UNCHANGED vars PROVE Once'
  BY <1>12 DEF vars, fieldVars, backendVars, Once, Known, Found
<1>13. QED
  BY <1>1, <1>2, <1>3, <1>4, <1>5, <1>6, <1>7, <1>8, <1>9, <1>10, <1>11, <1>12
     DEF Next, SetupFails, CallDisconnect, OtherDisconnects

-----------------------------------------------------------------------------
(* The properties.                                                         *)

LEMMA NextInv == IInv /\ [Next]_vars => IInv'
  BY NextTyped, RememberedKept, EmptiedKept, OwnKept, HeardKept, OnceKept DEF IInv

LEMMA Invariant == Spec => []IInv
  BY InitInv, NextInv, PTL DEF Spec

LEMMA InvReleased == IInv => HandlersReleased
  BY DEF IInv, Remembered, Emptied, Empty, HandlersReleased

LEMMA InvFields == IInv => FieldsAreThisLinks
<1> SUFFICES ASSUME IInv, phase = "idle" PROVE FieldsAreThisLinks
  BY DEF FieldsAreThisLinks
<1>1. CASE client = None
  BY <1>1 DEF IInv, Emptied, Empty, FieldsAreThisLinks
<1>2. CASE client # None /\ ~kept
  <2>1. todo = {}
    BY DEF IInv, Typed, Located
  <2>2. QED
    BY <1>2, <2>1 DEF IInv, Own, Known, Pending, Wanted, FieldsAreThisLinks
<1>3. QED
  BY <1>1, <1>2 DEF FieldsAreThisLinks

\* A set with at most one possible member has it or is empty.
LEMMA OneOrNone ==
  ASSUME NEW S, NEW x, S \subseteq {x}
  PROVE  Cardinality(S) = IF x \in S THEN 1 ELSE 0
<1>1. CASE x \in S
  BY <1>1, FS_Singleton, S = {x}
<1>2. CASE x \notin S
  BY <1>2, FS_EmptySet, S = {}
<1>3. QED
  BY <1>1, <1>2

LEMMA InvNotify == IInv => NotifyOkIsTrue
<1> SUFFICES ASSUME IInv, phase = "idle", Known, interrupted = {}, NEW c \in DOMAIN table
             PROVE  /\ Deliveries(client, c) = IF Said(c) THEN 1 ELSE 0
                    /\ \A r \in registered : r.handle = table[c].handle => handleToChannel[r.handle] = c
  BY DEF NotifyOkIsTrue, Known, Said
<1> DEFINE hears == {cb \in callbacks : cb = [link |-> client, channel |-> c]}
           handles == {r \in registered : r.handle = table[c].handle}
           handler == [link |-> client, handle |-> table[c].handle]
<1>1. \A r \in registered : r.link = client
  BY DEF IInv, Remembered, Own
<1>2. handles \subseteq {handler}
  BY <1>1 DEF IInv, Typed, TypeOK, Handlers
<1>3. /\ Cardinality(hears) = IF ByCallback(c) THEN 1 ELSE 0
      /\ Cardinality(handles) = IF ByHandle(c) THEN 1 ELSE 0
  <2>1. Cardinality(hears) = IF [link |-> client, channel |-> c] \in hears THEN 1 ELSE 0
    <3>1. hears \subseteq {[link |-> client, channel |-> c]}
      OBVIOUS
    <3>2. QED
      BY <3>1, OneOrNone
  <2>2. Cardinality(handles) = IF handler \in handles THEN 1 ELSE 0
    BY <1>2, OneOrNone
  <2>3. QED
    BY <2>1, <2>2 DEF ByCallback, ByHandle
<1>4. /\ ~(ByCallback(c) /\ ByHandle(c))
      /\ Said(c) <=> ByCallback(c) \/ ByHandle(c)
  BY DEF IInv, Heard, Once, Said
<1>5. Deliveries(client, c) = IF Said(c) THEN 1 ELSE 0
  <2>1. Deliveries(client, c) = Cardinality(hears) + Cardinality(handles)
    BY DEF Deliveries
  <2>2. QED
    BY <1>3, <1>4, <2>1
<1>6. ASSUME NEW r \in registered, r.handle = table[c].handle
      PROVE  handleToChannel[r.handle] = c
  <2>1. r = handler
    BY <1>2, <1>6
  <2>2. ByHandle(c)
    BY <2>1 DEF ByHandle
  <2>3. QED
    BY <1>6, <2>2 DEF IInv, Once
<1>7. QED
  BY <1>5, <1>6

LEMMA InvHeard == IInv => HandshakeCanBeHeard
<1> SUFFICES ASSUME IInv, phase = "authenticating", client = mine, ~kept
             PROVE  (\E cb \in callbacks : cb.link = mine) \/ (\E r \in registered : r.link = mine)
  BY DEF HandshakeCanBeHeard
<1>1. Known
  BY DEF IInv, Typed, Located, SetupPhases, Known, Links, None
<1>2. PICK c \in DOMAIN notifyOk : notifyOk[c]
  BY <1>1 DEF IInv, Heard, AnyNotifies
<1>3. ByCallback(c) \/ ByHandle(c)
  BY <1>1, <1>2 DEF IInv, Heard, Found
<1>4. QED
  BY <1>3 DEF ByCallback, ByHandle

\* TypeOK: the fields of the client, the locals of connect() and the handlers
\* of the backend have their types, and every unsubscribing kept is of a
\* handler that is registered.
THEOREM TypeCorrect == Spec => []TypeOK
<1>1. IInv => TypeOK
  BY DEF IInv, Typed
<1>2. QED
  BY <1>1, Invariant, PTL

\* HandlersReleased: between calls, without a client, the backend holds no
\* handler but one whose registration was cut off (client.py:269, :276).
THEOREM HandlersAreReleased == Spec => []HandlersReleased
  BY Invariant, InvReleased, PTL

\* FieldsAreThisLinks: after a connect() that followed no other, _chars,
\* _notify_ok and _notify_cancels are of the link's own table, and after one
\* that failed they are empty.
THEOREM FieldsAreOfTheLink == Spec => []FieldsAreThisLinks
  BY Invariant, InvFields, PTL

\* NotifyOkIsTrue: _notify_ok says of a channel that it notifies exactly if a
\* notification of it is delivered, then once and under its own name.
THEOREM NotifyOkTellsTheTruth == Spec => []NotifyOkIsTrue
  BY Invariant, InvNotify, PTL

\* HandshakeCanBeHeard: the handshake is begun only on a link that has been
\* subscribed to.
THEOREM HandshakeIsHeard == Spec => []HandshakeCanBeHeard
  BY Invariant, InvHeard, PTL

=============================================================================
