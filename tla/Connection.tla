----------------------------- MODULE Connection -----------------------------
(***************************************************************************)
(* The life of a connection: EaseeCharger.connect and .disconnect, the     *)
(* callback by which the backend reports a drop, and the links themselves  *)
(* (client.py).  connect() runs                                            *)
(*                                                                         *)
(*   idle         -> establishing   establish_connection is pending        *)
(*   establishing -> subscribing    the new client's channels are resolved *)
(*                                  and subscribed to                      *)
(*   subscribing  -> hello1, hello2 the two requests of the handshake      *)
(*   any of these -> closing        disconnect(), waiting for the backend  *)
(*   idle         -> asking         a request on the connection once made  *)
(*                                                                         *)
(* Around it: links that drop, are reported as dropped late, or by a       *)
(* client of the past; a backend whose belief in a link outlives it; a     *)
(* disconnect that outlasts the call that asked for it; cancellation; and  *)
(* a second task that disconnects while the first is in a call.            *)
(*                                                                         *)
(* A BleakClient is the number of the connection it was made for.  Of a    *)
(* request there is its bond, which marks the connection; how it is        *)
(* answered is the matter of module Exchange, and which handlers are       *)
(* subscribed meanwhile that of module Discovery.                          *)
(***************************************************************************)
EXTENDS Naturals

CONSTANTS
  MaxClients,   \* bound: how many links are ever established
  MaxStale,     \* bound: drops of earlier attempts not reported (CONNECT_ATTEMPTS - 1)
  Disciplined,  \* whether the caller disconnects before it connects again
  Overlapping   \* whether another task may disconnect meanwhile

ASSUME ConnectionAssumption ==
  /\ MaxClients \in Nat \ {0}
  /\ MaxStale \in Nat
  /\ Disciplined \in BOOLEAN
  /\ Overlapping \in BOOLEAN

VARIABLES
  \* the caller's task: where it is suspended, its locals
  phase,      \* the await it is in
  mine,       \* the local `client` of connect() or disconnect()
  pairing,    \* the client whose pair() the request in progress awaits
  arrived,    \* the reply to the HELLO request in progress has been queued
  \* the fields of EaseeCharger
  client,     \* _client
  session,    \* _session: the client it was negotiated over
  bonded,     \* _bonded
  linkLost,   \* _link_lost
  lostEvent,  \* _link_lost_event.is_set()
  \* the backend and the radio
  made,       \* how many clients there have been
  link,       \* of every client: not yet made, up or down
  believed,   \* the clients whose is_connected is true
  closing,    \* of every client: how far its disconnect() has come
  reported,   \* the clients whose drop has been reported
  stale,      \* attempts whose drop has not been reported
  pairedOn    \* ghost: the client that `bonded` was set for

callVars    == <<phase, mine, arrived, pairing>>
fieldVars   == <<client, session, bonded, linkLost, lostEvent>>
backendVars == <<made, link, believed, closing, reported, stale>>
vars == <<callVars, fieldVars, backendVars, pairedOn>>

None    == 0
Clients == 1..MaxClients

HelloPhases == {"hello1", "hello2"}
SetupPhases == {"subscribing"} \cup HelloPhases
Phases == {"idle", "establishing", "closing", "asking"} \cup SetupPhases

\* Whether the charger's one slot is free (README.md: "a single connection
\* slot"): no second link is established while one is up.
SlotFree == \A c \in Clients : link[c] # "up"

\* The property `connected`.
Connected == client # None /\ client \in believed /\ ~linkLost

-----------------------------------------------------------------------------
(* disconnect().                                                           *)

\* Up to its first suspension.
Released ==
  /\ client' = None
  /\ session' = None
  /\ bonded' = FALSE
  /\ closing' = IF client = None THEN closing ELSE [closing EXCEPT ![client] = "running"]
  /\ UNCHANGED <<linkLost, lostEvent>>

\* The caller's task disconnects, of its own or because connect() failed.
Disconnect ==
  /\ Released
  /\ phase' = IF client = None THEN "idle" ELSE "closing"
  /\ mine' = client
  /\ arrived' = FALSE
  /\ pairing' = None
  /\ UNCHANGED <<made, link, believed, reported, stale, pairedOn>>

CallDisconnect ==
  /\ phase = "idle"
  /\ Disconnect

\* A bug: DISCONNECT_TIMEOUT, or the caller's cancellation, cancels the task.
CloseIsCancelled ==
  /\ phase = "closing"
  /\ phase' = "idle"
  /\ mine' = None
  /\ closing' = [closing EXCEPT ![mine] = IF @ = "running" THEN "cancelled" ELSE @]
  /\ UNCHANGED <<arrived, pairing, fieldVars, made, link, believed, reported, stale, pairedOn>>

\* The disconnect is over, or DISCONNECT_TIMEOUT is, or the caller is
\* cancelled: the caller goes on, and the disconnect is left to run.
CloseEnds ==
  /\ phase = "closing"
  /\ phase' = "idle"
  /\ mine' = None
  /\ UNCHANGED <<arrived, pairing, fieldVars, backendVars, pairedOn>>

\* Another task calls disconnect() while the caller is in connect(), or in a
\* request.
OtherDisconnects ==
  /\ Overlapping
  /\ phase \in SetupPhases \cup {"establishing", "asking"}
  /\ Released
  /\ UNCHANGED <<callVars, made, link, believed, reported, stale, pairedOn>>

-----------------------------------------------------------------------------
(* connect().                                                              *)

Connect ==
  /\ phase = "idle"
  /\ made < MaxClients
  /\ Disciplined => client = None
  /\ linkLost' = FALSE
  /\ lostEvent' = FALSE
  /\ phase' = "establishing"
  /\ UNCHANGED <<mine, arrived, pairing, client, session, bonded, backendVars, pairedOn>>

\* LINK_TIMEOUT, a BleakError or a cancellation: there is no client to close.
EstablishFails ==
  /\ phase = "establishing"
  /\ phase' = "idle"
  /\ UNCHANGED <<mine, arrived, pairing, fieldVars, backendVars, pairedOn>>

Established ==
  /\ phase = "establishing"
  /\ SlotFree
  /\ LET new == made + 1 IN
     /\ made' = new
     /\ link' = [link EXCEPT ![new] = "up"]
     /\ believed' = believed \cup {new}
     /\ client' = new
     /\ mine' = new
  /\ phase' = "subscribing"
  /\ UNCHANGED <<arrived, pairing, session, bonded, linkLost, lostEvent, closing, reported, stale,
                 pairedOn>>

\* A bug: `except Exception`, which a cancellation is not.
SetupIsCancelled ==
  /\ phase \in SetupPhases
  /\ \/ Disconnect
     \/ /\ phase' = "idle"
        /\ mine' = None
        /\ arrived' = FALSE
        /\ pairing' = None
        /\ UNCHANGED <<fieldVars, backendVars, pairedOn>>

\* A bug: no SETUP_TIMEOUT.
SetupFailsOnDrop ==
  /\ phase \in SetupPhases
  /\ linkLost
  /\ Disconnect

\* Discovery, subscribing or the handshake failed, SETUP_TIMEOUT passed, or
\* the caller was cancelled: whichever it is, connect() disconnects.
SetupFails ==
  /\ phase \in SetupPhases
  /\ Disconnect

\* The guards at the head of _write_and_wait.
MayWrite == client # None /\ ~linkLost

\* The next request of the handshake is made, or refused.
Hello(next) ==
  \/ /\ MayWrite
     /\ phase' = next
     /\ arrived' = FALSE
     /\ UNCHANGED <<mine, pairing, fieldVars, backendVars, pairedOn>>
  \/ /\ ~MayWrite
     /\ Disconnect

StartHandshake == phase = "subscribing" /\ Hello("hello1")

HelloReply ==
  /\ phase \in {"hello1", "hello2"}
  /\ link[mine] = "up"
  /\ arrived' = TRUE
  /\ UNCHANGED <<phase, mine, pairing, fieldVars, backendVars, pairedOn>>

ReadRoundOne == phase = "hello1" /\ arrived /\ pairing = None /\ Hello("hello2")

\* The reply to round two is taken even if the drop is known by then.  The
\* session is set, and _reconcile_link_lost settles a drop that was reported:
\* believed to be up, the link is; else connect() disconnects and raises.
ReadRoundTwo ==
  /\ phase = "hello2"
  /\ arrived
  /\ pairing = None
  /\ \/ /\ linkLost => mine \in believed
        /\ session' = mine
        /\ linkLost' = FALSE
        /\ phase' = "idle"
        /\ mine' = None
        /\ arrived' = FALSE
        /\ UNCHANGED <<pairing, client, bonded, lostEvent, backendVars, pairedOn>>
     \/ /\ linkLost /\ mine \notin believed
        /\ Disconnect

-----------------------------------------------------------------------------
(* A request: of the handshake, or one made of the connection afterwards.  *)

\* poll() or perform() writes its request.
Ask ==
  /\ phase = "idle"
  /\ session # None
  /\ MayWrite
  /\ phase' = "asking"
  /\ UNCHANGED <<mine, arrived, pairing, fieldVars, backendVars, pairedOn>>

\* It is answered, it fails - in its pair(), for one - or the caller is
\* cancelled.  A request of the handshake that fails is SetupFails.
RequestEnds ==
  /\ phase = "asking"
  /\ phase' = "idle"
  /\ pairing' = None
  /\ UNCHANGED <<mine, arrived, fieldVars, backendVars, pairedOn>>

\* The charger refuses the write for want of an encrypted link, and pair() is
\* called on the client there is then ...
Bond ==
  /\ phase \in HelloPhases \cup {"asking"}
  /\ pairing = None
  /\ client # None
  /\ ~bonded
  /\ pairing' = client
  /\ UNCHANGED <<phase, mine, arrived, fieldVars, backendVars, pairedOn>>

\* ... and when it is done _bonded is set, whatever has become of that client.
\* The next write fails at once if it is gone - SetupFails in connect() - unless
\* there is none, this having been the last attempt.
PairEnds ==
  /\ pairing # None
  /\ bonded' = TRUE
  /\ pairedOn' = pairing
  /\ pairing' = None
  /\ \/ UNCHANGED phase
     \/ client = None /\ phase = "asking" /\ phase' = "idle"
  /\ UNCHANGED <<mine, arrived, client, session, linkLost, lostEvent, backendVars>>

-----------------------------------------------------------------------------
(* The backend and the radio.                                              *)

\* _on_disconnected.  It does not look at which client the report is about.
OnDisconnected ==
  /\ linkLost' = TRUE
  /\ lostEvent' = (lostEvent \/ ~linkLost)
  /\ UNCHANGED <<client, session, bonded>>

LinkDrops(c) ==
  /\ link[c] = "up"
  /\ link' = [link EXCEPT ![c] = "down"]
  /\ UNCHANGED <<callVars, fieldVars, made, believed, closing, reported, stale,
                 pairedOn>>

BeliefCatchesUp(c) ==
  /\ link[c] = "down" /\ c \in believed
  /\ believed' = believed \ {c}
  /\ UNCHANGED <<callVars, fieldVars, made, link, closing, reported, stale,
                 pairedOn>>

DropReported(c) ==
  /\ link[c] = "down" /\ c \notin reported
  /\ reported' = reported \cup {c}
  /\ OnDisconnected
  /\ UNCHANGED <<callVars, made, link, believed, closing, stale, pairedOn>>

\* A bug: max_attempts is not given.
AttemptDropsEndlessly ==
  /\ phase = "establishing"
  /\ stale' = stale + 1
  /\ UNCHANGED <<callVars, fieldVars, made, link, believed, closing, reported, pairedOn>>

\* An attempt inside establish_connection connects and drops again ...
AttemptDrops ==
  /\ phase = "establishing"
  /\ stale < MaxStale
  /\ stale' = stale + 1
  /\ UNCHANGED <<callVars, fieldVars, made, link, believed, closing, reported, pairedOn>>

\* ... which is reported while connecting, if it is.
AttemptReported ==
  /\ phase \in SetupPhases \cup {"establishing"}
  /\ stale > 0
  /\ stale' = stale - 1
  /\ OnDisconnected
  /\ UNCHANGED <<callVars, made, link, believed, closing, reported, pairedOn>>

\* client.disconnect() completes: the link is down and known to be.
DisconnectCompletes(c) ==
  /\ closing[c] = "running"
  /\ closing' = [closing EXCEPT ![c] = "done"]
  /\ link' = [link EXCEPT ![c] = "down"]
  /\ believed' = believed \ {c}
  /\ UNCHANGED <<callVars, fieldVars, made, reported, stale, pairedOn>>

\* client.disconnect() raises: "the link may still be held".
DisconnectFails(c) ==
  /\ closing[c] = "running"
  /\ closing' = [closing EXCEPT ![c] = "failed"]
  /\ UNCHANGED <<callVars, fieldVars, made, link, believed, reported, stale,
                 pairedOn>>

-----------------------------------------------------------------------------
(* The specification.                                                      *)

\* As EaseeCharger.__init__ leaves it.
Init ==
  /\ phase = "idle" /\ mine = None /\ arrived = FALSE /\ pairing = None
  /\ client = None /\ session = None /\ bonded = FALSE
  /\ linkLost = FALSE /\ lostEvent = FALSE
  /\ made = 0
  /\ link = [c \in Clients |-> "none"]
  /\ believed = {}
  /\ closing = [c \in Clients |-> "no"]
  /\ reported = {} /\ stale = 0
  /\ pairedOn = None

Next ==
  \/ Connect
  \/ EstablishFails
  \/ Established
  \/ StartHandshake
  \/ HelloReply
  \/ ReadRoundOne
  \/ ReadRoundTwo
  \/ SetupFails
  \/ Ask
  \/ RequestEnds
  \/ Bond
  \/ PairEnds
  \/ CallDisconnect
  \/ CloseEnds
  \/ OtherDisconnects
  \/ AttemptDrops
  \/ AttemptReported
  \/ \E c \in Clients :
       \/ LinkDrops(c)
       \/ BeliefCatchesUp(c)
       \/ DropReported(c)
       \/ DisconnectCompletes(c)
       \/ DisconnectFails(c)

Spec == Init /\ [][Next]_vars

\* The timeouts of connect() and disconnect() fire: LINK_TIMEOUT,
\* SETUP_TIMEOUT and DISCONNECT_TIMEOUT.  A request ends by Exchange's CallsEnd.
\* Nothing else is promised.
FairSpec ==
  Spec /\ WF_vars(EstablishFails) /\ WF_vars(SetupFails) /\ WF_vars(CloseEnds)
       /\ WF_vars(RequestEnds)

-----------------------------------------------------------------------------
(* Properties.                                                             *)

TypeOK ==
  /\ phase \in Phases
  /\ mine \in Clients \cup {None}
  /\ arrived \in BOOLEAN
  /\ pairing \in Clients \cup {None}
  /\ client \in Clients \cup {None}
  /\ session \in Clients \cup {None}
  /\ bonded \in BOOLEAN /\ linkLost \in BOOLEAN /\ lostEvent \in BOOLEAN
  /\ made \in 0..MaxClients
  /\ link \in [Clients -> {"none", "up", "down"}]
  /\ believed \subseteq Clients
  /\ closing \in [Clients -> {"no", "running", "done", "failed", "cancelled"}]
  /\ reported \subseteq Clients
  /\ stale \in 0..MaxStale
  /\ pairedOn \in Clients \cup {None}

\* No link is abandoned: one that is up is the client's, or it is being
\* closed, or its backend failed to close it - whichever way the calls before
\* ended, cancelled, timed out or overtaken by another task.
NoLinkAbandoned ==
  \A c \in Clients : link[c] = "up" => client = c \/ closing[c] \in {"running", "failed"}

\* Once connect() is over there is a client only with the session negotiated
\* over it, also while a request is out: no half-made connection, and no session
\* of an earlier one.
ClientIsAuthenticated ==
  phase \in {"idle", "asking"} /\ client # None => session = client

\* connect(), disconnect() and what is asked between them end, whatever the
\* backend does or leaves undone.
CallsEnd == phase # "idle" ~> phase = "idle"

-----------------------------------------------------------------------------
(* What the repository says of a connection and the code does not keep.    *)

\* client.py:115, "Whether this connection is still usable", and client.py:82,
\* "Called once when the link drops": between calls, while the link of the
\* client is up, it is not taken for lost, and no wait for a reply would end at
\* once as dropped - whatever was reported of other links, and when.
Usable ==
  phase = "idle" /\ client # None /\ link[client] = "up" => ~linkLost /\ ~lostEvent

\* client.py:98, "Whether this connection has been bonded on demand already":
\* _bonded speaks of the client in use, not of one before it.
BondIsTheClients == bonded /\ client # None => pairedOn = client

=============================================================================
