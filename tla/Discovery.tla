----------------------------- MODULE Discovery ------------------------------
(***************************************************************************)
(* Between the link and the handshake: _resolve_and_authenticate and what  *)
(* it calls (client.py), for which module Connection has the single phase  *)
(* "subscribing".  The characteristics of the service are visited one by   *)
(* one, and each that is wanted and can notify is subscribed to:           *)
(*                                                                         *)
(*   resolving    the MTU is asked for; then get_service                   *)
(*   discovering  between two characteristics, with no await               *)
(*   starting     start_notify is pending                                  *)
(*   registering  the start_notify out of band is pending                  *)
(*   clearing     the cached table is being cleared; connect() will raise  *)
(*   authenticating                                                        *)
(*                                                                         *)
(* connect() may fail or be cancelled at each, the caller may connect      *)
(* again without disconnecting, and another task may disconnect meanwhile. *)
(* Characteristics with a UUID of no channel change nothing and are left   *)
(* out.  What the out-of-band start_notify hands back does unsubscribe.    *)
(***************************************************************************)
EXTENDS Naturals, FiniteSets

CONSTANTS
  Channels,    \* protocol.Channel
  Hello,       \* Channel.HELLO
  Subscribed,  \* _channels: what to subscribe to
  Handles,     \* the handles of characteristics
  Tables,      \* the GATT tables a link may show, NoService among them
  NoService,   \* get_service gives None
  MaxLinks     \* bound: how many links are established

ASSUME DiscoveryAssumption ==
  /\ Hello \in Subscribed /\ Subscribed \subseteq Channels
  /\ NoService \in Tables
  /\ MaxLinks \in Nat \ {0}

\* Of each channel the service has: the handle, and whether it can notify.
ASSUME TableAssumption ==
  \A t \in Tables \ {NoService} :
    /\ DOMAIN t \subseteq Channels
    /\ \A c \in DOMAIN t : t[c].handle \in Handles /\ t[c].notify \in BOOLEAN
    /\ \A c, d \in DOMAIN t : t[c].handle = t[d].handle => c = d

VARIABLES
  phase, mine,      \* the await connect() is in, its local `client`
  todo,             \* the characteristics not visited yet
  at,               \* the channel being subscribed to
  \* the fields of EaseeCharger
  client,           \* _client: the link it was made for
  chars,            \* _chars, the channels of it
  notifyOk,         \* _notify_ok
  handleToChannel,  \* _handle_to_channel
  cancels,          \* _notify_cancels: the handlers they unsubscribe
  \* the backend and the charger
  made,             \* how many links there have been
  table,            \* what the services of the last one show
  callbacks,        \* [link, channel]: _on_notify is called for it
  registered,       \* [link, handle]: _on_notify_handle is called for it
  \* ghosts
  interrupted,      \* handlers whose registration was cut off before its end
  kept              \* the last connect() followed another, with no disconnect

fieldVars   == <<client, chars, notifyOk, handleToChannel, cancels>>
backendVars == <<made, table, callbacks, registered>>
vars == <<phase, mine, todo, at, fieldVars, backendVars, interrupted, kept>>

None  == 0
Links == 1..MaxLinks

SetupPhases == {"resolving", "discovering", "starting", "registering", "clearing", "authenticating"}

\* A field of a dict is set.
Set(f, key, value) == [x \in DOMAIN f \cup {key} |-> IF x = key THEN value ELSE f[x]]

AnyNotifies == \E c \in DOMAIN notifyOk : notifyOk[c]

-----------------------------------------------------------------------------
\* A bug: the handlers are forgotten and not unsubscribed.
ReleasedWithoutUnsubscribing ==
  /\ client' = None
  /\ chars' = {}
  /\ notifyOk' = <<>>
  /\ handleToChannel' = <<>>
  /\ cancels' = {}
  /\ UNCHANGED <<registered, made, table, callbacks>>

\* A bug: what the channels were said to do is kept.
ReleasedAllButNotify ==
  /\ client' = None
  /\ chars' = {}
  /\ handleToChannel' = <<>>
  /\ cancels' = {}
  /\ registered' = registered \ cancels
  /\ UNCHANGED <<notifyOk, made, table, callbacks>>

\* disconnect(), up to its first suspension.
Released ==
  /\ client' = None
  /\ chars' = {}
  /\ notifyOk' = <<>>
  /\ handleToChannel' = <<>>
  /\ cancels' = {}
  /\ registered' = registered \ cancels
  /\ UNCHANGED <<made, table, callbacks>>

CallDisconnect ==
  /\ phase = "idle"
  /\ Released
  /\ UNCHANGED <<phase, mine, todo, at, interrupted, kept>>

\* Another task disconnects while connect() is under way.
OtherDisconnects ==
  /\ phase \in SetupPhases
  /\ Released
  /\ UNCHANGED <<phase, mine, todo, at, interrupted, kept>>

\* A step failed, SETUP_TIMEOUT passed or connect() was cancelled.  A handler
\* the backend has but whose unsubscribing it has not handed back yet stays.
SetupFails ==
  /\ phase \in SetupPhases
  /\ phase' = "idle" /\ mine' = None /\ todo' = {}
  /\ Released
  /\ interrupted' = IF phase = "registering"
                    THEN interrupted \cup {r \in registered \ cancels : r.link = mine}
                    ELSE interrupted
  /\ UNCHANGED <<at, kept>>

\* connect(), up to the link; what the fields hold of an earlier one stays.
Connect ==
  /\ phase = "idle"
  /\ made < MaxLinks
  /\ made' = made + 1
  /\ client' = made' /\ mine' = made'
  /\ table' \in Tables
  /\ phase' = "resolving"
  /\ kept' = (client # None)
  /\ UNCHANGED <<todo, at, chars, notifyOk, handleToChannel, cancels, callbacks, registered,
                 interrupted>>

Resolve ==
  /\ phase = "resolving"
  /\ IF table = NoService
     THEN phase' = "clearing" /\ UNCHANGED <<chars, todo>>
     ELSE phase' = "discovering" /\ chars' = {} /\ todo' = DOMAIN table
  /\ UNCHANGED <<mine, at, client, notifyOk, handleToChannel, cancels, backendVars, interrupted,
                 kept>>

Visit(c) ==
  /\ phase = "discovering"
  /\ c \in todo
  /\ todo' = todo \ {c}
  /\ chars' = chars \cup {c}
  /\ IF c \in Subscribed /\ table[c].notify
     THEN phase' = "starting" /\ at' = c
     ELSE UNCHANGED <<phase, at>>
  /\ UNCHANGED <<mine, client, notifyOk, handleToChannel, cancels, backendVars, interrupted, kept>>

\* Whether the subscription in progress will be heard; on to the next one.
Subscribe(heard) ==
  /\ notifyOk' = Set(notifyOk, at, heard)
  /\ phase' = "discovering"
  /\ UNCHANGED <<mine, todo, at, client, chars, made, table, interrupted, kept>>

\* start_notify succeeds; or it fails and its callback stayed registered.
StartNotify ==
  /\ phase = "starting"
  /\ Subscribe(TRUE)
  /\ callbacks' = callbacks \cup {[link |-> mine, channel |-> at]}
  /\ UNCHANGED <<handleToChannel, cancels, registered>>

\* It fails, and this backend has no way around the missing descriptor.
NoWayAround ==
  /\ phase = "starting"
  /\ Subscribe(FALSE)
  /\ UNCHANGED <<handleToChannel, cancels, callbacks, registered>>

\* A bug: whether the callback stayed registered is not looked at.
SubscribeBesideCallback ==
  /\ phase = "starting"
  /\ phase' = "registering"
  /\ handleToChannel' = Set(handleToChannel, table[at].handle, at)
  /\ callbacks' \in {callbacks, callbacks \cup {[link |-> mine, channel |-> at]}}
  /\ UNCHANGED <<mine, todo, at, client, chars, notifyOk, cancels, made, table, registered,
                 interrupted, kept>>

SubscribeWithoutCCCD ==
  /\ phase = "starting"
  /\ phase' = "registering"
  /\ handleToChannel' = Set(handleToChannel, table[at].handle, at)
  /\ UNCHANGED <<mine, todo, at, client, chars, notifyOk, cancels, backendVars, interrupted, kept>>

Registering == [link |-> mine, handle |-> table[at].handle]

BackendRegisters ==
  /\ phase = "registering"
  /\ Registering \notin registered
  /\ registered' = registered \cup {Registering}
  /\ UNCHANGED <<phase, mine, todo, at, fieldVars, made, table, callbacks, interrupted, kept>>

RememberCancel ==
  /\ phase = "registering"
  /\ Registering \in registered
  /\ Subscribe(TRUE)
  /\ cancels' = cancels \cup {Registering}
  /\ UNCHANGED <<handleToChannel, callbacks, registered>>

\* A bug: there is a cancel to remember though it failed.
RegisterFailsRemembered ==
  /\ phase = "registering"
  /\ Registering \notin registered
  /\ Subscribe(FALSE)
  /\ cancels' = cancels \cup {Registering}
  /\ UNCHANGED <<handleToChannel, callbacks, registered>>

RegisterFails ==
  /\ phase = "registering"
  /\ Registering \notin registered
  /\ Subscribe(FALSE)
  /\ UNCHANGED <<handleToChannel, cancels, callbacks, registered>>

\* A bug: with HELLO there, the handshake may as well be tried.
DiscoveryEndsUnheard ==
  /\ phase = "discovering"
  /\ todo = {}
  /\ IF Hello \notin chars THEN phase' = "clearing"
     ELSE client # None /\ phase' = "authenticating"
  /\ UNCHANGED <<mine, todo, at, fieldVars, backendVars, interrupted, kept>>

\* No path for a reply, no HELLO, or on to the handshake - which finds no
\* client, and fails, if there has been a disconnect.
DiscoveryEnds ==
  /\ phase = "discovering"
  /\ todo = {}
  /\ IF (chars # {} /\ ~AnyNotifies) \/ Hello \notin chars THEN phase' = "clearing"
     ELSE client # None /\ phase' = "authenticating"
  /\ UNCHANGED <<mine, todo, at, fieldVars, backendVars, interrupted, kept>>

\* The handshake succeeds; see module Connection.
Authenticated ==
  /\ phase = "authenticating"
  /\ phase' = "idle" /\ mine' = None
  /\ UNCHANGED <<todo, at, fieldVars, backendVars, interrupted, kept>>

-----------------------------------------------------------------------------
Init ==
  /\ phase = "idle" /\ mine = None /\ todo = {} /\ at = Hello
  /\ client = None /\ chars = {} /\ notifyOk = <<>> /\ handleToChannel = <<>> /\ cancels = {}
  /\ made = 0 /\ table = NoService /\ callbacks = {} /\ registered = {}
  /\ interrupted = {} /\ kept = FALSE

Next ==
  \/ Connect
  \/ Resolve
  \/ \E c \in Channels : Visit(c)
  \/ StartNotify
  \/ NoWayAround
  \/ SubscribeWithoutCCCD
  \/ BackendRegisters
  \/ RememberCancel
  \/ RegisterFails
  \/ DiscoveryEnds
  \/ Authenticated
  \/ SetupFails
  \/ CallDisconnect
  \/ OtherDisconnects

Spec == Init /\ [][Next]_vars

-----------------------------------------------------------------------------
Handlers == [link : Links, handle : Handles]

\* The fields hold what the code gives them, and what is kept to unsubscribe a
\* handler is of a handler that is registered.
TypeOK ==
  /\ phase \in SetupPhases \cup {"idle"}
  /\ mine \in Links \cup {None}
  /\ todo \subseteq Channels
  /\ at \in Subscribed
  /\ client \in Links \cup {None}
  /\ chars \subseteq Channels
  /\ DOMAIN notifyOk \subseteq Subscribed /\ \A c \in DOMAIN notifyOk : notifyOk[c] \in BOOLEAN
  /\ DOMAIN handleToChannel \subseteq Handles
  /\ \A h \in DOMAIN handleToChannel : handleToChannel[h] \in Subscribed
  /\ cancels \subseteq registered /\ registered \subseteq Handlers
  /\ made \in 0..MaxLinks
  /\ table \in Tables
  /\ callbacks \subseteq [link : Links, channel : Channels]
  /\ interrupted \subseteq Handlers
  /\ kept \in BOOLEAN

\* Without a client, between calls, the backend holds no handler of ours, but
\* for one whose registration a timeout or a cancellation cut off between the
\* backend's doing it and the client's knowing how to undo it: nothing will.
HandlersReleased == phase = "idle" /\ client = None => registered \subseteq interrupted

\* A connection made after a disconnect has no field of an earlier link, and
\* one that failed half-way, or that another task tore down under connect(),
\* leaves none behind.
FieldsAreThisLinks ==
  phase = "idle" =>
    IF client = None
    THEN chars = {} /\ notifyOk = <<>> /\ handleToChannel = <<>> /\ cancels = {}
    ELSE ~kept => /\ chars = DOMAIN table
                  /\ DOMAIN notifyOk = {c \in chars \cap Subscribed : table[c].notify}
                  /\ \A r \in cancels : r.link = client

\* How many times a notification of channel c is delivered on link l.
Deliveries(l, c) ==
  Cardinality({cb \in callbacks : cb = [link |-> l, channel |-> c]})
    + Cardinality({r \in registered : r.handle = table[c].handle})

\* A channel said to notify does, on this link, once for each notification and
\* under its own name, and any other not at all, on every path of subscribing
\* - unless an earlier registration was cut off, whose handler then hears the
\* same handle, or connect() followed connect().
NotifyOkIsTrue ==
  phase = "idle" /\ client # None /\ ~kept /\ interrupted = {} =>
    \A c \in DOMAIN table :
      LET said == c \in DOMAIN notifyOk /\ notifyOk[c] IN
      /\ Deliveries(client, c) = IF said THEN 1 ELSE 0
      /\ \A r \in registered : r.handle = table[c].handle => handleToChannel[r.handle] = c

\* The handshake is not started on a link over which no reply can come: one
\* channel at least was subscribed to on it, unless connect() followed connect().
HandshakeCanBeHeard ==
  phase = "authenticating" /\ client = mine /\ ~kept =>
    \/ \E cb \in callbacks : cb.link = mine
    \/ \E r \in registered : r.link = mine

=============================================================================
