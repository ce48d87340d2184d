------------------------------ MODULE Exchange ------------------------------
(***************************************************************************)
(* Requests and replies on one established connection to a charger: what   *)
(* EaseeCharger._write_and_wait (client.py) does between the call and its  *)
(* return, with every await a separate step:                               *)
(*                                                                         *)
(*   idle    -> writing   write_gatt_char is pending (_write_with_retry)   *)
(*   writing -> pairing   the charger wants an encrypted link; pair()      *)
(*   writing -> pausing   a transient GATT failure; sleeping before retry  *)
(*   writing -> waiting   the write completed; asyncio.wait on the reply   *)
(*                                                                         *)
(* One caller makes one request after another (README.md: "One request may *)
(* be in flight at a time").  Around it run, at any moment, the radio and  *)
(* the charger: answers that come late, out of order or never, unrequested *)
(* notifications, writes that fail though the charger received them, a     *)
(* link that drops, the drop being reported later, and a disconnect() that *)
(* another task runs while a request is out.                               *)
(*                                                                         *)
(* A command is abstracted to its id, a channel to its name and a reply to *)
(* the id it carries.  Two ghost fields of a reply say what it answers.    *)
(***************************************************************************)
EXTENDS Naturals, Sequences

CONSTANTS
  Channels,          \* the characteristics, protocol.Channel
  Command,           \* Channel.COMMAND: the one whose replies carry an id
  Subscribed,        \* _channels: what the caller asked to subscribe to
  Resolved,          \* the keys of _chars: what discovery found
  Heard,             \* channels whose notifications do arrive (_notify_ok)
  CommandIds,        \* the ids of the commands the caller issues
  SlowCommands,      \* commands.SLOW_COMMANDS
  NoId,              \* None: a reply, or a request, without a command id
  WriteAttempts,     \* WRITE_ATTEMPTS
  ReplyTimeout,      \* REPLY_TIMEOUT, in ticks
  SlowReplyTimeout,  \* SLOW_REPLY_TIMEOUT, in ticks
  MaxRequests,       \* bound: how many requests the caller makes
  MaxQueued          \* bound: how many notifications one queue holds

ASSUME ChannelAssumption ==
  /\ Command \in Channels
  /\ Subscribed \subseteq Channels
  /\ Resolved \subseteq Channels
  /\ Heard \subseteq Channels
  /\ NoId \notin CommandIds

ASSUME TimingAssumption ==
  /\ WriteAttempts \in Nat \ {0}
  /\ ReplyTimeout \in Nat \ {0}
  /\ SlowReplyTimeout \in Nat \ {0}
  /\ MaxRequests \in Nat
  /\ MaxQueued \in Nat

VARIABLES
  \* the call in progress, the locals of _write_and_wait and its callees
  phase,      \* where its coroutine is suspended
  asked,      \* every request of this connection, the last one current
  attempt,    \* `attempt` of _write_with_retry
  landed,     \* ghost: the charger has received the write of this attempt
  wrote,      \* ghost: a write of this request has completed
  left,       \* deadline - loop.time(), in ticks
  outcome,    \* how the last call ended
  reply,      \* what it returned
  \* the fields of EaseeCharger
  queues,     \* _queues
  waiting,    \* _waiting
  answered,   \* _answered
  bonded,     \* _bonded
  client,     \* _client is not None
  linkLost,   \* _link_lost
  lostEvent,  \* _link_lost_event.is_set()
  \* the backend, the radio and the charger
  up,         \* the link exists
  believed,   \* the backend's is_connected, which can outlive the link
  encrypted,  \* the charger accepts writes over this link
  inbox       \* writes the charger has received and not answered

callVars    == <<phase, attempt, landed, wrote, left, outcome, reply>>
fieldVars   == <<queues, waiting, answered>>
stateVars   == <<bonded, client>>
linkVars    == <<linkLost, lostEvent, up, believed>>
chargerVars == <<encrypted, inbox>>
vars == <<callVars, asked, fieldVars, stateVars, linkVars, chargerVars>>

-----------------------------------------------------------------------------
(* Requests, replies and outcomes.                                         *)

\* session.Request: only COMMAND requests carry the id the reply echoes.
Requests ==
  [channel : Channels \ {Command}, id : {NoId}]
    \cup [channel : {Command}, id : CommandIds]

\* A notification.  `id` is what _reply_id reads from it; the ghosts are
\* `for`, the request it answers (0: none), and `during`, how many requests
\* had been made when it was delivered.
Replies == [id : CommandIds \cup {NoId}, for : Nat, during : Nat]

NoReply == [id |-> NoId, for |-> 0, during |-> 0]

\* A write as the charger holds it: which request, and which attempt at it.
Writes == [channel : Channels, id : CommandIds \cup {NoId}, for : Nat, attempt : Nat]

Phases == {"idle", "writing", "pairing", "pausing", "waiting"}

\* EaseeConnectionError, one name per message of the code.
EaseeErrors ==
  {"notConnected", "linkGone", "notSubscribed", "notAvailable",
   "writeTimeout", "bondFirst", "busy", "deaf", "dropped"}

\* What else can come out of a call: the reply, a cancellation by the caller,
\* the backend's own exception, an AttributeError on a _client that is None.
Outcomes == EaseeErrors \cup {"none", "reply", "cancelled", "backendError", "attributeError"}

Serial  == Len(asked)
Current == asked[Serial]
Channel == Current.channel

\* SLOW_REPLY_TIMEOUT for the commands answered only once they finish.
Timeout(r) == IF r.id \in SlowCommands THEN SlowReplyTimeout ELSE ReplyTimeout

\* A bug: the write is made without emptying the queue first.
KeepsStale(ch) == queues

\* "Drop any stale reply": the queue of the channel is emptied before a write.
Drained(ch) == [queues EXCEPT ![ch] = <<>>]

\* A bug: the id of a COMMAND reply is not compared.
TakesAny(r, n) == TRUE

\* Whether _wait_for_reply takes notification n as the reply to request r.
Takes(r, n) == r.channel # Command \/ n.id \in {NoId, r.id}

\* Whether one of the two futures of _next_reply has completed.
Woken == queues[Channel] # <<>> \/ lostEvent

\* Why _no_reply says a write went unanswered.
Silence == IF Channel \in answered THEN "busy" ELSE "deaf"

-----------------------------------------------------------------------------
(* The call: _write_and_wait, _write_with_retry, _wait_for_reply.          *)

\* A bug: _waiting is left only when there was a reply, not in a `finally`.
EndsStillWaiting(how, with) ==
  /\ phase' = "idle"
  /\ outcome' = how
  /\ reply' = with
  /\ waiting' = IF how = "reply" THEN waiting \ {Channel} ELSE waiting
  /\ attempt' = 0
  /\ landed' = FALSE
  /\ left' = 0

\* The call returns or raises; its `finally` leaves _waiting.  (The locals
\* are put back to their initial values; `wrote` is kept for the properties.)
Ends(how, with) ==
  /\ phase' = "idle"
  /\ outcome' = how
  /\ reply' = with
  /\ waiting' = waiting \ {Channel}
  /\ attempt' = 0
  /\ landed' = FALSE
  /\ left' = 0

Fails(error) == Ends(error, NoReply)

\* What stops a request before it touches its queue, in the code's order.
Obstacle(r) ==
  IF ~client THEN "notConnected"
  ELSE IF linkLost THEN "linkGone"
  ELSE IF r.channel \notin Subscribed THEN "notSubscribed"
  ELSE "none"

\* The call up to its first suspension, in write_gatt_char.
Ask(r) ==
  /\ phase = "idle"
  /\ Serial < MaxRequests
  /\ asked' = Append(asked, r)
  /\ reply' = NoReply
  /\ wrote' = FALSE
  /\ \/ /\ Obstacle(r) # "none"
        /\ outcome' = Obstacle(r)
        /\ UNCHANGED <<phase, attempt, queues, waiting>>
     \/ /\ Obstacle(r) = "none"
        /\ queues' = Drained(r.channel)
        /\ \/ /\ r.channel \notin Resolved
              /\ outcome' = "notAvailable"
              /\ UNCHANGED <<phase, attempt, waiting>>
           \/ /\ r.channel \in Resolved
              /\ outcome' = "none"
              /\ waiting' = waiting \cup {r.channel}
              /\ phase' = "writing"
              /\ attempt' = 1
  /\ UNCHANGED <<landed, left, answered, stateVars, linkVars, chargerVars>>

\* A bug: the attempts are not counted, `while True` in place of the for loop.
RetriesForever ==
  /\ phase' = "writing"
  /\ attempt' = attempt + 1
  /\ landed' = FALSE
  /\ UNCHANGED <<left, outcome, reply, waiting>>

\* The next turn of the for loop: another write, or, with the attempts used
\* up, the end of the loop, which is also how a completed write gets to wait.
NextAttempt ==
  IF attempt < WriteAttempts
  THEN /\ phase' = "writing"
       /\ attempt' = attempt + 1
       /\ landed' = FALSE
       /\ UNCHANGED <<left, outcome, reply, waiting>>
  ELSE /\ phase' = "waiting"
       /\ left' = Timeout(Current)
       /\ UNCHANGED <<attempt, landed, outcome, reply, waiting>>

WriteDone ==
  /\ phase = "writing"
  /\ landed
  /\ phase' = "waiting"
  /\ wrote' = TRUE
  /\ left' = Timeout(Current)
  /\ UNCHANGED <<attempt, landed, outcome, reply, asked, fieldVars, stateVars,
                 linkVars, chargerVars>>

\* WRITE_TIMEOUT: the charger may or may not have received the write.
WriteTimesOut ==
  /\ phase = "writing"
  /\ Fails("writeTimeout")
  /\ UNCHANGED <<wrote, asked, queues, answered, stateVars, linkVars, chargerVars>>

\* Any failure but a missing bond.  The charger may still have received the
\* write.  `self._client` is read again here, and can have become None.
WriteFails ==
  /\ phase = "writing"
  /\ \/ /\ attempt = WriteAttempts
        /\ Fails("backendError")
     \/ /\ attempt < WriteAttempts
        /\ ~client
        /\ Fails("attributeError")
     \/ /\ attempt < WriteAttempts
        /\ client /\ ~believed
        /\ Fails("backendError")
     \/ /\ attempt < WriteAttempts
        /\ client /\ believed
        /\ phase' = "pausing"
        /\ UNCHANGED <<attempt, landed, left, outcome, reply, waiting>>
  /\ UNCHANGED <<wrote, asked, queues, answered, stateVars, linkVars, chargerVars>>

\* "Insufficient authentication": bond on demand, once per connection.
WriteRefused ==
  /\ phase = "writing"
  /\ up /\ ~encrypted /\ ~landed
  /\ \/ /\ bonded \/ ~client
        /\ Fails("bondFirst")
     \/ /\ ~bonded /\ client
        /\ phase' = "pairing"
        /\ UNCHANGED <<attempt, landed, left, outcome, reply, waiting>>
  /\ UNCHANGED <<wrote, asked, queues, answered, stateVars, linkVars, chargerVars>>

\* pair() returned.  What it returned is not looked at, so the link may be as
\* unencrypted as before; nor is it checked that the client is still there.
PairDone ==
  /\ phase = "pairing"
  /\ bonded' = TRUE
  /\ encrypted' \in {encrypted, up}
  /\ IF ~client /\ attempt < WriteAttempts THEN Fails("attributeError") ELSE NextAttempt
  /\ UNCHANGED <<wrote, asked, queues, answered, client, linkVars, inbox>>

\* pair() raised, or PAIR_TIMEOUT ended it.
PairFails ==
  /\ phase = "pairing"
  /\ bonded' = FALSE
  /\ Fails("bondFirst")
  /\ UNCHANGED <<wrote, asked, queues, answered, client, linkVars, chargerVars>>

\* WRITE_RETRY_DELAY is over.
RetryWakes ==
  /\ phase = "pausing"
  /\ IF ~client THEN Fails("attributeError") ELSE NextAttempt
  /\ UNCHANGED <<wrote, asked, queues, answered, stateVars, linkVars, chargerVars>>

\* A bug: every notification that is skipped gets a deadline of its own.
WakeReplyAnew ==
  /\ phase = "waiting"
  /\ queues[Channel] # <<>>
  /\ queues' = [queues EXCEPT ![Channel] = Tail(@)]
  /\ LET n == Head(queues[Channel]) IN
     \/ /\ Takes(Current, n)
        /\ Ends("reply", n)
        /\ answered' = answered \cup {Channel}
     \/ /\ ~Takes(Current, n)
        /\ left' = Timeout(Current)
        /\ UNCHANGED <<phase, attempt, landed, outcome, reply, waiting, answered>>
  /\ UNCHANGED <<wrote, asked, stateVars, linkVars, chargerVars>>

\* A bug: at the deadline, what was to be skipped is taken after all.
WakeReplyAtDeadline ==
  /\ phase = "waiting"
  /\ queues[Channel] # <<>>
  /\ queues' = [queues EXCEPT ![Channel] = Tail(@)]
  /\ LET n == Head(queues[Channel]) IN
     \/ /\ Takes(Current, n) \/ left = 0
        /\ Ends("reply", n)
        /\ answered' = answered \cup {Channel}
     \/ /\ ~Takes(Current, n)
        /\ left > 0
        /\ UNCHANGED <<phase, attempt, landed, left, outcome, reply, waiting, answered>>
  /\ UNCHANGED <<wrote, asked, stateVars, linkVars, chargerVars>>

\* A notification is there.  It wins over a drop known in the same pass.  One
\* that answers another command is skipped, and past the deadline that is a
\* timeout; the deadline is the request's, not the notification's.
WakeReply ==
  /\ phase = "waiting"
  /\ queues[Channel] # <<>>
  /\ queues' = [queues EXCEPT ![Channel] = Tail(@)]
  /\ LET n == Head(queues[Channel]) IN
     \/ /\ Takes(Current, n)
        /\ Ends("reply", n)
        /\ answered' = answered \cup {Channel}
     \/ /\ ~Takes(Current, n)
        /\ left = 0
        /\ Fails(Silence)
        /\ UNCHANGED answered
     \/ /\ ~Takes(Current, n)
        /\ left > 0
        /\ UNCHANGED <<phase, attempt, landed, left, outcome, reply, waiting, answered>>
  /\ UNCHANGED <<wrote, asked, stateVars, linkVars, chargerVars>>

\* A bug: the drop is looked at only once the deadline has passed.
WakeDroppedLate ==
  /\ phase = "waiting"
  /\ queues[Channel] = <<>>
  /\ lostEvent
  /\ left = 0
  /\ Fails("dropped")
  /\ UNCHANGED <<wrote, asked, queues, answered, stateVars, linkVars, chargerVars>>

\* Nothing but the report of a drop is there.
WakeDropped ==
  /\ phase = "waiting"
  /\ queues[Channel] = <<>>
  /\ lostEvent
  /\ Fails("dropped")
  /\ UNCHANGED <<wrote, asked, queues, answered, stateVars, linkVars, chargerVars>>

\* The deadline passed with neither.
TimeOut ==
  /\ phase = "waiting"
  /\ left = 0
  /\ ~Woken
  /\ Fails(Silence)
  /\ UNCHANGED <<wrote, asked, queues, answered, stateVars, linkVars, chargerVars>>

\* Time passes on the request's deadline, whatever else there is to do.
Tick ==
  /\ phase = "waiting"
  /\ left > 0
  /\ left' = left - 1
  /\ UNCHANGED <<phase, attempt, landed, wrote, outcome, reply, asked, fieldVars,
                 stateVars, linkVars, chargerVars>>

\* The caller gives up: its task is cancelled at whichever await it is in.
Cancel ==
  /\ phase # "idle"
  /\ Fails("cancelled")
  /\ UNCHANGED <<wrote, asked, queues, answered, stateVars, linkVars, chargerVars>>

-----------------------------------------------------------------------------
(* Another task, the backend, the radio and the charger.                   *)

\* disconnect() up to its first suspension, run while a request may be out.
Teardown ==
  /\ client
  /\ client' = FALSE
  /\ bonded' = FALSE
  /\ UNCHANGED <<callVars, asked, fieldVars, linkVars, chargerVars>>

\* _deliver: whether or not a request waits on the channel, it is queued.
Deliver(ch, n) ==
  /\ ch \in Heard
  /\ Len(queues[ch]) < MaxQueued
  /\ queues' = [queues EXCEPT ![ch] = Append(@, n)]

\* The charger has the write of this attempt: it will act on it and answer.
\* A retry of a write it had received is another one.
ChargerReceives ==
  /\ phase = "writing"
  /\ up /\ encrypted /\ ~landed
  /\ landed' = TRUE
  /\ inbox' = inbox \cup {[channel |-> Channel, id |-> Current.id,
                           for |-> Serial, attempt |-> attempt]}
  /\ UNCHANGED <<phase, attempt, wrote, left, outcome, reply, asked, fieldVars,
                 stateVars, linkVars, encrypted>>

\* It answers any of the writes it holds, in any order, echoing the id.
Answer(w) ==
  /\ w \in inbox
  /\ up
  /\ Deliver(w.channel, [id |-> w.id, for |-> w.for, during |-> Serial])
  /\ inbox' = inbox \ {w}
  /\ UNCHANGED <<callVars, asked, waiting, answered, stateVars, linkVars, encrypted>>

\* A notification nobody asked for: on COMMAND it may carry any id, or none.
Stray(ch, id) ==
  /\ up
  /\ id = NoId \/ ch = Command
  /\ Deliver(ch, [id |-> id, for |-> 0, during |-> Serial])
  /\ UNCHANGED <<callVars, asked, waiting, answered, stateVars, linkVars, chargerVars>>

\* The link is gone: what the charger has not answered it never will.
LinkDrops ==
  /\ up
  /\ up' = FALSE
  /\ inbox' = {}
  /\ UNCHANGED <<callVars, asked, fieldVars, stateVars, linkLost, lostEvent, believed,
                 encrypted>>

\* The backend stops believing in the link ...
BeliefCatchesUp ==
  /\ ~up /\ believed
  /\ believed' = FALSE
  /\ UNCHANGED <<callVars, asked, fieldVars, stateVars, linkLost, lostEvent, up, chargerVars>>

\* ... and, before or after, reports the drop: _on_disconnected.
DropReported ==
  /\ ~up /\ ~linkLost
  /\ linkLost' = TRUE
  /\ lostEvent' = TRUE
  /\ UNCHANGED <<callVars, asked, fieldVars, stateVars, up, believed, chargerVars>>

-----------------------------------------------------------------------------
(* The specification.                                                      *)

\* As connect() leaves a connection.  _reconcile_link_lost can leave the event
\* set while _link_lost is not; bonding and encryption can be there already.
Init ==
  /\ phase = "idle"
  /\ asked = <<>>
  /\ attempt = 0 /\ landed = FALSE /\ wrote = FALSE /\ left = 0
  /\ outcome = "none" /\ reply = NoReply
  /\ queues = [ch \in Channels |-> <<>>]
  /\ waiting = {} /\ answered = {}
  /\ client = TRUE
  /\ up = TRUE /\ believed = TRUE
  /\ linkLost = FALSE /\ lostEvent \in BOOLEAN
  /\ encrypted \in BOOLEAN
  /\ bonded \in BOOLEAN
  /\ inbox = {}

\* The steps of the call that need no time to pass.
Wakes == WakeReply \/ WakeDropped

\* The steps by which the clock bounds a call.
Clock == Tick \/ TimeOut \/ WriteTimesOut \/ PairFails \/ RetryWakes

Next ==
  \/ \E r \in Requests : Ask(r)
  \/ WriteDone
  \/ WriteFails
  \/ WriteRefused
  \/ PairDone
  \/ Wakes
  \/ Clock
  \/ Cancel
  \/ Teardown
  \/ ChargerReceives
  \/ \E w \in inbox : Answer(w)
  \/ \E ch \in Channels, id \in CommandIds \cup {NoId} : Stray(ch, id)
  \/ LinkDrops
  \/ BeliefCatchesUp
  \/ DropReported

Spec == Init /\ [][Next]_vars

\* The event loop runs what is ready to run.  Nothing is promised of time, of
\* the backend, of the radio or of the charger.
FairSpec == Spec /\ WF_vars(Wakes)

\* The loop's timers fire: deadlines are reached.
TimePasses == WF_vars(Tick) /\ WF_vars(TimeOut) /\ WF_vars(WriteTimesOut)
              /\ WF_vars(PairFails) /\ WF_vars(RetryWakes)

-----------------------------------------------------------------------------
(* Properties.                                                             *)

TypeOK ==
  /\ phase \in Phases
  /\ asked \in Seq(Requests)
  /\ attempt \in 0..WriteAttempts
  /\ landed \in BOOLEAN /\ wrote \in BOOLEAN
  /\ left \in Nat
  /\ outcome \in Outcomes
  /\ reply \in Replies
  /\ queues \in [Channels -> Seq(Replies)]
  /\ waiting \subseteq Channels /\ answered \subseteq Channels
  /\ bonded \in BOOLEAN /\ client \in BOOLEAN
  /\ linkLost \in BOOLEAN /\ lostEvent \in BOOLEAN
  /\ up \in BOOLEAN /\ believed \in BOOLEAN
  /\ encrypted \in BOOLEAN
  /\ inbox \subseteq Writes

\* _waiting holds the channel of the request in progress and nothing else,
\* whichever of the ways out the call took: otherwise _deliver would take an
\* unrequested notification for a requested one, or the reverse.
WaitingRegistered == waiting = IF phase = "idle" THEN {} ELSE {Channel}

\* A call never returns a notification that had arrived before it was made,
\* whatever was queued by strays, duplicates and late answers.
FreshReply == outcome = "reply" => reply.during = Serial

\* An answer that a call returns answers the same question as the call asked:
\* the same channel and, on COMMAND, the same command; never the answer to a
\* different, earlier one.
SameQuestion ==
  outcome = "reply" /\ reply.for # 0 => asked[reply.for] = Current

\* Once a drop of the link is known, a call waiting for a reply ends though
\* no time passes: nothing waits out its deadline for it.
KnownDropIsNotWaitedOut ==
  phase = "waiting" /\ lostEvent /\ ~up ~> phase # "waiting"

\* Every call ends, whatever the backend, the radio and the charger do or
\* leave undone, and however many notifications it has to skip.
CallsEnd == TimePasses => (phase # "idle" ~> phase = "idle")

-----------------------------------------------------------------------------
(* What a caller is promised.                                              *)

\* The last call as its caller sees it.
Result ==
  IF outcome = "none" THEN [is |-> "nothing", for |-> 0, during |-> 0]
  ELSE IF outcome = "reply"
  THEN [is |-> "reply", for |-> reply.for, during |-> reply.during]
  ELSE [is |-> "error", for |-> 0, during |-> 0]

Promise == INSTANCE RequestReply WITH
  made <- asked,
  open <- phase # "idle",
  result <- Result

\* Whatever happens to writes, bonds, notifications and the link, the caller
\* sees requests that end once each, with an error or with a reply delivered
\* during the call that answers the question it asked.
KeepsPromise == Promise!Spec

-----------------------------------------------------------------------------
(* What the repository says of a call and the code does not keep.          *)

\* client.py:503, "wrote ... bytes ... but got no reply": a call that reports
\* silence has completed a write.
SilenceFollowsAWrite == outcome \in {"busy", "deaf"} => wrote

\* client.py:465, "so we read the one for this write": no call returns the
\* answer to another request.
OwnAnswer == outcome = "reply" => reply.for \in {0, Serial}

\* README.md:161, "connecting or talking to it failed" is EaseeConnectionError:
\* the backend's own exception does not come out of a call.
RaisesConnectionError == outcome # "backendError"

=============================================================================
