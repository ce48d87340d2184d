------------------------------- MODULE Calls --------------------------------
(***************************************************************************)
(* EaseeCharger.poll and perform (client.py): several requests made one    *)
(* after another, and what is made of their replies.  A single request is  *)
(* taken from its specification, RequestReply, which module Exchange shows *)
(* _write_and_wait to implement; a second task may disconnect() while one  *)
(* is out, and nothing runs between a reply and what is made of it.        *)
(*                                                                         *)
(*   idle -> asking    between two requests of poll(), with no await       *)
(*   asking -> polling     a request of poll() is out, or has ended        *)
(*   idle -> performing    the request of perform() is out, or has ended   *)
(*                                                                         *)
(* The value of a field is the request whose reply carried it.             *)
(***************************************************************************)
EXTENDS Sequences, FiniteSets, Commands, Replies

CONSTANTS
  Polled,       \* the keys of _POLL_REQUESTS
  Wanted,       \* what poll() is asked for
  Hello,        \* Channel.HELLO
  Command,      \* Channel.COMMAND
  NoId,         \* None: a request without a command id
  Issued,       \* the commands the caller issues
  Amperes,      \* the currents it gives
  Carried,      \* the field numbers a frame may carry
  MaxRequests   \* bound: how many requests are made

ASSUME CallsAssumption ==
  /\ MaxRequests \in Nat
  /\ Wanted \subseteq Seq(Polled \cup {Hello, Command})
  /\ Amperes \subseteq Int
  /\ NoId \notin CircuitCommands \cup {"SET_DYNAMIC_CHARGER_CURRENT", "SET_MAX_CHARGER_CURRENT"}
  /\ Hello \notin Polled
  /\ Command \notin Polled \cup {Hello}

VARIABLES
  session,   \* _session is not None
  unknown,   \* unknown
  phase,     \* where the coroutine of the call is
  todo,      \* poll(): the channels not asked yet
  data,      \* poll(): data
  unnamed,   \* poll(): unknown, the local
  request,   \* the requests of the call under way or last ended: one, or none
  outcome,   \* how the last call ended
  polled,    \* what the last poll() that returned has returned
  response,  \* the acknowledgement perform() has returned: one, or none
  frames,    \* ghost: the frames this poll() has read
  whole,     \* ghost: those of the last poll() that returned
  made, open, result  \* the request: see RequestReply

Question(channel, id) == [channel |-> channel, id |-> id]

RR == INSTANCE RequestReply
        WITH Requests <- {Question(c, i) : c \in Polled \cup {Hello, Command}, i \in Issued \cup {NoId}}

fieldVars   == <<session, unknown>>
pollVars    == <<todo, data, unnamed, frames>>
doneVars    == <<polled, response, whole>>
requestVars == <<made, open, result>>
vars == <<fieldVars, pollVars, doneVars, requestVars, phase, request, outcome>>

Serial == Len(made)

-----------------------------------------------------------------------------
\* What the caller may ask of perform(): a command, or another request.
Builders ==
  {b \in UNION {
      {SetDynamicChargerCurrent(a) : a \in Amperes},
      {SetMaxChargerCurrent(a) : a \in Amperes},
      {ResumeCharging(a) : a \in Amperes},
      {ThreePhase(c, p[1], p[2], p[3]) :
         c \in CircuitCommands, p \in Amperes \X (Amperes \cup {Absent}) \X (Amperes \cup {Absent})},
      {SetLedBrightness(n) : n \in {-1, 0, 100, 101}},
      {SetPhaseMode(n) : n \in 0..4},
      {SetBtEnableMode(n) : n \in 0..4},
      {Bare(c) : c \in BareCommands},
      {PauseCharging}} :
     \A r \in b : r.id \in Issued}

PollRequest(c) == [channel |-> c, id |-> NoId, arguments |-> <<>>]
StartHandshake == [channel |-> Hello, id |-> NoId, arguments |-> <<>>]

\* Session's methods: each builds one request, or raises.
Encrypted(builder) ==
  {[channel |-> Command, id |-> r.id, arguments |-> r.arguments] : r \in builder}

MakeRequests ==
  {Encrypted(b) : b \in Builders} \cup {{PollRequest(c)} : c \in Polled} \cup {{StartHandshake}}

\* The frames a reply may hold; parse() looks at no channel but its own.
Frames ==
  {[type |-> t, fields |-> [n \in numbers |-> Serial]] :
     t \in Types \cup {Unidentified}, numbers \in SUBSET Carried}

\* _write_and_wait is called, and either suspends or raises.
Made(r) ==
  /\ Serial < MaxRequests
  /\ request' = {r}
  /\ RR!Ask(Question(r.channel, r.id)) \/ RR!Refuse(Question(r.channel, r.id))

Replied == ~open /\ result.is = "reply"

\* The call ends, by a return or with an error.
Ends(how) ==
  /\ phase' = "idle"
  /\ outcome' = how
  /\ UNCHANGED <<session, pollVars, request, requestVars>>

Raises(error) == Ends(error) /\ UNCHANGED <<unknown, doneVars>>

\* self._session.parse: of no session, or of bytes that are no frame.
FrameErrors == IF session THEN {"FrameError", "struct.error"} ELSE {"AttributeError"}

-----------------------------------------------------------------------------
\* A bug: the channels are not looked at.
PollAnything(wanted) ==
  /\ phase = "idle"
  /\ Serial + Len(wanted) <= MaxRequests
  /\ session
  /\ phase' = "asking"
  /\ todo' = wanted
  /\ data' = <<>> /\ unnamed' = <<>> /\ frames' = <<>> /\ request' = {}
  /\ outcome' = "none"
  /\ UNCHANGED <<fieldVars, doneVars, requestVars>>

Poll(wanted) ==
  /\ phase = "idle"
  /\ Serial + Len(wanted) <= MaxRequests
  /\ request' = {}
  /\ IF session /\ \A i \in DOMAIN wanted : wanted[i] \in Polled
     THEN /\ phase' = "asking"
          /\ outcome' = "none"
          /\ todo' = wanted
          /\ data' = <<>> /\ unnamed' = <<>> /\ frames' = <<>>
     ELSE /\ outcome' = IF session THEN "ValueError" ELSE "EaseeConnectionError"
          /\ UNCHANGED <<phase, pollVars>>
  /\ UNCHANGED <<fieldVars, doneVars, requestVars>>

\* No await since the session was looked at, so it is still there.
PollAsks ==
  /\ phase = "asking"
  /\ todo # <<>>
  /\ session
  /\ Made(PollRequest(Head(todo)))
  /\ phase' = "polling"
  /\ UNCHANGED <<fieldVars, pollVars, doneVars, outcome>>

\* A bug: the fields nobody named are published as they are read.
PollReadsInPlace(frame) ==
  /\ phase = "polling" /\ Replied /\ session
  /\ phase' = "asking"
  /\ todo' = Tail(todo)
  /\ data' = Update(data, Named(frame))
  /\ unnamed' = Update(unnamed, Unnamed(frame))
  /\ unknown' = unnamed'
  /\ frames' = Append(frames, frame)
  /\ UNCHANGED <<session, doneVars, requestVars, request, outcome>>

PollReads(frame) ==
  /\ phase = "polling" /\ Replied /\ session
  /\ phase' = "asking"
  /\ todo' = Tail(todo)
  /\ data' = Update(data, Named(frame))
  /\ unnamed' = Update(unnamed, Unnamed(frame))
  /\ frames' = Append(frames, frame)
  /\ UNCHANGED <<fieldVars, doneVars, requestVars, request, outcome>>

\* A bug: a reply is kept until there is a session to parse it.
PollWaitsForASession ==
  /\ phase = "polling" /\ Replied
  /\ IF session THEN \E error \in FrameErrors : Raises(error) ELSE UNCHANGED vars

PollCannotRead ==
  /\ phase = "polling" /\ Replied
  /\ \E error \in FrameErrors : Raises(error)

PollFails == phase = "polling" /\ result = RR!Error /\ Raises("request failed")

PollReturns ==
  /\ phase = "asking"
  /\ todo = <<>>
  /\ Ends("returned")
  /\ unknown' = unnamed
  /\ polled' = WithAliases(data)
  /\ whole' = frames
  /\ response' = {}

-----------------------------------------------------------------------------
Perform(makes) ==
  /\ phase = "idle"
  /\ IF session /\ makes # {}
     THEN /\ \E r \in makes : Made(r)
          /\ phase' = "performing"
          /\ outcome' = "none"
     ELSE /\ request' = {}
          /\ outcome' = IF session THEN "ValueError" ELSE "EaseeConnectionError"
          /\ UNCHANGED <<phase, requestVars>>
  /\ UNCHANGED <<fieldVars, pollVars, doneVars>>

Performing(channels) ==
  /\ phase = "performing" /\ Replied
  /\ \A r \in request : r.channel \in channels

Returns(responses) ==
  /\ Ends("returned")
  /\ response' = responses
  /\ UNCHANGED <<unknown, polled, whole>>

\* JSON that is no object is returned as it is.
PerformAccepted(ack) ==
  /\ Performing({Command}) /\ session
  /\ ack.object => CommandAccepted(ack)
  /\ Returns({ack})

PerformRefused(ack) ==
  /\ Performing({Command}) /\ session
  /\ ack.object /\ ~CommandAccepted(ack)
  /\ Raises(IF CommandRefusal(ack) = "TypeError" THEN "TypeError" ELSE "EaseeCommandRefused")

PerformCannotRead ==
  /\ Performing({Command})
  /\ Raises(IF session THEN "ValueError" ELSE "AttributeError")

\* A request that is no command: its frame is returned, of whatever type.
PerformReads ==
  /\ Performing(Polled)
  /\ \/ session /\ Returns({})
     \/ \E error \in FrameErrors : Raises(error)

PerformHello ==
  /\ Performing({Hello})
  /\ Raises(IF session THEN "SessionError" ELSE "AttributeError")

PerformFails == phase = "performing" /\ result = RR!Error /\ Raises("request failed")

-----------------------------------------------------------------------------
\* The request under way, as RequestReply has it.
RequestReturns(n) ==
  /\ RR!Return(n)
  /\ UNCHANGED <<fieldVars, pollVars, doneVars, phase, request, outcome>>

RequestFails ==
  /\ RR!Fail
  /\ UNCHANGED <<fieldVars, pollVars, doneVars, phase, request, outcome>>

\* disconnect(), by the caller or, at the await of a request, by another task.
Disconnects ==
  /\ session
  /\ phase = "idle" \/ open
  /\ session' = FALSE
  /\ UNCHANGED <<unknown, pollVars, doneVars, requestVars, phase, request, outcome>>

\* connect(), between two calls.
Connects ==
  /\ ~session /\ phase = "idle"
  /\ Serial < MaxRequests
  /\ session' = TRUE
  /\ UNCHANGED <<unknown, pollVars, doneVars, requestVars, phase, request, outcome>>

-----------------------------------------------------------------------------
Init ==
  /\ RR!Init
  /\ session = FALSE
  /\ phase = "idle"
  /\ todo = <<>> /\ frames = <<>> /\ whole = <<>>
  /\ data = <<>> /\ unnamed = <<>> /\ unknown = <<>> /\ polled = <<>>
  /\ request = {} /\ response = {}
  /\ outcome = "none"

\* What the call does of itself, once its request has ended.
Step ==
  \/ PollAsks
  \/ \E frame \in Frames : PollReads(frame)
  \/ PollCannotRead
  \/ PollFails
  \/ PollReturns
  \/ \E ack \in Acknowledgements : PerformAccepted(ack) \/ PerformRefused(ack)
  \/ PerformCannotRead
  \/ PerformReads
  \/ PerformHello
  \/ PerformFails

RequestEnds == RequestFails \/ \E n \in 0..Serial : RequestReturns(n)

Next ==
  \/ \E wanted \in Wanted : Poll(wanted)
  \/ \E makes \in MakeRequests : Perform(makes)
  \/ Step
  \/ RequestEnds
  \/ Disconnects
  \/ Connects

\* Exchange!CallsEnd is why a request ends; what follows does not suspend.
Spec == Init /\ [][Next]_vars /\ WF_vars(Step) /\ WF_vars(RequestEnds)

-----------------------------------------------------------------------------
\* The fields and locals hold what the code gives them, and a channel is asked
\* only if there is a way to ask for it.
TypeOK ==
  /\ session \in BOOLEAN
  /\ phase \in {"idle", "asking", "polling", "performing"}
  /\ todo \in Seq(Polled)
  /\ request \in SUBSET UNION MakeRequests /\ Cardinality(request) <= 1
  /\ response \in SUBSET Acknowledgements /\ Cardinality(response) <= 1
  /\ made \in Seq([channel : Polled \cup {Hello, Command}, id : Issued \cup {NoId}])
  /\ open \in BOOLEAN /\ (open => phase \in {"polling", "performing"})
  /\ \A fields \in {data, polled, unknown, unnamed} :
       \A key \in DOMAIN fields : fields[key] \in 0..Serial

Numbers(type, name) == {n \in DOMAIN Names[type] : Names[type][n] = name}

\* Frame f gives name a value: it carries its field, or may leave out a zero.
Says(f, name) ==
  f.type \in Types /\ \E n \in Numbers(f.type, name) : n \in DOMAIN f.fields \/ name \in ZeroWhenAbsent

Said(f, name) ==
  LET n == CHOOSE n \in Numbers(f.type, name) : TRUE IN
  IF n \in DOMAIN f.fields THEN f.fields[n] ELSE 0

IsLast(i, S) == i \in S /\ \A j \in S : j <= i

\* poll() returns every field at the value the last of its frames gave it: no
\* frame zeroes, drops or invents a field of another, however many frames of
\* however many types the channels asked for were answered with; and a retired
\* name follows the one it became.
PollIsWhole ==
  /\ \A t \in Types : \A name \in NamesIn(t) :
       LET saying == {i \in DOMAIN whole : Says(whole[i], name)} IN
       /\ name \in DOMAIN polled <=> saying # {}
       /\ \A i \in saying : IsLast(i, saying) => polled[name] = Said(whole[i], name)
  /\ \A old \in DOMAIN Aliases :
       /\ old \in DOMAIN polled <=> Aliases[old] \in DOMAIN polled
       /\ old \in DOMAIN polled => polled[old] = polled[Aliases[old]]

\* `unknown` is of the same poll as the fields the caller was last given, and
\* complete: a poll that fails after the first of several channels, or under
\* which the session goes away, leaves it as it was.
UnknownIsOfLastPoll ==
  /\ \A i \in DOMAIN whole : \A n \in DOMAIN whole[i].fields \ DOMAIN NamesOf(whole[i]) :
       LET key      == <<whole[i].type, n>>
           carrying == {j \in DOMAIN whole :
                          whole[j].type = whole[i].type /\ n \in DOMAIN whole[j].fields} IN
       /\ key \in DOMAIN unknown
       /\ IsLast(i, carrying) => unknown[key] = whole[i].fields[n]
  /\ \A key \in DOMAIN unknown :
       \E i \in DOMAIN whole :
         whole[i].type = key[1] /\ key[2] \in DOMAIN whole[i].fields \ DOMAIN NamesOf(whole[i])

\* A command that a builder makes to limit a current limits it for every phase,
\* within what a charger takes: nothing else is written, whichever of its
\* arguments the caller left out or got wrong.
LimitsAreWhole ==
  \A r \in request :
    /\ r.id \in CircuitCommands => Len(r.arguments) \in {1, 3}
    /\ r.id \in CircuitCommands \cup {"SET_DYNAMIC_CHARGER_CURRENT", "SET_MAX_CHARGER_CURRENT"}
         => \A i \in DOMAIN r.arguments : r.arguments[i] \in 0..MaxAmps

\* poll() and perform() end, though the session goes away under them: neither
\* waits for a connection to come back.
CallsEnd == (phase # "idle") ~> (phase = "idle")

=============================================================================
