---------------------------- MODULE CallsProofs -----------------------------
(***************************************************************************)
(* Proofs about Calls, for any channels, commands, currents, tables of     *)
(* names and number of requests: that no command a builder makes limits    *)
(* the current of some phases only, that poll() returns all its frames     *)
(* say, and that `unknown` is of the last poll that returned.              *)
(***************************************************************************)
EXTENDS Calls, FiniteSetTheorems, TLAPS

Questions == [channel : Polled \cup {Hello, Command}, id : Issued \cup {NoId}]

\* What can be written: a command of the caller's, or a request without id.
Writable(r) == /\ r.channel \in Polled \cup {Hello, Command}
               /\ r.id \in Issued \cup {NoId}

\* A current for every phase, each within what a charger takes.
Limited(r) ==
  /\ r.id \in CircuitCommands => Len(r.arguments) \in {1, 3}
  /\ r.id \in CircuitCommands \cup {"SET_DYNAMIC_CHARGER_CURRENT", "SET_MAX_CHARGER_CURRENT"}
       => \A i \in DOMAIN r.arguments : r.arguments[i] \in 0..MaxAmps

-----------------------------------------------------------------------------
(* What the builders build.                                                *)

LEMMA AmpsLimits ==
  ASSUME NEW c, NEW a \in Int, NEW r \in Amps(c, a) PROVE Limited(r)
<1>1. InBounds(a) /\ r.arguments = <<a>>
  BY DEF Amps, Built, ValueError
<1>2. Len(r.arguments) = 1 /\ \A i \in DOMAIN r.arguments : r.arguments[i] = a
  BY <1>1
<1>3. a \in 0..MaxAmps
  BY <1>1, AmpsAssumption DEF InBounds
<1>4. QED
  BY <1>2, <1>3 DEF Limited

LEMMA ThreePhaseLimits ==
  ASSUME NEW c, NEW p1 \in Int, NEW p2 \in Int \cup {Absent}, NEW p3 \in Int \cup {Absent},
         NEW r \in ThreePhase(c, p1, p2, p3)
  PROVE  Limited(r)
<1>1. p1 # Absent
  BY AmpsAssumption
<1>2. \A p \in {p1, p2, p3} : p # Absent => InBounds(p) /\ p \in 0..MaxAmps
  BY AmpsAssumption DEF ThreePhase, ValueError, InBounds
<1>3. \/ r.arguments = <<p1>>
      \/ r.arguments = <<p1, p2, p3>> /\ p2 # Absent /\ p3 # Absent
  BY <1>2 DEF ThreePhase, Built, ValueError
<1>4. CASE r.arguments = <<p1>>
  <2>1. Len(r.arguments) = 1 /\ \A i \in DOMAIN r.arguments : r.arguments[i] = p1
    BY <1>4
  <2>2. QED
    BY <1>1, <1>2, <2>1 DEF Limited
<1>5. CASE r.arguments = <<p1, p2, p3>> /\ p2 # Absent /\ p3 # Absent
  <2>1. Len(r.arguments) = 3 /\ \A i \in DOMAIN r.arguments : r.arguments[i] \in {p1, p2, p3}
    BY <1>5
  <2>2. QED
    BY <1>1, <1>2, <1>5, <2>1 DEF Limited
<1>6. QED
  BY <1>3, <1>4, <1>5

\* A request of another command has no current to limit.
LEMMA OtherCommands ==
  ASSUME NEW r, r.id \in BareCommands \cup {"SET_LED_BRIGHTNESS", "SET_PHASE_MODE", "SET_BT_ENABLE_MODE"}
  PROVE  Limited(r)
  BY DEF Limited, BareCommands, CircuitCommands

LEMMA BuildersLimit ==
  ASSUME NEW b \in Builders, NEW r \in b PROVE Limited(r) /\ r.id \in Issued
<1>1. r.id \in Issued
  BY DEF Builders
<1>2. Amperes \subseteq Int
  BY CallsAssumption
<1>3. ASSUME NEW a \in Int, NEW c, r \in Amps(c, a) PROVE Limited(r)
  BY <1>3, AmpsLimits
<1>4. CASE \E a \in Amperes \cup {0} : b = SetDynamicChargerCurrent(a) \/ b = SetMaxChargerCurrent(a)
  <2>1. PICK a \in Amperes \cup {0} : b = SetDynamicChargerCurrent(a) \/ b = SetMaxChargerCurrent(a)
    BY <1>4
  <2>2. a \in Int /\ \E c : r \in Amps(c, a)
    BY <1>2, <2>1 DEF SetDynamicChargerCurrent, SetMaxChargerCurrent
  <2>3. QED
    BY <1>1, <1>3, <2>2
<1>5. CASE \E a \in Amperes : b = ResumeCharging(a)
  <2>1. PICK a \in Amperes : b = ResumeCharging(a)
    BY <1>5
  <2>2. a \in Int /\ r \in Amps("SET_DYNAMIC_CHARGER_CURRENT", a)
    BY <1>2, <2>1 DEF ResumeCharging, SetDynamicChargerCurrent, ValueError
  <2>3. QED
    BY <1>1, <1>3, <2>2
<1>6. CASE \E c \in CircuitCommands :
             \E p \in Amperes \X (Amperes \cup {Absent}) \X (Amperes \cup {Absent}) :
               b = ThreePhase(c, p[1], p[2], p[3])
  <2>1. PICK c \in CircuitCommands,
             p \in Amperes \X (Amperes \cup {Absent}) \X (Amperes \cup {Absent}) :
               b = ThreePhase(c, p[1], p[2], p[3])
    BY <1>6
  <2>2. p[1] \in Int /\ p[2] \in Int \cup {Absent} /\ p[3] \in Int \cup {Absent}
    BY <1>2
  <2>3. ASSUME NEW p1 \in Int, NEW p2 \in Int \cup {Absent}, NEW p3 \in Int \cup {Absent},
               r \in ThreePhase(c, p1, p2, p3)
        PROVE  Limited(r)
    BY <2>3, ThreePhaseLimits
  <2>4. r \in ThreePhase(c, p[1], p[2], p[3])
    BY <2>1
  <2>5. QED
    BY <1>1, <2>2, <2>3, <2>4
<1>7. CASE \/ \E n \in {-1, 0, 100, 101} : b = SetLedBrightness(n)
           \/ \E n \in 0..4 : b = SetPhaseMode(n) \/ b = SetBtEnableMode(n)
           \/ \E c \in BareCommands : b = Bare(c)
  <2>1. r.id \in BareCommands \cup {"SET_LED_BRIGHTNESS", "SET_PHASE_MODE", "SET_BT_ENABLE_MODE"}
    BY <1>7 DEF SetLedBrightness, SetPhaseMode, SetBtEnableMode, Bare, Built, ValueError
  <2>2. QED
    BY <1>1, <2>1, OtherCommands
<1>8. QED
  BY <1>1, <1>3, <1>4, <1>5, <1>6, <1>7 DEF Builders, PauseCharging

\* Whatever perform() is given to make makes a request that may be written.
LEMMA MadeRequests ==
  ASSUME NEW makes \in MakeRequests, NEW r \in makes PROVE Writable(r) /\ Limited(r)
<1>1. CASE \E b \in Builders : makes = Encrypted(b)
  <2>1. PICK b \in Builders : makes = Encrypted(b)
    BY <1>1
  <2>2. PICK q \in b : r = [channel |-> Command, id |-> q.id, arguments |-> q.arguments]
    BY <2>1 DEF Encrypted
  <2>3. Limited(q) /\ q.id \in Issued
    BY <2>1, <2>2, BuildersLimit
  <2>4. QED
    BY <2>2, <2>3 DEF Limited, Writable
<1>2. CASE \/ \E c \in Polled : r = PollRequest(c)
           \/ r = StartHandshake
  BY <1>2, CallsAssumption DEF PollRequest, StartHandshake, Writable, Limited
<1>3. QED
  BY <1>1, <1>2 DEF MakeRequests

-----------------------------------------------------------------------------
(* The request under way, and what has been returned.                      *)

\* What is written is made by a builder or by poll(), a request is out only while
\* a call waits for it, and a call has returned only once it is over.
Sound ==
  /\ made \in Seq(Questions)
  /\ todo \in Seq(Polled)
  /\ phase = "polling" => todo # <<>>
  /\ open => phase \in {"polling", "performing"} /\ result = RR!Nothing
  /\ outcome = "returned" => phase = "idle"
  /\ \A r \in request : Limited(r)

LEMMA MadeType ==
  ASSUME made \in Seq(Questions), NEW r, Writable(r), Made(r)
  PROVE  /\ request' = {r} /\ result'.is # "reply"
         /\ open' => result' = RR!Nothing
         /\ made' \in Seq(Questions)
<1>1. Question(r.channel, r.id) \in Questions
  BY DEF Writable, Questions, Question
<1>2. made' = Append(made, Question(r.channel, r.id)) /\ request' = {r}
  BY DEF Made, RR!Ask, RR!Refuse
<1>3. result'.is # "reply" /\ (open' => result' = RR!Nothing)
  BY DEF Made, RR!Ask, RR!Refuse, RR!Nothing, RR!Error
<1>4. QED
  BY <1>1, <1>2, <1>3

\* A call that ends leaves the request it made as it is.
LEMMA EndsSound ==
  ASSUME Sound, NEW how, Ends(how), phase \in {"polling", "performing"} => ~open PROVE Sound'
  BY DEF Sound, Ends, pollVars, requestVars

LEMMA NextSound == Sound /\ [Next]_vars => Sound'
<1> SUFFICES ASSUME Sound, [Next]_vars PROVE Sound'
  OBVIOUS
<1>a. RR!Error # RR!Nothing
  BY DEF RR!Error, RR!Nothing
<1>b. open => result # RR!Error
  BY <1>a DEF Sound
<1>1. ASSUME NEW wanted \in Wanted, Poll(wanted) PROVE Sound'
  <2>1. wanted \in Seq(Polled \cup {Hello, Command})
    BY <1>1, CallsAssumption
  <2>2. (\A i \in DOMAIN wanted : wanted[i] \in Polled) => wanted \in Seq(Polled)
    BY <2>1
  <2>3. todo' \in Seq(Polled)
    BY <1>1, <2>2 DEF Poll, pollVars, Sound
  <2>4. QED
    BY <1>1, <2>3 DEF Poll, fieldVars, doneVars, requestVars, Sound
<1>2. ASSUME NEW makes \in MakeRequests, Perform(makes) PROVE Sound'
  <2>1. CASE session /\ makes # {}
    <3>1. PICK r \in makes : Made(r)
      BY <1>2, <2>1 DEF Perform
    <3>2. Writable(r) /\ Limited(r) /\ made \in Seq(Questions)
      BY <3>1, MadeRequests DEF Sound
    <3>3. /\ request' = {r} /\ result'.is # "reply" /\ made' \in Seq(Questions)
          /\ open' => result' = RR!Nothing
      BY <3>1, <3>2, MadeType
    <3>4. phase' = "performing" /\ outcome' = "none" /\ todo' = todo
      BY <1>2, <2>1 DEF Perform, pollVars
    <3>5. QED
      BY <3>2, <3>3, <3>4 DEF Sound
  <2>2. CASE ~(session /\ makes # {})
    BY <1>2, <2>2 DEF Perform, fieldVars, pollVars, doneVars, requestVars, Sound
  <2>3. QED
    BY <2>1, <2>2
<1>3. ASSUME PollAsks PROVE Sound'
  <2>1. Head(todo) \in Polled /\ made \in Seq(Questions)
    BY <1>3 DEF PollAsks, Sound
  <2>2. PollRequest(Head(todo)) \in {PollRequest(c) : c \in Polled}
    BY <2>1
  <2>3. Writable(PollRequest(Head(todo))) /\ Limited(PollRequest(Head(todo)))
    BY <2>1, CallsAssumption DEF PollRequest, Writable, Limited
  <2>4. /\ request' = {PollRequest(Head(todo))} /\ made' \in Seq(Questions)
        /\ open' => result' = RR!Nothing
    BY <1>3, <2>1, <2>3, MadeType DEF PollAsks
  <2>5. phase' = "polling" /\ outcome' = outcome /\ todo' = todo /\ phase = "asking" /\ todo # <<>>
    BY <1>3 DEF PollAsks, pollVars
  <2>6. QED
    BY <2>3, <2>4, <2>5 DEF Sound
<1>4. ASSUME NEW frame \in Frames, PollReads(frame) PROVE Sound'
  <2>1. todo' \in Seq(Polled)
    BY <1>4 DEF PollReads, Sound
  <2>2. QED
    BY <1>4, <2>1 DEF PollReads, Replied, requestVars, Sound
<1>5. ASSUME PollCannotRead \/ PollFails PROVE Sound'
  <2>1. ~open
    BY <1>b, <1>5 DEF PollCannotRead, PollFails, Replied
  <2>2. QED
    BY <1>5, <2>1, EndsSound DEF PollCannotRead, PollFails, Raises
<1>6. ASSUME PollReturns PROVE Sound'
  BY <1>6, EndsSound DEF PollReturns, Sound
<1>7. ASSUME RequestEnds PROVE Sound'
  <2>1. CASE RequestFails
    BY <2>1 DEF RequestFails, RR!Fail, RR!Error, pollVars, Sound
  <2>2. ASSUME NEW n \in 0..Serial, RequestReturns(n) PROVE Sound'
    BY <2>2 DEF RequestReturns, RR!Return, RR!SameAsNow, RR!Reply, pollVars, Sound
  <2>3. QED
    BY <1>7, <2>1, <2>2 DEF RequestEnds
<1>8. ASSUME Disconnects \/ Connects PROVE Sound'
  BY <1>8 DEF Disconnects, Connects, pollVars, requestVars, Sound
<1>9. ASSUME \/ \E ack \in Acknowledgements : PerformAccepted(ack) \/ PerformRefused(ack)
             \/ PerformCannotRead \/ PerformReads \/ PerformHello \/ PerformFails
      PROVE  Sound'
  <2>1. phase = "performing" /\ ~open
    BY <1>b, <1>9 DEF PerformAccepted, PerformRefused, PerformCannotRead, PerformReads,
                      PerformHello, PerformFails, Performing, Replied
  <2>2. \E how : Ends(how)
    BY <1>9 DEF PerformAccepted, PerformRefused, PerformCannotRead, PerformReads, PerformHello,
                PerformFails, Returns, Raises
  <2>3. QED
    BY <2>1, <2>2, EndsSound
<1>10. CASE UNCHANGED vars
  BY <1>10 DEF vars, fieldVars, pollVars, doneVars, requestVars, Sound
<1>11. QED
  BY <1>1, <1>2, <1>3, <1>4, <1>5, <1>6, <1>7, <1>8, <1>9, <1>10 DEF Next, Step

LEMMA InitSound == Init => Sound
  BY DEF Init, RR!Init, Sound

-----------------------------------------------------------------------------
(* What is left of the frames a poll() has read.                           *)

AnyFrame ==
  [type : Types \cup {Unidentified}, fields : UNION {[numbers -> Nat] : numbers \in SUBSET Carried}]

Carries(f, t, n) == f.type = t /\ n \in DOMAIN f.fields \ DOMAIN NamesOf(f)

\* u holds, of every field of fs that nobody named, the last value; and no more.
Complete(fs, u) ==
  \A i \in DOMAIN fs : \A n : Carries(fs[i], fs[i].type, n) =>
    /\ <<fs[i].type, n>> \in DOMAIN u
    /\ (\A j \in DOMAIN fs : Carries(fs[j], fs[i].type, n) => j <= i)
         => u[<<fs[i].type, n>>] = fs[i].fields[n]

Minimal(fs, u) ==
  \A key \in DOMAIN u : \E i \in DOMAIN fs : Carries(fs[i], key[1], key[2])

UnknownOf(fs, u) == Complete(fs, u) /\ Minimal(fs, u)

LEMMA UnnamedIs ==
  ASSUME NEW f
  PROVE  /\ \A n : Carries(f, f.type, n) => /\ <<f.type, n>> \in DOMAIN Unnamed(f)
                                            /\ Unnamed(f)[<<f.type, n>>] = f.fields[n]
         /\ \A t, n : <<t, n>> \in DOMAIN Unnamed(f) => Carries(f, t, n)
         /\ \A key \in DOMAIN Unnamed(f) : Carries(f, key[1], key[2])
  BY DEF Unnamed, Carries

\* One more frame: its fields replace, or join, those read before.
LEMMA ReadsOneMore ==
  ASSUME NEW fs \in Seq(AnyFrame), NEW f \in AnyFrame, NEW u, UnknownOf(fs, u)
  PROVE  UnknownOf(Append(fs, f), Update(u, Unnamed(f)))
<1> DEFINE gs == Append(fs, f)
           v  == Update(u, Unnamed(f))
           k  == Len(fs) + 1
<1>1. /\ DOMAIN gs = DOMAIN fs \cup {k} /\ gs[k] = f /\ k \in Int
      /\ \A i \in DOMAIN fs : gs[i] = fs[i] /\ i \in Int /\ i < k
  OBVIOUS
<1>2. /\ DOMAIN v = DOMAIN u \cup DOMAIN Unnamed(f)
      /\ \A key \in DOMAIN Unnamed(f) : v[key] = Unnamed(f)[key]
      /\ \A key \in DOMAIN u \ DOMAIN Unnamed(f) : v[key] = u[key]
  BY DEF Update
<1> HIDE DEF gs, v, k
<1>3. ASSUME NEW i \in DOMAIN gs, NEW n, Carries(gs[i], gs[i].type, n)
      PROVE  /\ <<gs[i].type, n>> \in DOMAIN v
             /\ (\A j \in DOMAIN gs : Carries(gs[j], gs[i].type, n) => j <= i)
                  => v[<<gs[i].type, n>>] = gs[i].fields[n]
  <2>1. CASE i = k
    BY <1>1, <1>2, <1>3, <2>1, UnnamedIs
  <2>2. CASE i \in DOMAIN fs
    <3> DEFINE key == <<fs[i].type, n>>
    <3>1. gs[i] = fs[i] /\ Carries(fs[i], fs[i].type, n) /\ key \in DOMAIN u /\ i < k /\ i \in Int
      BY <1>1, <1>3, <2>2 DEF UnknownOf, Complete
    <3>2. ASSUME \A j \in DOMAIN gs : Carries(gs[j], fs[i].type, n) => j <= i
          PROVE  v[key] = fs[i].fields[n]
      <4>1. ~Carries(f, fs[i].type, n)
        BY <1>1, <3>1, <3>2
      <4>2. key \notin DOMAIN Unnamed(f)
        BY <4>1, UnnamedIs
      <4>3. \A j \in DOMAIN fs : Carries(fs[j], fs[i].type, n) => j <= i
        BY <1>1, <3>2
      <4>4. u[key] = fs[i].fields[n]
        BY <2>2, <3>1, <4>3 DEF UnknownOf, Complete
      <4>5. QED
        BY <1>2, <3>1, <4>2, <4>4
    <3>3. QED
      BY <1>2, <3>1, <3>2
  <2>3. QED
    BY <1>1, <2>1, <2>2
<1>4. ASSUME NEW key \in DOMAIN v PROVE \E i \in DOMAIN gs : Carries(gs[i], key[1], key[2])
  <2>1. CASE key \in DOMAIN Unnamed(f)
    BY <1>1, <2>1, UnnamedIs
  <2>2. CASE key \in DOMAIN u
    BY <1>1, <2>2 DEF UnknownOf, Minimal
  <2>3. QED
    BY <1>2, <2>1, <2>2
<1>5. Complete(gs, v) /\ Minimal(gs, v)
  BY <1>3, <1>4 DEF Complete, Minimal
<1>6. QED
  BY <1>5 DEF UnknownOf, gs, v

\* What this poll() has read so far, and what the last one published.
Read ==
  /\ made \in Seq(Questions)
  /\ frames \in Seq(AnyFrame) /\ whole \in Seq(AnyFrame)
  /\ UnknownOf(frames, unnamed)
  /\ UnknownOf(whole, unknown)

LEMMA FramesAreFrames == made \in Seq(Questions) => Frames \subseteq AnyFrame
<1>1. made \in Seq(Questions) => Serial \in Nat
  BY DEF Serial
<1>2. QED
  BY <1>1 DEF Frames, AnyFrame

LEMMA InitRead == Init => Read
  BY DEF Init, RR!Init, Read, UnknownOf, Complete, Minimal

LEMMA NextRead == Sound' /\ Read /\ [Next]_vars => Read'
<1> SUFFICES ASSUME Sound', Read, [Next]_vars PROVE Read'
  OBVIOUS
<1>m. made' \in Seq(Questions)
  BY DEF Sound
<1>1. ASSUME NEW wanted \in Wanted, Poll(wanted) PROVE Read'
  <2>1. UnknownOf(<<>>, <<>>) /\ <<>> \in Seq(AnyFrame)
    BY DEF UnknownOf, Complete, Minimal
  <2>2. \/ frames' = <<>> /\ unnamed' = <<>>
        \/ UNCHANGED <<frames, unnamed>>
    BY <1>1 DEF Poll, pollVars
  <2>3. UNCHANGED <<whole, unknown>>
    BY <1>1 DEF Poll, fieldVars, doneVars
  <2>4. QED
    BY <1>m, <2>1, <2>2, <2>3 DEF Read
<1>2. ASSUME NEW frame \in Frames, PollReads(frame) PROVE Read'
  <2>1. frame \in AnyFrame
    BY FramesAreFrames DEF Read
  <2>2. UNCHANGED <<whole, unknown>> /\ frames' = Append(frames, frame)
        /\ unnamed' = Update(unnamed, Unnamed(frame))
    BY <1>2 DEF PollReads, fieldVars, doneVars
  <2>3. UnknownOf(frames', unnamed') /\ frames' \in Seq(AnyFrame)
    BY <2>1, <2>2, ReadsOneMore DEF Read
  <2>4. QED
    BY <1>m, <2>2, <2>3 DEF Read
<1>3. ASSUME PollReturns PROVE Read'
  BY <1>m, <1>3 DEF PollReturns, Ends, pollVars, Read
<1>4. ASSUME UNCHANGED <<frames, unnamed, whole, unknown>> PROVE Read'
  BY <1>m, <1>4 DEF Read
<1>5. ASSUME \/ \E makes \in MakeRequests : Perform(makes)
             \/ PollAsks \/ PollCannotRead \/ PollFails
             \/ \E ack \in Acknowledgements : PerformAccepted(ack) \/ PerformRefused(ack)
             \/ PerformCannotRead \/ PerformReads \/ PerformHello \/ PerformFails
             \/ RequestEnds \/ Disconnects \/ Connects \/ UNCHANGED vars
      PROVE  UNCHANGED <<frames, unnamed, whole, unknown>>
  BY <1>5 DEF Perform, PollAsks, PollCannotRead, PollFails, PerformAccepted, PerformRefused,
              PerformCannotRead, PerformReads, PerformHello, PerformFails, Returns, Raises, Ends,
              RequestEnds, RequestFails, RequestReturns, Disconnects, Connects,
              vars, fieldVars, pollVars, doneVars
<1>6. QED
  BY <1>1, <1>2, <1>3, <1>4, <1>5 DEF Next, Step

LEMMA ReadIsUnknown == Read => UnknownIsOfLastPoll
<1> SUFFICES ASSUME Read PROVE UnknownIsOfLastPoll
  OBVIOUS
<1>1. ASSUME NEW i \in DOMAIN whole, NEW n \in DOMAIN whole[i].fields \ DOMAIN NamesOf(whole[i])
      PROVE  LET key      == <<whole[i].type, n>>
                 carrying == {j \in DOMAIN whole :
                                whole[j].type = whole[i].type /\ n \in DOMAIN whole[j].fields} IN
             /\ key \in DOMAIN unknown
             /\ IsLast(i, carrying) => unknown[key] = whole[i].fields[n]
  <2>1. Carries(whole[i], whole[i].type, n)
    BY DEF Carries
  <2>2. \A j \in DOMAIN whole :
          Carries(whole[j], whole[i].type, n) => whole[j].type = whole[i].type /\ n \in DOMAIN whole[j].fields
    BY DEF Carries
  <2>3. QED
    BY <2>1, <2>2 DEF Read, UnknownOf, Complete, IsLast
<1>2. ASSUME NEW key \in DOMAIN unknown
      PROVE  \E i \in DOMAIN whole :
               whole[i].type = key[1] /\ key[2] \in DOMAIN whole[i].fields \ DOMAIN NamesOf(whole[i])
  BY DEF Read, UnknownOf, Minimal, Carries
<1>3. QED
  BY <1>1, <1>2 DEF UnknownIsOfLastPoll

-----------------------------------------------------------------------------
(* What poll() returns of them: the fields that have a name.               *)

\* d gives each name the last value fs says it has, and names nothing else.
Told(fs, d) ==
  \A t \in Types : \A name \in NamesIn(t) :
    /\ name \in DOMAIN d <=> \E i \in DOMAIN fs : Says(fs[i], name)
    /\ \A i \in DOMAIN fs :
         Says(fs[i], name) /\ (\A j \in DOMAIN fs : Says(fs[j], name) => j <= i)
           => d[name] = Said(fs[i], name)

\* A retired name is there with the one it became, and with its value.
Followed(d) ==
  \A old \in DOMAIN Aliases :
    /\ old \in DOMAIN d <=> Aliases[old] \in DOMAIN d
    /\ old \in DOMAIN d => d[old] = d[Aliases[old]]

LEMMA AliasesAreNotNames ==
  /\ \A t \in Types : \A name \in NamesIn(t) : name \notin DOMAIN Aliases
  /\ \A old \in DOMAIN Aliases : Aliases[old] \notin DOMAIN Aliases
  BY NamesAssumption

LEMMA WithAliasesFollows ==
  ASSUME NEW d,
         \A old \in DOMAIN Aliases \cap DOMAIN d :
           Aliases[old] \in DOMAIN d /\ d[old] = d[Aliases[old]]
  PROVE  /\ Followed(WithAliases(d))
         /\ \A t \in Types : \A name \in NamesIn(t) :
              /\ name \in DOMAIN WithAliases(d) <=> name \in DOMAIN d
              /\ name \in DOMAIN d => WithAliases(d)[name] = d[name]
  BY AliasesAreNotNames DEF WithAliases, Followed

LEMMA UpdateFollows ==
  ASSUME NEW d, NEW e, Followed(d), Followed(e) PROVE Followed(Update(d, e))
  BY DEF Followed, Update

\* Frame.named gives a name what the frame says it is, and no other name one.
LEMMA NamedIs ==
  ASSUME NEW f \in AnyFrame
  PROVE  /\ Followed(Named(f))
         /\ \A t \in Types : \A name \in NamesIn(t) :
              /\ name \in DOMAIN Named(f) <=> Says(f, name)
              /\ Says(f, name) => Named(f)[name] = Said(f, name)
<1> DEFINE names  == NamesOf(f)
           here   == {names[n] : n \in NamedNumbers(f)}
           zeroes == {names[n] : n \in DOMAIN names} \cap ZeroWhenAbsent
           base   == [name \in here \cup zeroes |->
                        IF name \in here
                        THEN f.fields[CHOOSE n \in NamedNumbers(f) : names[n] = name] ELSE 0]
<1>1. Named(f) = WithAliases(base)
  BY DEF Named
<1>2. ASSUME NEW name \in DOMAIN base PROVE f.type \in Types /\ name \in NamesIn(f.type)
  BY DEF NamesOf, NamedNumbers, NamesIn
<1>3. \A old \in DOMAIN Aliases : old \notin DOMAIN base
  BY <1>2, AliasesAreNotNames
<1>4. ASSUME NEW t \in Types, NEW name \in NamesIn(t)
      PROVE  /\ name \in DOMAIN base <=> Says(f, name)
             /\ Says(f, name) => base[name] = Said(f, name)
  <2>1. CASE f.type \notin Types
    BY <1>2, <2>1 DEF Says
  <2>2. CASE f.type \in Types
    <3>1. names = Names[f.type]
      BY <2>2 DEF NamesOf
    <3>2. name \in DOMAIN base <=> Says(f, name)
      BY <2>2, <3>1 DEF Says, Numbers, NamedNumbers
    <3>3. ASSUME NEW n \in Numbers(f.type, name) PROVE \A m \in Numbers(f.type, name) : m = n
      BY <2>2, NamesAssumption DEF Numbers
    <3>4. ASSUME Says(f, name) PROVE base[name] = Said(f, name)
      <4>1. PICK n \in Numbers(f.type, name) : n \in DOMAIN f.fields \/ name \in ZeroWhenAbsent
        BY <3>4 DEF Says
      <4>2. (CHOOSE m \in Numbers(f.type, name) : TRUE) = n
        BY <3>3
      <4>3. Said(f, name) = IF n \in DOMAIN f.fields THEN f.fields[n] ELSE 0
        BY <4>2 DEF Said
      <4>4. name \in here <=> n \in DOMAIN f.fields
        BY <3>1, <3>3 DEF Numbers, NamedNumbers
      <4>5. ASSUME name \in here
            PROVE  (CHOOSE m \in NamedNumbers(f) : names[m] = name) = n
        <5>1. \A m \in NamedNumbers(f) : names[m] = name <=> m = n
          BY <3>1, <3>3, <4>4, <4>5 DEF Numbers, NamedNumbers
        <5>2. n \in NamedNumbers(f)
          BY <3>1, <4>4, <4>5 DEF Numbers, NamedNumbers
        <5>3. QED
          BY <5>1, <5>2
      <4>6. name \in DOMAIN base
        BY <3>2, <3>4
      <4>7. QED
        BY <4>3, <4>4, <4>5, <4>6
    <3>5. QED
      BY <3>2, <3>4
  <2>3. QED
    BY <2>1, <2>2
<1> HIDE DEF base
<1>5. QED
  BY <1>1, <1>3, <1>4, WithAliasesFollows

LEMMA TellsOneMore ==
  ASSUME NEW fs \in Seq(AnyFrame), NEW f \in AnyFrame, NEW d, Told(fs, d)
  PROVE  Told(Append(fs, f), Update(d, Named(f)))
<1> DEFINE gs == Append(fs, f)
           e  == Update(d, Named(f))
           k  == Len(fs) + 1
<1>1. /\ DOMAIN gs = DOMAIN fs \cup {k} /\ gs[k] = f /\ k \in Int
      /\ \A i \in DOMAIN fs : gs[i] = fs[i] /\ i \in Int /\ i < k
  OBVIOUS
<1>2. /\ DOMAIN e = DOMAIN d \cup DOMAIN Named(f)
      /\ \A name \in DOMAIN Named(f) : e[name] = Named(f)[name]
      /\ \A name \in DOMAIN d \ DOMAIN Named(f) : e[name] = d[name]
  BY DEF Update
<1> HIDE DEF gs, e, k
<1>3. ASSUME NEW t \in Types, NEW name \in NamesIn(t)
      PROVE  /\ name \in DOMAIN e <=> \E i \in DOMAIN gs : Says(gs[i], name)
             /\ \A i \in DOMAIN gs :
                  Says(gs[i], name) /\ (\A j \in DOMAIN gs : Says(gs[j], name) => j <= i)
                    => e[name] = Said(gs[i], name)
  <2>1. /\ name \in DOMAIN Named(f) <=> Says(f, name)
        /\ Says(f, name) => Named(f)[name] = Said(f, name)
    BY NamedIs
  <2>2. name \in DOMAIN d <=> \E i \in DOMAIN fs : Says(fs[i], name)
    BY DEF Told
  <2>3. name \in DOMAIN e <=> \E i \in DOMAIN gs : Says(gs[i], name)
    BY <1>1, <1>2, <2>1, <2>2
  <2>4. ASSUME NEW i \in DOMAIN gs, Says(gs[i], name),
               \A j \in DOMAIN gs : Says(gs[j], name) => j <= i
        PROVE  e[name] = Said(gs[i], name)
    <3>1. CASE i = k
      BY <1>1, <1>2, <2>1, <2>4, <3>1
    <3>2. CASE i \in DOMAIN fs
      <4>1. ~Says(f, name)
        BY <1>1, <2>4, <3>2
      <4>2. d[name] = Said(fs[i], name)
        BY <1>1, <2>4, <3>2 DEF Told
      <4>3. QED
        BY <1>1, <1>2, <2>1, <2>2, <2>4, <3>2, <4>1, <4>2
    <3>3. QED
      BY <1>1, <3>1, <3>2
  <2>5. QED
    BY <2>3, <2>4
<1>4. Told(gs, e)
  BY <1>3 DEF Told
<1>5. QED
  BY <1>4 DEF gs, e

Merged == /\ Told(frames, data) /\ Followed(data)
          /\ Told(whole, polled) /\ Followed(polled)

LEMMA EmptyIsMerged == Told(<<>>, <<>>) /\ Followed(<<>>)
  BY DEF Told, Followed

LEMMA InitMerged == Init => Merged
  BY EmptyIsMerged DEF Init, Merged

LEMMA NextMerged == Read /\ Merged /\ [Next]_vars => Merged'
<1> SUFFICES ASSUME Read, Merged, [Next]_vars PROVE Merged'
  OBVIOUS
<1>1. ASSUME NEW wanted \in Wanted, Poll(wanted) PROVE Merged'
  <2>1. \/ frames' = <<>> /\ data' = <<>>
        \/ UNCHANGED <<frames, data>>
    BY <1>1 DEF Poll, pollVars
  <2>2. UNCHANGED <<whole, polled>>
    BY <1>1 DEF Poll, doneVars
  <2>3. QED
    BY <2>1, <2>2, EmptyIsMerged DEF Merged
<1>2. ASSUME NEW frame \in Frames, PollReads(frame) PROVE Merged'
  <2>1. frame \in AnyFrame
    BY FramesAreFrames DEF Read
  <2>2. UNCHANGED <<whole, polled>> /\ frames' = Append(frames, frame)
        /\ data' = Update(data, Named(frame))
    BY <1>2 DEF PollReads, doneVars
  <2>3. Told(frames', data')
    BY <2>1, <2>2, TellsOneMore DEF Read, Merged
  <2>4. Followed(Named(frame))
    BY <2>1, NamedIs
  <2>5. Followed(data')
    BY <2>2, <2>4, UpdateFollows DEF Merged
  <2>6. QED
    BY <2>2, <2>3, <2>5 DEF Merged
<1>3. ASSUME PollReturns PROVE Merged'
  <2>1. /\ UNCHANGED <<frames, data>>
        /\ whole' = frames
        /\ polled' = WithAliases(data)
    BY <1>3 DEF PollReturns, Ends, pollVars
  <2>2. /\ Followed(WithAliases(data))
        /\ \A t \in Types : \A name \in NamesIn(t) :
             /\ name \in DOMAIN WithAliases(data) <=> name \in DOMAIN data
             /\ name \in DOMAIN data => WithAliases(data)[name] = data[name]
    <3>1. \A old \in DOMAIN Aliases \cap DOMAIN data :
            Aliases[old] \in DOMAIN data /\ data[old] = data[Aliases[old]]
      BY DEF Merged, Followed
    <3>2. QED
      BY <3>1, WithAliasesFollows
  <2>3. Told(frames, WithAliases(data))
    BY <2>2 DEF Merged, Told
  <2>4. QED
    BY <2>1, <2>2, <2>3 DEF Merged
<1>4. ASSUME UNCHANGED <<frames, data, whole, polled>> PROVE Merged'
  BY <1>4 DEF Merged
<1>5. ASSUME \/ \E makes \in MakeRequests : Perform(makes)
             \/ PollAsks \/ PollCannotRead \/ PollFails
             \/ \E ack \in Acknowledgements : PerformAccepted(ack) \/ PerformRefused(ack)
             \/ PerformCannotRead \/ PerformReads \/ PerformHello \/ PerformFails
             \/ RequestEnds \/ Disconnects \/ Connects \/ UNCHANGED vars
      PROVE  UNCHANGED <<frames, data, whole, polled>>
  BY <1>5 DEF Perform, PollAsks, PollCannotRead, PollFails, PerformAccepted, PerformRefused,
              PerformCannotRead, PerformReads, PerformHello, PerformFails, Returns, Raises, Ends,
              RequestEnds, RequestFails, RequestReturns, Disconnects, Connects,
              vars, pollVars, doneVars
<1>6. QED
  BY <1>1, <1>2, <1>3, <1>4, <1>5 DEF Next, Step

LEMMA MergedIsWhole == Merged => PollIsWhole
<1> SUFFICES ASSUME Merged PROVE PollIsWhole
  OBVIOUS
<1>1. ASSUME NEW t \in Types, NEW name \in NamesIn(t)
      PROVE  LET saying == {i \in DOMAIN whole : Says(whole[i], name)} IN
             /\ name \in DOMAIN polled <=> saying # {}
             /\ \A i \in saying : IsLast(i, saying) => polled[name] = Said(whole[i], name)
  BY DEF Merged, Told, IsLast
<1>2. QED
  BY <1>1 DEF PollIsWhole, Merged, Followed

-----------------------------------------------------------------------------
(* Types.                                                                  *)

\* Every field was carried by the reply to some request.
Bounded(fields, n) == \A key \in DOMAIN fields : fields[key] \in 0..n

LEMMA BoundedOperators ==
  /\ \A n : Bounded(<<>>, n)
  /\ \A d, n, m : Bounded(d, n) /\ n \in Nat /\ m \in Nat /\ n <= m => Bounded(d, m)
  /\ \A d, e, n : Bounded(d, n) /\ Bounded(e, n) => Bounded(Update(d, e), n)
  /\ \A d, n : Bounded(d, n) => Bounded(WithAliases(d), n)
<1>1. ASSUME NEW d, NEW n \in Nat, NEW m \in Nat, Bounded(d, n), n <= m PROVE Bounded(d, m)
  BY <1>1 DEF Bounded
<1>2. \A d, e, n : Bounded(d, n) /\ Bounded(e, n) => Bounded(Update(d, e), n)
  BY DEF Bounded, Update
<1>3. \A d, n : Bounded(d, n) => Bounded(WithAliases(d), n)
  BY DEF Bounded, WithAliases
<1>4. QED
  BY <1>1, <1>2, <1>3 DEF Bounded

LEMMA FrameIsBounded ==
  ASSUME made \in Seq(Questions), NEW frame \in Frames
  PROVE  Bounded(Named(frame), Serial) /\ Bounded(Unnamed(frame), Serial)
<1>1. Serial \in Nat /\ \A n \in DOMAIN frame.fields : frame.fields[n] = Serial
  BY DEF Serial, Frames
<1>2. Bounded(Unnamed(frame), Serial)
  BY <1>1 DEF Bounded, Unnamed
<1> DEFINE names  == NamesOf(frame)
           here   == {names[n] : n \in NamedNumbers(frame)}
           zeroes == {names[n] : n \in DOMAIN names} \cap ZeroWhenAbsent
           base   == [name \in here \cup zeroes |->
                        IF name \in here
                        THEN frame.fields[CHOOSE n \in NamedNumbers(frame) : names[n] = name] ELSE 0]
<1>3. Named(frame) = WithAliases(base)
  BY DEF Named
<1>4. ASSUME NEW name \in DOMAIN base PROVE base[name] \in 0..Serial
  <2>1. CASE name \in here
    <3>1. \E n \in NamedNumbers(frame) : names[n] = name
      BY <2>1
    <3>2. (CHOOSE n \in NamedNumbers(frame) : names[n] = name) \in NamedNumbers(frame)
      BY <3>1
    <3>3. base[name] = Serial
      BY <1>1, <2>1, <3>2 DEF NamedNumbers
    <3>4. QED
      BY <1>1, <3>3
  <2>2. CASE name \notin here
    BY <1>1, <2>2
  <2>3. QED
    BY <2>1, <2>2
<1> HIDE DEF base
<1>5. Bounded(base, Serial)
  BY <1>4 DEF Bounded
<1>6. QED
  BY <1>2, <1>3, <1>5, BoundedOperators

AllBounded == \A fields \in {data, polled, unknown, unnamed} : Bounded(fields, Serial)

Few(S) == Cardinality(S) <= 1

LEMMA FewOperators ==
  /\ Few({})
  /\ \A x : Few({x})
  BY FS_EmptySet, FS_Singleton DEF Few

Typed ==
  /\ session \in BOOLEAN
  /\ phase \in {"idle", "asking", "polling", "performing"}
  /\ request \in SUBSET UNION MakeRequests /\ Few(request)
  /\ response \in SUBSET Acknowledgements /\ Few(response)
  /\ open \in BOOLEAN
  /\ AllBounded

LEMMA InitTyped == Init => Typed
<1> SUFFICES ASSUME Init PROVE Typed
  OBVIOUS
<1>1. \A fields \in {data, polled, unknown, unnamed} : fields = <<>>
  BY DEF Init
<1>2. Bounded(<<>>, Serial)
  BY BoundedOperators
<1>3. AllBounded
  BY <1>1, <1>2 DEF AllBounded
<1>4. request = {} /\ response = {} /\ Few({})
  BY FewOperators DEF Init
<1>5. session = FALSE /\ phase = "idle" /\ open = FALSE
  BY DEF Init, RR!Init
<1>6. QED
  BY <1>3, <1>4, <1>5 DEF Typed

LEMMA MoreIsMade ==
  ASSUME made \in Seq(Questions), made' \in Seq(Questions), [Next]_vars
  PROVE  Serial \in Nat /\ Serial' \in Nat /\ Serial <= Serial'
<1>1. Len(made) \in Nat /\ Len(made') \in Nat
  OBVIOUS
<1>2. ASSUME NEW q, made' = Append(made, q) PROVE Len(made) <= Len(made')
  BY <1>2
<1>3. ASSUME made' = made PROVE Len(made) <= Len(made')
  BY <1>1, <1>3
<1>4. made' = made \/ \E q : made' = Append(made, q)
  BY DEF Next, Step, Poll, Perform, Made, RR!Ask, RR!Refuse, PollAsks, PollReads, PollCannotRead, PollFails,
         PollReturns, PerformAccepted, PerformRefused, PerformCannotRead, PerformReads, PerformHello,
         PerformFails, Returns, Raises, Ends, RequestEnds, RequestFails, RequestReturns, RR!Fail,
         RR!Return, Disconnects, Connects, vars, requestVars
<1>5. QED
  BY <1>1, <1>2, <1>3, <1>4 DEF Serial

LEMMA NextTyped == Sound /\ Sound' /\ Typed /\ [Next]_vars => Typed'
<1> SUFFICES ASSUME Sound, Sound', Typed, [Next]_vars PROVE Typed'
  OBVIOUS
<1>n. Serial \in Nat /\ Serial' \in Nat /\ Serial <= Serial' /\ made \in Seq(Questions)
  BY MoreIsMade DEF Sound
<1>b. \A fields : Bounded(fields, Serial) => Bounded(fields, Serial')
  BY <1>n, BoundedOperators
<1>k. Bounded(<<>>, Serial')
  BY BoundedOperators
<1>u. ASSUME UNCHANGED <<data, polled, unknown, unnamed>> PROVE AllBounded'
  BY <1>b, <1>u DEF Typed, AllBounded
<1>m. ASSUME NEW r \in UNION MakeRequests, Made(r)
      PROVE  request' \in SUBSET UNION MakeRequests /\ Few(request') /\ open' \in BOOLEAN
  BY <1>m, FewOperators DEF Made, RR!Ask, RR!Refuse
<1>1. ASSUME NEW wanted \in Wanted, Poll(wanted) PROVE Typed'
  <2>1. AllBounded'
    <3>1. CASE UNCHANGED <<data, unnamed>>
      BY <1>1, <1>u, <3>1 DEF Poll, fieldVars, doneVars
    <3>2. CASE data' = <<>> /\ unnamed' = <<>>
      BY <1>1, <1>b, <1>k, <3>2 DEF Poll, fieldVars, doneVars, Typed, AllBounded
    <3>3. QED
      BY <1>1, <3>1, <3>2 DEF Poll, pollVars
  <2>2. QED
    BY <1>1, <2>1, FewOperators DEF Poll, fieldVars, doneVars, requestVars, Typed
<1>2. ASSUME NEW makes \in MakeRequests, Perform(makes) PROVE Typed'
  <2>1. AllBounded'
    BY <1>2, <1>u DEF Perform, fieldVars, pollVars, doneVars
  <2>2. request' \in SUBSET UNION MakeRequests /\ Few(request') /\ open' \in BOOLEAN
    BY <1>2, <1>m, FewOperators DEF Perform, requestVars, Typed
  <2>3. QED
    BY <1>2, <2>1, <2>2 DEF Perform, fieldVars, doneVars, Typed
<1>3. ASSUME PollAsks PROVE Typed'
  <2>1. Head(todo) \in Polled
    BY <1>3 DEF PollAsks, Sound
  <2>2. PollRequest(Head(todo)) \in UNION MakeRequests
    BY <2>1 DEF MakeRequests
  <2>3. request' \in SUBSET UNION MakeRequests /\ Few(request') /\ open' \in BOOLEAN
    BY <1>3, <1>m, <2>2 DEF PollAsks
  <2>4. AllBounded'
    BY <1>3, <1>u DEF PollAsks, fieldVars, pollVars, doneVars
  <2>5. QED
    BY <1>3, <2>3, <2>4 DEF PollAsks, fieldVars, doneVars, Typed
<1>4. ASSUME NEW frame \in Frames, PollReads(frame) PROVE Typed'
  <2>1. Bounded(Update(data, Named(frame)), Serial) /\ Bounded(Update(unnamed, Unnamed(frame)), Serial)
    BY <1>n, FrameIsBounded, BoundedOperators DEF Typed, AllBounded
  <2>2. Bounded(data', Serial') /\ Bounded(unnamed', Serial')
    BY <1>4, <1>b, <2>1 DEF PollReads
  <2>3. AllBounded'
    BY <1>4, <1>b, <2>2 DEF PollReads, fieldVars, doneVars, Typed, AllBounded
  <2>4. QED
    BY <1>4, <2>3 DEF PollReads, fieldVars, doneVars, requestVars, Typed
<1>5. ASSUME PollReturns PROVE Typed'
  <2>1. Bounded(WithAliases(data), Serial')
    BY <1>b, BoundedOperators DEF Typed, AllBounded
  <2>2. AllBounded'
    BY <1>5, <1>b, <2>1 DEF PollReturns, Ends, pollVars, Typed, AllBounded
  <2>3. QED
    BY <1>5, <2>2, FewOperators DEF PollReturns, Ends, requestVars, Typed
<1>6. ASSUME \/ PollCannotRead \/ PollFails
             \/ \E ack \in Acknowledgements : PerformAccepted(ack) \/ PerformRefused(ack)
             \/ PerformCannotRead \/ PerformReads \/ PerformHello \/ PerformFails
      PROVE  Typed'
  <2>1. /\ phase' = "idle"
        /\ UNCHANGED <<session, request, open, data, polled, unknown, unnamed>>
    BY <1>6 DEF PollCannotRead, PollFails, PerformAccepted, PerformRefused, PerformCannotRead,
                PerformReads, PerformHello, PerformFails, Returns, Raises, Ends,
                pollVars, doneVars, requestVars
  <2>2. response' = response \/ response' = {} \/ \E ack \in Acknowledgements : response' = {ack}
    BY <1>6 DEF PollCannotRead, PollFails, PerformAccepted, PerformRefused, PerformCannotRead,
                PerformReads, PerformHello, PerformFails, Returns, Raises, Ends, doneVars
  <2>3. response' \in SUBSET Acknowledgements /\ Few(response')
    BY <2>2, FewOperators DEF Typed
  <2>4. QED
    BY <1>u, <2>1, <2>3 DEF Typed
<1>7. ASSUME RequestEnds \/ Disconnects \/ Connects \/ UNCHANGED vars PROVE Typed'
  <2>1. /\ UNCHANGED <<phase, request, response, data, polled, unknown, unnamed>>
        /\ session' \in BOOLEAN /\ open' \in BOOLEAN
    BY <1>7 DEF RequestEnds, RequestFails, RequestReturns, RR!Fail, RR!Return, Disconnects, Connects,
                vars, fieldVars, pollVars, doneVars, requestVars, Typed
  <2>2. QED
    BY <1>u, <2>1 DEF Typed
<1>8. QED
  BY <1>1, <1>2, <1>3, <1>4, <1>5, <1>6, <1>7 DEF Next, Step

LEMMA TypedIsTypeOK == Sound /\ Typed => TypeOK
  BY DEF Sound, Typed, AllBounded, Bounded, Few, Questions, TypeOK

-----------------------------------------------------------------------------
(* The theorems.                                                           *)

\* The fields and locals of poll() and perform() hold what the code gives them.
THEOREM TypeCorrect == Spec => []TypeOK
<1>1. Sound /\ Typed /\ [Next]_vars => Sound' /\ Typed'
  BY NextSound, NextTyped
<1>2. QED
  BY <1>1, InitSound, InitTyped, TypedIsTypeOK, PTL DEF Spec

\* No builder makes a command that limits the current of two phases, or that
\* limits one beyond what a charger takes, and nothing else is ever written.
THEOREM EveryPhaseIsLimited == Spec => []LimitsAreWhole
<1>1. Sound => LimitsAreWhole
  BY DEF Sound, Limited, LimitsAreWhole
<1>2. QED
  BY <1>1, InitSound, NextSound, PTL DEF Spec

\* `unknown` holds the fields nobody named of one poll(), all of them at their
\* last value, however that poll and the calls since it ended.
THEOREM UnknownIsPublishedWhole == Spec => []UnknownIsOfLastPoll
<1>1. Sound /\ Read /\ [Next]_vars => Sound' /\ Read'
  BY NextSound, NextRead
<1>2. QED
  BY <1>1, InitSound, InitRead, ReadIsUnknown, PTL DEF Spec

\* poll() returns every named field of every frame it has read, at its last
\* value, and none besides: merging loses nothing, whatever the tables name.
THEOREM PollReturnsEverything == Spec => []PollIsWhole
<1>1. Sound /\ Read /\ Merged /\ [Next]_vars => Sound' /\ Read' /\ Merged'
  BY NextSound, NextRead, NextMerged
<1>2. QED
  BY <1>1, InitSound, InitRead, InitMerged, MergedIsWhole, PTL DEF Spec

=============================================================================
