--------------------------- MODULE ExchangeProofs ---------------------------
(***************************************************************************)
(* Proofs about Exchange, for every value of its constants: type           *)
(* correctness, the registration of the waiting channel, and that a call   *)
(* returns neither a stale reply nor the answer to another question.       *)
(***************************************************************************)
EXTENDS Exchange, TLAPS

-----------------------------------------------------------------------------
(* Facts about sequences.                                                  *)

\* The elements of a sequence.
Held(s) == {s[i] : i \in 1..Len(s)}

LEMMA HeldEmpty == Held(<<>>) = {}
BY DEF Held

LEMMA HeldAppend ==
  ASSUME NEW S, NEW s \in Seq(S), NEW e \in S
  PROVE  /\ Append(s, e) \in Seq(S)
         /\ Len(Append(s, e)) = Len(s) + 1
         /\ \A i \in 1..Len(s) : Append(s, e)[i] = s[i]
         /\ Append(s, e)[Len(s) + 1] = e
         /\ Held(Append(s, e)) \subseteq Held(s) \cup {e}
<1>1. /\ Append(s, e) \in Seq(S)
      /\ Len(Append(s, e)) = Len(s) + 1
      /\ \A i \in 1..Len(s) : Append(s, e)[i] = s[i]
      /\ Append(s, e)[Len(s) + 1] = e
  OBVIOUS
<1>2. ASSUME NEW i \in 1..Len(s) + 1
      PROVE  Append(s, e)[i] \in Held(s) \cup {e}
  <2>1. CASE i = Len(s) + 1
    BY <1>1, <2>1
  <2>2. CASE i # Len(s) + 1
    <3>1. i \in 1..Len(s)
      BY <2>2
    <3>2. QED
      BY <1>1, <3>1 DEF Held
  <2>3. QED
    BY <2>1, <2>2
<1>3. QED
  BY <1>1, <1>2 DEF Held

LEMMA HeldHeadTail ==
  ASSUME NEW S, NEW s \in Seq(S), s # <<>>
  PROVE  /\ Tail(s) \in Seq(S)
         /\ Head(s) \in S
         /\ Head(s) \in Held(s)
         /\ Held(Tail(s)) \subseteq Held(s)
<1>1. /\ Len(s) \in Nat \ {0}
      /\ Tail(s) \in Seq(S)
      /\ Len(Tail(s)) = Len(s) - 1
      /\ \A i \in 1..Len(s) - 1 : Tail(s)[i] = s[i + 1]
      /\ Head(s) = s[1]
      /\ s[1] \in S
  OBVIOUS
<1>2. ASSUME NEW i \in 1..Len(s) - 1
      PROVE  Tail(s)[i] \in Held(s)
  <2>1. Tail(s)[i] = s[i + 1] /\ i + 1 \in 1..Len(s)
    BY <1>1
  <2>2. QED
    BY <2>1 DEF Held
<1>3. QED
  BY <1>1, <1>2 DEF Held

-----------------------------------------------------------------------------
(* Type correctness.                                                       *)

LEMMA NoReplyType == NoReply \in Replies /\ NoReply.for = 0
BY DEF NoReply, Replies

\* A pending call has a request, and its deadline is a number of ticks.
LEMMA CurrentType ==
  ASSUME TypeOK, Serial # 0
  PROVE  /\ Current \in Requests
         /\ Channel \in Channels
         /\ Current.id \in CommandIds \cup {NoId}
         /\ Timeout(Current) \in Nat
<1>1. Serial \in 1..Len(asked)
  BY DEF TypeOK, Serial
<1>2. Current \in Requests
  BY <1>1 DEF TypeOK, Current
<1>3. Channel \in Channels /\ Current.id \in CommandIds \cup {NoId}
  BY <1>2, ChannelAssumption DEF Requests, Channel
<1>4. Timeout(Current) \in Nat
  BY TimingAssumption DEF Timeout
<1>5. QED
  BY <1>2, <1>3, <1>4

\* The strengthening of TypeOK: a pending call is the last one asked, on a
\* channel that can carry it.
Pending == phase # "idle" => Serial # 0

Typed == TypeOK /\ Pending

LEMMA InitTyped == Init => Typed
<1> SUFFICES ASSUME Init PROVE Typed
  OBVIOUS
<1>1. queues \in [Channels -> Seq(Replies)] /\ asked \in Seq(Requests)
  BY DEF Init
<1>2. attempt \in 0..WriteAttempts
  BY TimingAssumption DEF Init
<1>3. inbox \subseteq Writes /\ reply \in Replies
  BY NoReplyType DEF Init
<1>4. phase = "idle" /\ phase \in Phases /\ outcome \in Outcomes
  BY DEF Init, Phases, Outcomes
<1>5. QED
  BY <1>1, <1>2, <1>3, <1>4 DEF Init, Typed, TypeOK, Pending

\* The ways out of a call keep the types.
LEMMA EndsTyped ==
  ASSUME Typed, NEW how \in Outcomes, NEW with \in Replies, Ends(how, with)
  PROVE  /\ phase' \in Phases /\ phase' = "idle"
         /\ attempt' \in 0..WriteAttempts
         /\ landed' \in BOOLEAN
         /\ left' \in Nat
         /\ outcome' \in Outcomes
         /\ reply' \in Replies
         /\ waiting' \subseteq Channels
<1>1. 0 \in 0..WriteAttempts
  BY TimingAssumption
<1>2. waiting' \subseteq Channels
  BY DEF Ends, Typed, TypeOK
<1>3. QED
  BY <1>1, <1>2 DEF Ends, Phases

LEMMA NextAttemptTyped ==
  ASSUME Typed, Serial # 0, NextAttempt
  PROVE  /\ phase' \in Phases
         /\ attempt' \in 0..WriteAttempts
         /\ landed' \in BOOLEAN
         /\ left' \in Nat
         /\ outcome' \in Outcomes
         /\ reply' \in Replies
         /\ waiting' \subseteq Channels
<1>1. Timeout(Current) \in Nat
  BY CurrentType DEF Typed
<1>2. CASE attempt < WriteAttempts
  <2>1. phase' = "writing" /\ attempt' = attempt + 1 /\ landed' = FALSE
        /\ UNCHANGED <<left, outcome, reply, waiting>>
    BY <1>2 DEF NextAttempt
  <2>2. attempt' \in 0..WriteAttempts
    BY <1>2, <2>1, TimingAssumption DEF Typed, TypeOK
  <2>3. QED
    BY <2>1, <2>2 DEF Typed, TypeOK, Phases
<1>3. CASE ~(attempt < WriteAttempts)
  <2>1. phase' = "waiting" /\ left' = Timeout(Current)
        /\ UNCHANGED <<attempt, landed, outcome, reply, waiting>>
    BY <1>3 DEF NextAttempt
  <2>2. QED
    BY <1>1, <2>1 DEF Typed, TypeOK, Phases
<1>4. QED
  BY <1>2, <1>3

LEMMA OutcomeNames ==
  /\ {"none", "notConnected", "linkGone", "notSubscribed", "notAvailable", "writeTimeout",
      "bondFirst", "dropped", "reply", "cancelled", "backendError", "attributeError"}
       \subseteq Outcomes
  /\ Silence \in Outcomes
BY DEF Outcomes, EaseeErrors, Silence

LEMMA NextTyped == Typed /\ [Next]_vars => Typed'
<1> SUFFICES ASSUME Typed, [Next]_vars PROVE Typed'
  OBVIOUS
<1> USE DEF Typed
<1>1. ASSUME NEW r \in Requests, Ask(r) PROVE Typed'
  <2>1. r.channel \in Channels
    BY ChannelAssumption DEF Requests
  <2>2. asked' \in Seq(Requests) /\ Serial' # 0
    BY <1>1, HeldAppend DEF Ask, Serial, TypeOK
  <2>3. Obstacle(r) \in Outcomes
    BY OutcomeNames DEF Obstacle
  <2>4. queues' \in [Channels -> Seq(Replies)]
    <3>1. queues' = queues \/ queues' = Drained(r.channel)
      BY <1>1 DEF Ask
    <3>2. Drained(r.channel) \in [Channels -> Seq(Replies)]
      <4>1. <<>> \in Seq(Replies)
        OBVIOUS
      <4>2. QED
        BY <4>1 DEF Drained, TypeOK
    <3>3. QED
      BY <3>1, <3>2 DEF TypeOK
  <2>5. phase' \in Phases /\ attempt' \in 0..WriteAttempts /\ outcome' \in Outcomes
        /\ waiting' \subseteq Channels
    BY <1>1, <2>1, <2>3, OutcomeNames, TimingAssumption DEF Ask, TypeOK, Phases
  <2>6. QED
    BY <1>1, <2>2, <2>4, <2>5, NoReplyType
       DEF Ask, TypeOK, Pending, stateVars, linkVars, chargerVars
<1>2. ASSUME WriteDone PROVE Typed'
  BY <1>2, CurrentType
     DEF WriteDone, TypeOK, Pending, Phases, Serial, fieldVars, stateVars, linkVars, chargerVars
<1>3. ASSUME WriteTimesOut PROVE Typed'
  BY <1>3, EndsTyped, NoReplyType, OutcomeNames
     DEF WriteTimesOut, Fails, TypeOK, Pending, stateVars, linkVars, chargerVars
<1>4. ASSUME WriteFails PROVE Typed'
  <2>1. \/ Fails("backendError")
        \/ Fails("attributeError")
        \/ phase' = "pausing" /\ UNCHANGED <<attempt, landed, left, outcome, reply, waiting>>
    BY <1>4 DEF WriteFails
  <2>2. phase = "writing"
        /\ UNCHANGED <<wrote, asked, queues, answered, stateVars, linkVars, chargerVars>>
    BY <1>4 DEF WriteFails
  <2>3. QED
    BY <2>1, <2>2, EndsTyped, NoReplyType, OutcomeNames
       DEF Fails, TypeOK, Pending, Phases, Serial, stateVars, linkVars, chargerVars
<1>5. ASSUME WriteRefused PROVE Typed'
  BY <1>5, EndsTyped, NoReplyType, OutcomeNames
     DEF WriteRefused, Fails, TypeOK, Pending, Phases, Serial, stateVars, linkVars, chargerVars
<1>6. ASSUME PairDone PROVE Typed'
  <2>1. Serial # 0
    BY <1>6 DEF PairDone, Pending
  <2>2. Fails("attributeError") \/ NextAttempt
    BY <1>6 DEF PairDone
  <2>3. bonded' \in BOOLEAN /\ encrypted' \in BOOLEAN
        /\ UNCHANGED <<wrote, asked, queues, answered, client, linkVars, inbox>>
    BY <1>6 DEF PairDone, TypeOK
  <2>4. QED
    BY <2>1, <2>2, <2>3, EndsTyped, NextAttemptTyped, NoReplyType, OutcomeNames
       DEF Fails, TypeOK, Pending, Serial, linkVars
<1>7. ASSUME PairFails PROVE Typed'
  BY <1>7, EndsTyped, NoReplyType, OutcomeNames
     DEF PairFails, Fails, TypeOK, Pending, linkVars, chargerVars
<1>8. ASSUME RetryWakes PROVE Typed'
  <2>1. Serial # 0
    BY <1>8 DEF RetryWakes, Pending
  <2>2. Fails("attributeError") \/ NextAttempt
    BY <1>8 DEF RetryWakes
  <2>3. UNCHANGED <<wrote, asked, queues, answered, stateVars, linkVars, chargerVars>>
    BY <1>8 DEF RetryWakes
  <2>4. QED
    BY <2>1, <2>2, <2>3, EndsTyped, NextAttemptTyped, NoReplyType, OutcomeNames
       DEF Fails, TypeOK, Pending, Serial, stateVars, linkVars, chargerVars
<1>9. ASSUME WakeReply PROVE Typed'
  <2> DEFINE n == Head(queues[Channel])
  <2>1. Serial # 0 /\ Channel \in Channels
    BY <1>9, CurrentType DEF WakeReply, Pending
  <2>2. n \in Replies /\ Tail(queues[Channel]) \in Seq(Replies)
    BY <1>9, <2>1, HeldHeadTail DEF WakeReply, TypeOK
  <2>3. queues' \in [Channels -> Seq(Replies)]
    BY <1>9, <2>1, <2>2 DEF WakeReply, TypeOK
  <2>4. \/ Ends("reply", n) /\ answered' = answered \cup {Channel}
        \/ Fails(Silence) /\ UNCHANGED answered
        \/ UNCHANGED <<phase, attempt, landed, left, outcome, reply, waiting, answered>>
    BY <1>9 DEF WakeReply
  <2>5. UNCHANGED <<wrote, asked, stateVars, linkVars, chargerVars>>
    BY <1>9 DEF WakeReply
  <2> HIDE DEF n
  <2>6. QED
    BY <2>1, <2>2, <2>3, <2>4, <2>5, EndsTyped, NoReplyType, OutcomeNames
       DEF Fails, TypeOK, Pending, Serial, stateVars, linkVars, chargerVars
<1>10. ASSUME WakeDropped PROVE Typed'
  BY <1>10, EndsTyped, NoReplyType, OutcomeNames
     DEF WakeDropped, Fails, TypeOK, Pending, stateVars, linkVars, chargerVars
<1>11. ASSUME TimeOut PROVE Typed'
  BY <1>11, EndsTyped, NoReplyType, OutcomeNames
     DEF TimeOut, Fails, TypeOK, Pending, stateVars, linkVars, chargerVars
<1>12. ASSUME Tick PROVE Typed'
  BY <1>12 DEF Tick, TypeOK, Pending, Serial, fieldVars, stateVars, linkVars, chargerVars
<1>13. ASSUME Cancel PROVE Typed'
  BY <1>13, EndsTyped, NoReplyType, OutcomeNames
     DEF Cancel, Fails, TypeOK, Pending, stateVars, linkVars, chargerVars
<1>14. ASSUME Teardown PROVE Typed'
  BY <1>14 DEF Teardown, TypeOK, Pending, Serial, callVars, fieldVars, linkVars, chargerVars
<1>15. ASSUME ChargerReceives PROVE Typed'
  <2>1. Serial \in Nat /\ attempt \in Nat
    BY DEF TypeOK, Serial
  <2>2. [channel |-> Channel, id |-> Current.id, for |-> Serial, attempt |-> attempt] \in Writes
    BY <1>15, <2>1, CurrentType DEF ChargerReceives, Pending, Writes
  <2>3. QED
    BY <1>15, <2>2
       DEF ChargerReceives, TypeOK, Pending, Serial, fieldVars, stateVars, linkVars
<1>16. ASSUME NEW w \in inbox, Answer(w) PROVE Typed'
  <2>1. [id |-> w.id, for |-> w.for, during |-> Serial] \in Replies /\ w.channel \in Channels
    BY DEF TypeOK, Serial, Writes, Replies
  <2>2. queues' \in [Channels -> Seq(Replies)]
    BY <1>16, <2>1, HeldAppend DEF Answer, Deliver, TypeOK
  <2>3. QED
    BY <1>16, <2>2
       DEF Answer, TypeOK, Pending, Serial, callVars, stateVars, linkVars
<1>17. ASSUME NEW ch \in Channels, NEW id \in CommandIds \cup {NoId}, Stray(ch, id)
       PROVE  Typed'
  <2>1. [id |-> id, for |-> 0, during |-> Serial] \in Replies
    BY DEF TypeOK, Serial, Replies
  <2>2. queues' \in [Channels -> Seq(Replies)]
    BY <1>17, <2>1, HeldAppend DEF Stray, Deliver, TypeOK
  <2>3. QED
    BY <1>17, <2>2
       DEF Stray, TypeOK, Pending, Serial, callVars, stateVars, linkVars, chargerVars
<1>18. ASSUME LinkDrops \/ BeliefCatchesUp \/ DropReported PROVE Typed'
  BY <1>18 DEF LinkDrops, BeliefCatchesUp, DropReported, TypeOK, Pending, Serial,
               callVars, fieldVars, stateVars, chargerVars
<1>19. ASSUME UNCHANGED vars PROVE Typed'
  BY <1>19 DEF vars, TypeOK, Pending, Serial, callVars, fieldVars, stateVars, linkVars,
               chargerVars
<1>20. QED
  BY <1>1, <1>2, <1>3, <1>4, <1>5, <1>6, <1>7, <1>8, <1>9, <1>10, <1>11, <1>12, <1>13,
     <1>14, <1>15, <1>16, <1>17, <1>18, <1>19
     DEF Next, Wakes, Clock

LEMMA AlwaysTyped == Spec => []Typed
BY InitTyped, NextTyped, PTL DEF Spec

\* Every variable has its type in every reachable state; in particular no call
\* makes more than WriteAttempts attempts and no deadline is overrun.
THEOREM TypeCorrect == Spec => []TypeOK
BY AlwaysTyped, PTL DEF Typed

-----------------------------------------------------------------------------
(* _waiting.                                                               *)

LEMMA NextWaiting == Typed /\ WaitingRegistered /\ [Next]_vars => WaitingRegistered'
<1> SUFFICES ASSUME Typed, WaitingRegistered, [Next]_vars PROVE WaitingRegistered'
  OBVIOUS
\* Only Ask changes which request is current.
<1>1. ASSUME NEW r \in Requests, Ask(r) PROVE WaitingRegistered'
  <2>1. Current' = r
    <3>1. Serial' = Serial + 1 /\ asked'[Serial + 1] = r
      BY <1>1, HeldAppend DEF Ask, Serial, Typed, TypeOK
    <3>2. QED
      BY <3>1 DEF Current
  <2>2. waiting = {}
    BY <1>1 DEF Ask, WaitingRegistered
  <2>3. \/ phase' = "idle" /\ waiting' = {}
        \/ phase' = "writing" /\ waiting' = {r.channel}
    BY <1>1, <2>2 DEF Ask
  <2>4. QED
    BY <2>1, <2>3 DEF WaitingRegistered, Channel
<1> DEFINE Same == Channel' = Channel
\* A call goes on, registered, or ends, and is not.
<1>2. ASSUME phase # "idle", Same,
             \/ phase' = "idle" /\ waiting' = waiting \ {Channel}
             \/ phase' # "idle" /\ waiting' = waiting
      PROVE  WaitingRegistered'
  BY <1>2 DEF WaitingRegistered
<1>3. ASSUME NEW how, NEW with, phase # "idle", Same, Ends(how, with)
      PROVE  WaitingRegistered'
  BY <1>2, <1>3 DEF Ends
<1>4. ASSUME phase # "idle", Same, NextAttempt PROVE WaitingRegistered'
  BY <1>2, <1>4 DEF NextAttempt
<1>5. ASSUME UNCHANGED asked PROVE Same
  BY <1>5 DEF Channel, Current, Serial
<1> HIDE DEF Same
<1>6. ASSUME WriteDone PROVE WaitingRegistered'
  BY <1>6, <1>2, <1>5 DEF WriteDone, fieldVars
<1>7. ASSUME WriteTimesOut PROVE WaitingRegistered'
  BY <1>7, <1>3, <1>5 DEF WriteTimesOut, Fails
<1>8. ASSUME WriteFails PROVE WaitingRegistered'
  BY <1>8, <1>2, <1>3, <1>5 DEF WriteFails, Fails
<1>9. ASSUME WriteRefused PROVE WaitingRegistered'
  BY <1>9, <1>2, <1>3, <1>5 DEF WriteRefused, Fails
<1>10. ASSUME PairDone PROVE WaitingRegistered'
  BY <1>10, <1>3, <1>4, <1>5 DEF PairDone, Fails
<1>11. ASSUME PairFails PROVE WaitingRegistered'
  BY <1>11, <1>3, <1>5 DEF PairFails, Fails
<1>12. ASSUME RetryWakes PROVE WaitingRegistered'
  BY <1>12, <1>3, <1>4, <1>5 DEF RetryWakes, Fails
<1>13. ASSUME WakeReply PROVE WaitingRegistered'
  <2>1. phase # "idle" /\ Same
    BY <1>13, <1>5 DEF WakeReply
  <2>2. \/ Ends("reply", Head(queues[Channel]))
        \/ Fails(Silence)
        \/ UNCHANGED <<phase, waiting>>
    BY <1>13 DEF WakeReply
  <2>3. QED
    BY <2>1, <2>2, <1>2, <1>3 DEF Fails
<1>14. ASSUME WakeDropped \/ TimeOut \/ Cancel PROVE WaitingRegistered'
  BY <1>14, <1>3, <1>5 DEF WakeDropped, TimeOut, Cancel, Fails
<1>15. ASSUME UNCHANGED <<phase, asked, waiting>> PROVE WaitingRegistered'
  BY <1>15 DEF WaitingRegistered, Channel, Current, Serial
<1>16. ASSUME Tick \/ Teardown \/ ChargerReceives \/ LinkDrops \/ BeliefCatchesUp \/ DropReported
       PROVE  WaitingRegistered'
  BY <1>15, <1>16 DEF Tick, Teardown, ChargerReceives, LinkDrops, BeliefCatchesUp,
                      DropReported, callVars, fieldVars
<1>17. ASSUME NEW w \in inbox, Answer(w) PROVE WaitingRegistered'
  BY <1>15, <1>17 DEF Answer, callVars
<1>18. ASSUME NEW ch \in Channels, NEW id \in CommandIds \cup {NoId}, Stray(ch, id)
       PROVE  WaitingRegistered'
  BY <1>15, <1>18 DEF Stray, callVars
<1>19. ASSUME UNCHANGED vars PROVE WaitingRegistered'
  BY <1>15, <1>19 DEF vars, callVars, fieldVars
<1>20. QED
  BY <1>1, <1>6, <1>7, <1>8, <1>9, <1>10, <1>11, <1>12, <1>13, <1>14, <1>16, <1>17, <1>18,
     <1>19 DEF Next, Wakes, Clock

\* However a call ends - a reply, a failure, a timeout, a cancellation - its
\* channel is not left in _waiting, and while it lasts it is the only one there.
THEOREM WaitingIsRegistered == Spec => []WaitingRegistered
<1>1. Init => WaitingRegistered
  BY DEF Init, WaitingRegistered
<1>2. QED
  BY <1>1, NextWaiting, AlwaysTyped, PTL DEF Spec

-----------------------------------------------------------------------------
(* What a call returns.                                                    *)

\* n, on channel ch, answers one of the requests made, or none.
Honest(ch, n) ==
  /\ n.for \in 0..Serial
  /\ n.for # 0 => asked[n.for].channel = ch /\ asked[n.for].id = n.id

\* The invariant behind FreshReply and SameQuestion: everything queued or to
\* be answered is honest, and what is queued on the channel of a pending call
\* arrived during it.  A reply returned answers nothing but its question.
Provenance ==
  /\ \A ch \in Channels : \A n \in Held(queues[ch]) : Honest(ch, n)
  /\ \A w \in inbox : w.for # 0 /\ Honest(w.channel, w)
  /\ phase # "idle" => \A n \in Held(queues[Channel]) : n.during = Serial
  /\ outcome = "reply" => Serial # 0 /\ Honest(Channel, reply) /\ Takes(Current, reply)
  /\ FreshReply

LEMMA RequestsEqual ==
  ASSUME NEW r \in Requests, NEW s \in Requests, r.channel = s.channel, r.id = s.id
  PROVE  r = s
BY DEF Requests

\* A reply that is honest and taken answers the question that was asked: on
\* COMMAND by its id, elsewhere because all requests are alike.
LEMMA ProvenanceSuffices == Typed /\ Provenance => FreshReply /\ SameQuestion
<1> SUFFICES ASSUME Typed, Provenance, outcome = "reply", reply.for # 0
             PROVE  asked[reply.for] = Current
  BY DEF Provenance, SameQuestion
<1> DEFINE r == asked[reply.for]
<1>1. /\ Serial # 0 /\ Takes(Current, reply)
      /\ reply.for \in 1..Len(asked)
      /\ r.channel = Channel /\ r.id = reply.id
  BY DEF Provenance, Honest, Serial, Typed, TypeOK
<1>2. r \in Requests /\ Current \in Requests
  BY <1>1, CurrentType DEF Typed, TypeOK
<1> HIDE DEF r
<1>3. CASE Channel = Command
  <2>1. r.id # NoId
    BY <1>1, <1>2, <1>3, ChannelAssumption DEF Requests
  <2>2. r.id = Current.id
    BY <1>1, <1>3, <2>1 DEF Takes, Channel
  <2>3. QED
    BY <1>1, <1>2, <2>2, RequestsEqual DEF r, Channel
<1>4. CASE Channel # Command
  <2>1. r.id = NoId /\ Current.id = NoId
    BY <1>1, <1>2, <1>4 DEF Requests, Channel
  <2>2. QED
    BY <1>1, <1>2, <2>1, RequestsEqual DEF r, Channel
<1>5. QED
  BY <1>3, <1>4

LEMMA InitProvenance == Init => Provenance
BY HeldEmpty DEF Init, Provenance, FreshReply

\* While the requests stay as they are, only three things can disturb
\* Provenance: what is queued, what is held, and how a call ends.
LEMMA ProvenanceKept ==
  ASSUME Typed, Provenance, UNCHANGED asked,
         \A ch \in Channels : \A n \in Held(queues'[ch]) :
            \/ n \in Held(queues[ch])
            \/ Honest(ch, n) /\ n.during = Serial,
         \A w \in inbox' : w \in inbox \/ (w.for # 0 /\ Honest(w.channel, w)),
         phase' # "idle" => phase # "idle",
         \/ UNCHANGED <<outcome, reply>>
         \/ outcome' # "reply"
         \/ /\ phase # "idle" /\ outcome' = "reply"
            /\ reply' \in Held(queues[Channel]) /\ Takes(Current, reply')
  PROVE  Provenance'
<1>1. Serial' = Serial /\ Current' = Current /\ Channel' = Channel
  BY DEF Serial, Current, Channel
<1>3. \A ch \in Channels : \A n \in Held(queues'[ch]) : Honest(ch, n)'
  BY <1>1 DEF Provenance, Honest
<1>4. \A w \in inbox' : w.for # 0 /\ Honest(w.channel, w)'
  BY <1>1 DEF Provenance, Honest
<1>5. phase' # "idle" => \A n \in Held(queues'[Channel']) : n.during = Serial'
  BY <1>1, CurrentType DEF Provenance, Typed, Pending
<1>6. outcome' = "reply" =>
        /\ Serial' # 0 /\ Honest(Channel, reply)' /\ Takes(Current, reply)'
        /\ FreshReply'
  <2>1. CASE UNCHANGED <<outcome, reply>>
    BY <1>1, <2>1 DEF Provenance, Honest, Takes, FreshReply
  <2>2. CASE outcome' # "reply"
    BY <2>2
  <2>3. CASE /\ phase # "idle" /\ outcome' = "reply"
             /\ reply' \in Held(queues[Channel]) /\ Takes(Current, reply')
    <3>1. Channel \in Channels /\ Serial # 0
      BY <2>3, CurrentType DEF Typed, Pending
    <3>2. Honest(Channel, reply') /\ reply'.during = Serial
      BY <2>3, <3>1 DEF Provenance
    <3>3. QED
      BY <1>1, <2>3, <3>1, <3>2 DEF Honest, Takes, FreshReply
  <2>4. QED
    BY <2>1, <2>2, <2>3
<1>7. QED
  BY <1>3, <1>4, <1>5, <1>6 DEF Provenance, FreshReply

\* A new request empties its own queue and leaves every answer honest.
LEMMA AskProvenance ==
  ASSUME Typed, Provenance, NEW r \in Requests, Ask(r)
  PROVE  Provenance'
<1>1. /\ Serial \in Nat /\ Serial' = Serial + 1
      /\ \A i \in 1..Serial : asked'[i] = asked[i]
      /\ asked'[Serial + 1] = r
  BY HeldAppend DEF Ask, Serial, Typed, TypeOK
<1>2. Channel' = r.channel /\ r.channel \in Channels
  BY <1>1, ChannelAssumption DEF Channel, Current, Requests
<1>3. ASSUME NEW ch, NEW n, Honest(ch, n) PROVE Honest(ch, n)'
  <2>1. n.for \in 0..Serial'
    BY <1>1, <1>3 DEF Honest
  <2>2. n.for # 0 => asked'[n.for] = asked[n.for]
    BY <1>1, <1>3 DEF Honest
  <2>3. QED
    BY <1>3, <2>1, <2>2 DEF Honest
<1>4. \/ queues' = queues /\ phase' = "idle"
      \/ queues' = Drained(r.channel)
  BY <1>1 DEF Ask
<1>5. \A ch \in Channels : Held(queues'[ch]) \subseteq Held(queues[ch])
  BY <1>4, HeldEmpty DEF Drained, Typed, TypeOK
<1>6. phase' # "idle" => Held(queues'[Channel']) = {}
  BY <1>2, <1>4, HeldEmpty DEF Drained, Typed, TypeOK
<1>7. outcome' # "reply"
  BY DEF Ask, Obstacle
<1>8. inbox' = inbox
  BY DEF Ask, chargerVars
<1>9. QED
  BY <1>3, <1>5, <1>6, <1>7, <1>8 DEF Provenance, FreshReply

LEMMA NextProvenance == Typed /\ Provenance /\ [Next]_vars => Provenance'
<1> SUFFICES ASSUME Typed, Provenance, [Next]_vars PROVE Provenance'
  OBVIOUS
<1>1. ASSUME NEW r \in Requests, Ask(r) PROVE Provenance'
  BY <1>1, AskProvenance
\* The steps that neither queue, answer nor return anything.
<1>2. ASSUME UNCHANGED <<asked, queues>>, inbox' \subseteq inbox,
             phase' # "idle" => phase # "idle",
             UNCHANGED <<outcome, reply>> \/ outcome' # "reply"
      PROVE  Provenance'
  <2>1. \A ch \in Channels : \A n \in Held(queues'[ch]) :
           n \in Held(queues[ch]) \/ (Honest(ch, n) /\ n.during = Serial)
    BY <1>2
  <2>2. \A w \in inbox' : w \in inbox \/ (w.for # 0 /\ Honest(w.channel, w))
    BY <1>2
  <2>3. UNCHANGED asked
    BY <1>2
  <2>4. \/ UNCHANGED <<outcome, reply>>
        \/ outcome' # "reply"
        \/ /\ phase # "idle" /\ outcome' = "reply"
           /\ reply' \in Held(queues[Channel]) /\ Takes(Current, reply')
    BY <1>2
  <2>5. QED
    BY <1>2, <2>1, <2>2, <2>3, <2>4, ProvenanceKept
<1>3. ASSUME WriteDone \/ Tick \/ Teardown PROVE Provenance'
  BY <1>2, <1>3 DEF WriteDone, Tick, Teardown, callVars, fieldVars, chargerVars
<1>4. ASSUME LinkDrops \/ BeliefCatchesUp \/ DropReported PROVE Provenance'
  BY <1>2, <1>4 DEF LinkDrops, BeliefCatchesUp, DropReported, callVars, fieldVars, chargerVars
<1>5. ASSUME WriteTimesOut \/ WriteFails \/ WriteRefused PROVE Provenance'
  BY <1>2, <1>5 DEF WriteTimesOut, WriteFails, WriteRefused, Fails, Ends, chargerVars
<1>6. ASSUME PairDone \/ PairFails \/ RetryWakes PROVE Provenance'
  BY <1>2, <1>6 DEF PairDone, PairFails, RetryWakes, NextAttempt, Fails, Ends, chargerVars
<1>7. ASSUME WakeDropped \/ TimeOut \/ Cancel PROVE Provenance'
  <2>1. Silence # "reply"
    BY DEF Silence
  <2>2. QED
    BY <1>2, <1>7, <2>1 DEF WakeDropped, TimeOut, Cancel, Fails, Ends, chargerVars
<1>8. ASSUME WakeReply PROVE Provenance'
  <2> DEFINE q == queues[Channel]
             n == Head(q)
  <2>1. Channel \in Channels /\ phase # "idle"
    BY <1>8, CurrentType DEF WakeReply, Typed, Pending
  <2>2. n \in Held(q) /\ Held(Tail(q)) \subseteq Held(q)
    BY <1>8, <2>1, HeldHeadTail DEF WakeReply, Typed, TypeOK
  <2>3. queues' = [queues EXCEPT ![Channel] = Tail(q)]
    BY <1>8 DEF WakeReply
  <2> HIDE DEF n, q
  <2>4. \A ch \in Channels : Held(queues'[ch]) \subseteq Held(queues[ch])
    BY <2>2, <2>3 DEF q, Typed, TypeOK
  <2>5. \/ UNCHANGED <<outcome, reply>>
        \/ outcome' # "reply"
        \/ outcome' = "reply" /\ reply' = n /\ Takes(Current, n)
    BY <1>8 DEF WakeReply, Fails, Ends, Silence, n, q
  <2>6. UNCHANGED <<asked, inbox>>
    BY <1>8 DEF WakeReply, chargerVars
  <2>7. QED
    BY <2>1, <2>2, <2>4, <2>5, <2>6, ProvenanceKept DEF q
\* The charger receives a write: what it will answer is the current request.
<1>9. ASSUME ChargerReceives PROVE Provenance'
  <2> DEFINE w == [channel |-> Channel, id |-> Current.id, for |-> Serial, attempt |-> attempt]
  <2>1. Serial # 0 /\ Serial \in Nat
    BY <1>9 DEF ChargerReceives, Typed, Pending, TypeOK, Serial
  <2>2. w.for # 0 /\ Honest(w.channel, w)
    BY <2>1 DEF Honest, Channel, Current
  <2>3. inbox' = inbox \cup {w} /\ UNCHANGED <<asked, queues, phase, outcome, reply>>
    BY <1>9 DEF ChargerReceives, fieldVars
  <2> HIDE DEF w
  <2>4. QED
    BY <2>2, <2>3, ProvenanceKept
\* Something is queued, honest, during the current request.
<1>10. ASSUME NEW c \in Channels, NEW n \in Replies, Deliver(c, n),
              Honest(c, n), n.during = Serial,
              inbox' \subseteq inbox, UNCHANGED <<callVars, asked>>
       PROVE  Provenance'
  <2>1. \A ch \in Channels : Held(queues'[ch]) \subseteq
            Held(queues[ch]) \cup IF ch = c THEN {n} ELSE {}
    BY <1>10, HeldAppend DEF Deliver, Typed, TypeOK
  <2>2. QED
    BY <1>10, <2>1, ProvenanceKept DEF callVars
<1>11. ASSUME NEW w \in inbox, Answer(w) PROVE Provenance'
  <2> DEFINE n == [id |-> w.id, for |-> w.for, during |-> Serial]
  <2>1. w \in Writes /\ w.channel \in Channels /\ n \in Replies
    BY DEF Typed, TypeOK, Writes, Replies, Serial
  <2>2. Honest(w.channel, n)
    BY DEF Provenance, Honest
  <2>3. Deliver(w.channel, n) /\ inbox' \subseteq inbox /\ UNCHANGED <<callVars, asked>>
    BY <1>11 DEF Answer
  <2>4. n.during = Serial
    OBVIOUS
  <2> HIDE DEF n
  <2>5. QED
    BY <1>10, <2>1, <2>2, <2>3, <2>4
<1>12. ASSUME NEW ch \in Channels, NEW id \in CommandIds \cup {NoId}, Stray(ch, id)
       PROVE  Provenance'
  <2> DEFINE n == [id |-> id, for |-> 0, during |-> Serial]
  <2>1. n \in Replies /\ Honest(ch, n) /\ n.during = Serial
    BY DEF Typed, TypeOK, Replies, Serial, Honest
  <2>2. Deliver(ch, n) /\ inbox' \subseteq inbox /\ UNCHANGED <<callVars, asked>>
    BY <1>12 DEF Stray, chargerVars
  <2> HIDE DEF n
  <2>3. QED
    BY <1>10, <2>1, <2>2
<1>13. ASSUME UNCHANGED vars PROVE Provenance'
  BY <1>2, <1>13 DEF vars, callVars, fieldVars, chargerVars
<1>14. QED
  BY <1>1, <1>3, <1>4, <1>5, <1>6, <1>7, <1>8, <1>9, <1>11, <1>12, <1>13
     DEF Next, Wakes, Clock

LEMMA AlwaysProvenance == Spec => [](Typed /\ Provenance)
BY InitTyped, NextTyped, InitProvenance, NextProvenance, PTL DEF Spec

\* No call returns a notification that was there before it was made.
THEOREM NoStaleReply == Spec => []FreshReply
BY AlwaysProvenance, ProvenanceSuffices, PTL

\* No call returns the charger's answer to a different question.
THEOREM NoOtherAnswer == Spec => []SameQuestion
BY AlwaysProvenance, ProvenanceSuffices, PTL

-----------------------------------------------------------------------------
(* The promise of RequestReply is kept: a step of a call is a step of the  *)
(* promise, or none.                                                       *)

LEMMA PromisedInit == Init => Promise!Init
BY DEF Init, Promise!Init, Promise!Nothing, Result

\* A step that neither begins nor ends a call is not the caller's to see.
LEMMA PromisedStutter ==
  ASSUME UNCHANGED <<asked, outcome, reply>>, (phase = "idle") = (phase' = "idle")
  PROVE  UNCHANGED Promise!promiseVars
BY DEF Promise!promiseVars, Result

LEMMA PromisedFail ==
  ASSUME NEW error, error \notin {"none", "reply"}, phase # "idle", Fails(error), UNCHANGED asked
  PROVE  Promise!Fail
BY DEF Fails, Ends, Promise!Fail, Promise!Error, Result

LEMMA PromisedReturn ==
  ASSUME Typed, (Typed /\ Provenance)', phase # "idle", phase' = "idle", outcome' = "reply",
         UNCHANGED asked
  PROVE  Promise!Next
<1>1. FreshReply' /\ SameQuestion'
  BY ProvenanceSuffices, PTL
<1>2. reply'.for \in 0..Len(asked)
  BY DEF Provenance, Honest, Serial
<1>3. Promise!SameAsNow(reply'.for)
  BY <1>1 DEF SameQuestion, Current, Serial, Promise!SameAsNow
<1>4. Result' = Promise!Reply(reply'.for, Len(asked))
  BY <1>1 DEF FreshReply, Serial, Result, Promise!Reply
<1>5. Promise!Return(reply'.for)
  BY <1>3, <1>4 DEF Promise!Return
<1>6. QED
  BY <1>2, <1>5 DEF Promise!Next

LEMMA PromisedAsk ==
  ASSUME NEW r \in Requests, Ask(r)
  PROVE  Promise!Next
<1>1. phase = "idle" /\ asked' = Append(asked, r)
  BY DEF Ask
<1>2. CASE phase' = "idle"
  <2>1. outcome' \in {"notConnected", "linkGone", "notSubscribed", "notAvailable"}
    BY <1>2 DEF Ask, Obstacle
  <2>2. Promise!Refuse(r)
    BY <1>1, <1>2, <2>1 DEF Promise!Refuse, Promise!Error, Result
  <2>3. QED
    BY <2>2 DEF Promise!Next
<1>3. CASE phase' # "idle"
  <2>1. outcome' = "none"
    BY <1>1, <1>3 DEF Ask
  <2>2. Promise!Ask(r)
    BY <1>1, <1>3, <2>1 DEF Promise!Ask, Promise!Nothing, Result
  <2>3. QED
    BY <2>2 DEF Promise!Next
<1>4. QED
  BY <1>2, <1>3

LEMMA PromisedNext ==
  Typed /\ (Typed /\ Provenance)' /\ [Next]_vars => [Promise!Next]_Promise!promiseVars
<1> SUFFICES ASSUME Typed, (Typed /\ Provenance)', [Next]_vars
             PROVE  Promise!Next \/ UNCHANGED Promise!promiseVars
  OBVIOUS
<1>1. ASSUME NEW r \in Requests, Ask(r) PROVE Promise!Next
  BY <1>1, PromisedAsk
<1>2. ASSUME NEW error \in EaseeErrors \cup {"cancelled", "backendError", "attributeError"},
             phase # "idle", Fails(error), UNCHANGED asked
      PROVE  Promise!Next
  BY <1>2, PromisedFail DEF EaseeErrors, Promise!Next
<1>3. Silence \in EaseeErrors
  BY DEF Silence, EaseeErrors
<1>4. ASSUME WriteDone \/ Tick \/ Teardown \/ ChargerReceives PROVE UNCHANGED Promise!promiseVars
  BY <1>4, PromisedStutter DEF WriteDone, Tick, Teardown, ChargerReceives, callVars
<1>5. ASSUME LinkDrops \/ BeliefCatchesUp \/ DropReported PROVE UNCHANGED Promise!promiseVars
  BY <1>5, PromisedStutter DEF LinkDrops, BeliefCatchesUp, DropReported, callVars
<1>6. ASSUME WriteTimesOut \/ PairFails \/ WakeDropped \/ TimeOut \/ Cancel PROVE Promise!Next
  BY <1>2, <1>3, <1>6 DEF WriteTimesOut, PairFails, WakeDropped, TimeOut, Cancel, EaseeErrors
<1>7. ASSUME NextAttempt, phase # "idle", UNCHANGED asked PROVE UNCHANGED Promise!promiseVars
  BY <1>7, PromisedStutter DEF NextAttempt
<1>8. ASSUME WriteFails \/ WriteRefused PROVE Promise!Next \/ UNCHANGED Promise!promiseVars
  <2>1. phase = "writing" /\ UNCHANGED asked
    BY <1>8 DEF WriteFails, WriteRefused
  <2>2. \/ \E error \in {"backendError", "attributeError", "bondFirst"} : Fails(error)
        \/ phase' # "idle" /\ UNCHANGED <<outcome, reply>>
    BY <1>8 DEF WriteFails, WriteRefused
  <2>3. QED
    BY <1>2, <2>1, <2>2, PromisedStutter DEF EaseeErrors
<1>9. ASSUME PairDone \/ RetryWakes PROVE Promise!Next \/ UNCHANGED Promise!promiseVars
  <2>1. phase # "idle" /\ UNCHANGED asked /\ (Fails("attributeError") \/ NextAttempt)
    BY <1>9 DEF PairDone, RetryWakes
  <2>2. QED
    BY <1>2, <1>7, <2>1
<1>10. ASSUME WakeReply PROVE Promise!Next \/ UNCHANGED Promise!promiseVars
  <2>1. phase # "idle" /\ UNCHANGED asked
    BY <1>10 DEF WakeReply
  <2>2. \/ phase' = "idle" /\ outcome' = "reply"
        \/ Fails(Silence)
        \/ phase' # "idle" /\ UNCHANGED <<outcome, reply>>
    BY <1>10 DEF WakeReply, Ends
  <2>3. CASE phase' = "idle" /\ outcome' = "reply"
    BY <2>1, <2>3, PromisedReturn
  <2>4. CASE Fails(Silence)
    BY <1>2, <1>3, <2>1, <2>4
  <2>5. CASE phase' # "idle" /\ UNCHANGED <<outcome, reply>>
    BY <2>1, <2>5, PromisedStutter
  <2>6. QED
    BY <2>2, <2>3, <2>4, <2>5
<1>11. ASSUME NEW w \in inbox, Answer(w) PROVE UNCHANGED Promise!promiseVars
  BY <1>11, PromisedStutter DEF Answer, callVars
<1>12. ASSUME NEW ch \in Channels, NEW id \in CommandIds \cup {NoId}, Stray(ch, id)
       PROVE  UNCHANGED Promise!promiseVars
  BY <1>12, PromisedStutter DEF Stray, callVars
<1>13. ASSUME UNCHANGED vars PROVE UNCHANGED Promise!promiseVars
  BY <1>13, PromisedStutter DEF vars, callVars
<1>14. QED
  BY <1>1, <1>4, <1>5, <1>6, <1>8, <1>9, <1>10, <1>11, <1>12, <1>13 DEF Next, Wakes, Clock

\* _write_and_wait, among every failure of the write, the bond and the link,
\* keeps the promise its callers poll and perform are built on.
THEOREM PromiseKept == Spec => KeepsPromise
BY PromisedInit, PromisedNext, AlwaysProvenance, PTL DEF KeepsPromise, Promise!Spec, Spec

=============================================================================
