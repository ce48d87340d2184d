---------------------------- MODULE RequestReply ----------------------------
(***************************************************************************)
(* What a caller of EaseeCharger._write_and_wait is promised, with nothing *)
(* of how it is kept: a request, once made, ends once, with an error or    *)
(* with a reply; and the reply was delivered while the request was out and *)
(* answers the same question, unless it is a notification nobody asked     *)
(* for.  It may answer an earlier request that asked the same question.    *)
(*                                                                         *)
(* Module Exchange implements this, and module Calls is built on it.       *)
(***************************************************************************)
EXTENDS Naturals, Sequences

CONSTANT Requests   \* the questions that can be asked

VARIABLES
  made,    \* every request, the last one current
  open,    \* whether it is still out
  result   \* how it ended

promiseVars == <<made, open, result>>

Nothing == [is |-> "nothing", for |-> 0, during |-> 0]
Error   == [is |-> "error", for |-> 0, during |-> 0]

\* A reply: the request it answers, 0 for none, and the one it came during.
Reply(n, k) == [is |-> "reply", for |-> n, during |-> k]

\* Request n asked what is asked now.
SameAsNow(n) == n # 0 => made[n] = made[Len(made)]

-----------------------------------------------------------------------------
Ask(r) ==
  /\ ~open
  /\ made' = Append(made, r)
  /\ open' = TRUE
  /\ result' = Nothing

\* There is no connection to ask on: the call ends before it suspends.
Refuse(r) ==
  /\ ~open
  /\ made' = Append(made, r)
  /\ open' = FALSE
  /\ result' = Error

Return(n) ==
  /\ open
  /\ SameAsNow(n)
  /\ open' = FALSE
  /\ result' = Reply(n, Len(made))
  /\ UNCHANGED made

Fail ==
  /\ open
  /\ open' = FALSE
  /\ result' = Error
  /\ UNCHANGED made

Init ==
  /\ made = <<>>
  /\ open = FALSE
  /\ result = Nothing

Next ==
  \/ \E r \in Requests : Ask(r) \/ Refuse(r)
  \/ \E n \in 0..Len(made) : Return(n)
  \/ Fail

Spec == Init /\ [][Next]_promiseVars

=============================================================================
