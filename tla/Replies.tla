------------------------------ MODULE Replies -------------------------------
(***************************************************************************)
(* What is made of a reply once it is decoded (frames.py): the names of a  *)
(* frame's fields, the zeros of those that are absent, retired names, and  *)
(* whether an acknowledgement accepts its command.                         *)
(***************************************************************************)
EXTENDS Naturals

CONSTANTS
  Types,           \* MessageType
  Unidentified,    \* a type byte that is none of them: Frame.type is None
  Names,           \* FIELD_NAMES: of each type, field number -> name
  ZeroWhenAbsent,  \* ZERO_WHEN_ABSENT
  Aliases          \* FIELD_ALIASES: retired name -> name

NamesIn(type) == {Names[type][n] : n \in DOMAIN Names[type]}

\* What tests/test_invariants.py holds the tables to: a name is one field of
\* one type, and an alias is no name and points at one.
ASSUME NamesAssumption ==
  /\ Unidentified \notin Types
  /\ \A t \in Types : \A m, n \in DOMAIN Names[t] : Names[t][m] = Names[t][n] => m = n
  /\ \A t, u \in Types : t # u => NamesIn(t) \cap NamesIn(u) = {}
  /\ \A old \in DOMAIN Aliases :
       /\ \A t \in Types : old \notin NamesIn(t)
       /\ \E t \in Types : Aliases[old] \in NamesIn(t)

\* dict.update
Update(f, g) ==
  [x \in DOMAIN f \cup DOMAIN g |-> IF x \in DOMAIN g THEN g[x] ELSE f[x]]

\* Names retired for a name that is there answer with its value.
WithAliases(fields) ==
  [name \in DOMAIN fields \cup {old \in DOMAIN Aliases : Aliases[old] \in DOMAIN fields} |->
     IF name \in DOMAIN fields THEN fields[name] ELSE fields[Aliases[name]]]

NamesOf(frame) == IF frame.type \in Types THEN Names[frame.type] ELSE <<>>

NamedNumbers(frame) == DOMAIN frame.fields \cap DOMAIN NamesOf(frame)

\* A bug: every name that may be absent is filled in, whatever the type.
NamedWithAllZeros(frame) ==
  LET names == NamesOf(frame)
      here  == {names[n] : n \in NamedNumbers(frame)} IN
  WithAliases(
    [name \in here \cup ZeroWhenAbsent |->
       IF name \in here
       THEN frame.fields[CHOOSE n \in NamedNumbers(frame) : names[n] = name] ELSE 0])

\* Frame.named
Named(frame) ==
  LET names  == NamesOf(frame)
      here   == {names[n] : n \in NamedNumbers(frame)}
      zeroes == {names[n] : n \in DOMAIN names} \cap ZeroWhenAbsent IN
  WithAliases(
    [name \in here \cup zeroes |->
       IF name \in here
       THEN frame.fields[CHOOSE n \in NamedNumbers(frame) : names[n] = name] ELSE 0])

\* Frame.unknown, under the keys poll() gives them.
Unnamed(frame) ==
  [key \in {frame.type} \X (DOMAIN frame.fields \ DOMAIN NamesOf(frame)) |->
     frame.fields[key[2]]]

-----------------------------------------------------------------------------
\* What parse_command_response returns: JSON that may be no object, and of an
\* object its code, whether it has a comment, and what is under "res".
Acknowledgements ==
  {a \in [object : BOOLEAN, code : 0..1, comment : BOOLEAN,
          res : {"absent", "null", "nws only", "more"}] :
     ~a.object => a.code = 0 /\ ~a.comment /\ a.res = "absent"}

CommandAccepted(response) == response.code = 1

\* How command_refusal says why: an absent "res" is not asked for its keys,
\* a null one is, and has none.
CommandRefusal(response) ==
  IF CommandAccepted(response) THEN "none"
  ELSE IF response.comment THEN "comment"
  ELSE IF response.res = "null" THEN "TypeError"
  ELSE IF response.res = "more" THEN "the rest"
  ELSE "without a reason"

=============================================================================
