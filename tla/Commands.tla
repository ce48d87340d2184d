------------------------------ MODULE Commands ------------------------------
(***************************************************************************)
(* The builders of COMMAND requests (commands.py) that can refuse what     *)
(* they are given, and one of those that cannot.  A builder is an operator *)
(* whose value is the set of requests it builds: one, or none when it      *)
(* raises ValueError.  A request is its command and its arguments in the   *)
(* order of their ids; the JSON they are written in is left out.           *)
(***************************************************************************)
EXTENDS Integers, Sequences

CONSTANTS
  MaxAmps,   \* _MAX_AMPS
  Absent     \* None, for a phase that is not given

ASSUME AmpsAssumption == MaxAmps \in Nat /\ Absent \notin Int

ValueError == {}

Built(command, arguments) == {[id |-> command, arguments |-> arguments]}

InBounds(amperes) == 0 <= amperes /\ amperes <= MaxAmps

Amps(command, amperes) ==
  IF InBounds(amperes) THEN Built(command, <<amperes>>) ELSE ValueError

\* A bug: two phases are written as they are given.
ThreePhaseInPart(command, p1, p2, p3) ==
  IF \E p \in {p1, p2, p3} : p # Absent /\ ~InBounds(p) THEN ValueError
  ELSE IF p2 = Absent /\ p3 = Absent THEN Built(command, <<p1>>)
  ELSE IF p3 = Absent THEN Built(command, <<p1, p2>>)
  ELSE Built(command, <<p1, p2, p3>>)

\* One current for all three phases, or one for each.
ThreePhase(command, p1, p2, p3) ==
  IF \E p \in {p1, p2, p3} : p # Absent /\ ~InBounds(p) THEN ValueError
  ELSE IF p2 = Absent /\ p3 = Absent THEN Built(command, <<p1>>)
  ELSE IF p2 = Absent \/ p3 = Absent THEN ValueError
  ELSE Built(command, <<p1, p2, p3>>)

SetDynamicChargerCurrent(amperes) == Amps("SET_DYNAMIC_CHARGER_CURRENT", amperes)

PauseCharging == SetDynamicChargerCurrent(0)

ResumeCharging(amperes) ==
  IF amperes <= 0 THEN ValueError ELSE SetDynamicChargerCurrent(amperes)

SetMaxChargerCurrent(amperes) == Amps("SET_MAX_CHARGER_CURRENT", amperes)

\* The four commands that take a current for each phase.
CircuitCommands ==
  {"SET_CIRCUIT_RATED_CURRENT", "SET_MAX_CIRCUIT_CURRENT",
   "SET_DYNAMIC_CIRCUIT_CURRENT", "SET_FALLBACK_CIRCUIT_CURRENT"}

SetLedBrightness(percent) ==
  IF 0 <= percent /\ percent <= 100 THEN Built("SET_LED_BRIGHTNESS", <<percent>>) ELSE ValueError

SetPhaseMode(mode) ==
  IF mode \in 1..3 THEN Built("SET_PHASE_MODE", <<mode>>) ELSE ValueError

SetBtEnableMode(mode) ==
  IF mode \in {1, 3} THEN Built("SET_BT_ENABLE_MODE", <<mode>>) ELSE ValueError

\* Commands the charger runs on the id alone.
Bare(command) == Built(command, <<>>)

BareCommands == {"REBOOT", "RUN_SELF_TEST", "FACTORY_RESET", "GET_MID_PUBLIC_KEY"}

=============================================================================
