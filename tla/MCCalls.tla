------------------------------ MODULE MCCalls -------------------------------
\* Values for the constants of Calls: two types of frame, fields that may be
\* absent and one that may not, and a name retired for that one.
EXTENDS Calls, TLC

MCNames == [t \in {"CONFIG", "STATE"} |->
              IF t = "CONFIG" THEN (1 :> "isEnabled")
              ELSE (1 :> "chargerOpMode" @@ 3 :> "totalPower")]
MCAliases == "opMode" :> "chargerOpMode"

MCWanted == {<<>>, <<"CONFIG">>, <<"CONFIG", "STATE">>, <<"COMMAND", "STATE">>}
MCAmperes == {-1, 0, 40, 41}
=============================================================================
