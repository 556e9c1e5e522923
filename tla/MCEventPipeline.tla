-------------------------- MODULE MCEventPipeline --------------------------
(* Instances of EventPipeline for TLC: days of two clock ticks, two        *)
(* classifications.                                                        *)
EXTENDS EventPipeline

MCClassOf == [e \in Events |-> IF e % 2 = 0 THEN "scanning" ELSE "command"]

(* The process runs in UTC, as the container does.                         *)
MCDay == [t \in Time |-> t \div 2]

(* The process runs one tick east of UTC.                                  *)
MCDayEast == [t \in Time |-> (t + 1) \div 2]
=============================================================================
