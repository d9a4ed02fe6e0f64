------------------------------ MODULE MCTelemetry ------------------------------
(* An instance of Telemetry for TLC: a byte that two entries may count, and a *)
(* clock set back or ahead of itself.                                         *)
EXTENDS Telemetry

Twice == [f \in Files |-> 2]
ForthAndBack == {-70, 30}
================================================================================
