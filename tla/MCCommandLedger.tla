---------------------------- MODULE MCCommandLedger ----------------------------
(***************************************************************************)
(* An instance of CommandLedger for TLC.  Ids a and a_padded are one id    *)
(* once trimmed, and blank is white space.                                 *)
(***************************************************************************)
EXTENDS CommandLedger

MCTrim == [w \in WireIds |-> CASE w \in {"a", "a_padded"} -> "a"
                               [] OTHER -> Blank]

FaultBudget == [crash |-> 1, break |-> 1, db |-> 1]
================================================================================
