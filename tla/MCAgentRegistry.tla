---------------------------- MODULE MCAgentRegistry ----------------------------
(***************************************************************************)
(* Instances of AgentRegistry for TLC: assignments of one, two and three   *)
(* candidates over three dataplanes, the preferred one first, last or      *)
(* alone, and a back-off that doubles twice before it meets its maximum.   *)
(***************************************************************************)
EXTENDS AgentRegistry

Answer(p, c) == [preferred |-> p, candidates |-> c]

SeveralAssignments == {Answer("dp1", <<"dp1">>),
                       Answer("dp2", <<"dp2", "dp1">>),
                       Answer("dp1", <<"dp3", "dp2", "dp1">>)}
TwoCandidates == {Answer("dp1", <<"dp1", "dp2">>)}
OneCandidate == {Answer("dp1", <<"dp1">>)}
================================================================================
