-------------------------------- MODULE JobLimit --------------------------------
(***************************************************************************)
(* What the worker pool promises to its callers: a limit on jobs that are  *)
(* taken and given back in one step each, whatever the pool does to get    *)
(* there.  A caller is let in while the pool is open, and then gets a job  *)
(* if there is one left and is refused only if there is none.  The drain   *)
(* reports an empty pool only when it is empty.                            *)
(*                                                                         *)
(* Closing the pool is not a barrier: who has been let in before may still *)
(* get a job.  That is all who may, and the jobs cannot outgrow them.      *)
(***************************************************************************)
EXTENDS Naturals, FiniteSets

CONSTANTS
    Callers,        \* who may ask for a job
    Limit           \* how many jobs there are

VARIABLES
    open,           \* new callers are let in
    entered,        \* callers let in, with no answer yet
    jobs,           \* callers that have a job
    verdict         \* what the drain has reported

limitVars == <<open, entered, jobs, verdict>>

LimitInit ==
    /\ open = TRUE
    /\ entered = {}
    /\ jobs = {}
    /\ verdict = "none"

Enter(c) ==
    /\ open
    /\ c \notin entered \cup jobs
    /\ entered' = entered \cup {c}
    /\ UNCHANGED <<open, jobs, verdict>>

Take(c) ==
    /\ c \in entered
    /\ Cardinality(jobs) < Limit
    /\ entered' = entered \ {c}
    /\ jobs' = jobs \cup {c}
    /\ UNCHANGED <<open, verdict>>

Refuse(c) ==
    /\ c \in entered
    /\ Cardinality(jobs) = Limit
    /\ entered' = entered \ {c}
    /\ UNCHANGED <<open, jobs, verdict>>

GiveBack(c) ==
    /\ c \in jobs
    /\ jobs' = jobs \ {c}
    /\ UNCHANGED <<open, entered, verdict>>

Close ==
    /\ open
    /\ open' = FALSE
    /\ UNCHANGED <<entered, jobs, verdict>>

ReportEmpty ==
    /\ verdict = "none"
    /\ jobs = {}
    /\ verdict' = "empty"
    /\ UNCHANGED <<open, entered, jobs>>

GiveUp ==
    /\ verdict = "none"
    /\ verdict' = "gave_up"
    /\ UNCHANGED <<open, entered, jobs>>

LimitNext ==
    \/ \E c \in Callers : Enter(c) \/ Take(c) \/ Refuse(c) \/ GiveBack(c)
    \/ Close \/ ReportEmpty \/ GiveUp

LimitSpec == LimitInit /\ [][LimitNext]_limitVars
================================================================================
