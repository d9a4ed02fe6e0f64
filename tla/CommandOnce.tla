------------------------------ MODULE CommandOnce ------------------------------
(***************************************************************************)
(* What the agent promises the hypervisor about commands: a command id is  *)
(* bound to the first request that names it, that request is performed at  *)
(* most once, its verdict is written down at most once, and every answer   *)
(* ever given for the id is backed by that verdict.  Nothing is said of    *)
(* sessions, queues, restarts or the database: CommandLedger implements    *)
(* this specification and has them all.                                    *)
(***************************************************************************)
EXTENDS Naturals, Sequences

CONSTANTS
    CommandIds,     \* the ids a command is recorded under
    Requests,       \* what a command may ask for (its type and its payload)
    Verdicts,       \* what performing a request may come to: "ok", "error"
    Unbound         \* the request of an id nobody has used

VARIABLES
    binding,        \* id -> the request the id stands for
    status,         \* id -> "absent", "running", "succeeded" or "failed"
    effects,        \* id -> the performances of the command, in order
    answers         \* every answer the hypervisor has been given

onceVars == <<binding, status, effects, answers>>

OnceInit ==
    /\ binding = [k \in CommandIds |-> Unbound]
    /\ status = [k \in CommandIds |-> "absent"]
    /\ effects = [k \in CommandIds |-> <<>>]
    /\ answers = {}

\* The first request under an id takes the id, for ever.
Claim(k, r) ==
    /\ status[k] = "absent"
    /\ status' = [status EXCEPT ![k] = "running"]
    /\ binding' = [binding EXCEPT ![k] = r]
    /\ UNCHANGED <<effects, answers>>

\* The bound request is performed while the id is running, and only once.
Perform(k, v) ==
    /\ status[k] = "running"
    /\ effects[k] = <<>>
    /\ effects' = [effects EXCEPT ![k] = <<[request |-> binding[k], verdict |-> v]>>]
    /\ UNCHANGED <<binding, status, answers>>

\* Success is recorded only of a performance that went well.
Succeed(k) ==
    /\ status[k] = "running"
    /\ effects[k] = <<[request |-> binding[k], verdict |-> "ok"]>>
    /\ status' = [status EXCEPT ![k] = "succeeded"]
    /\ UNCHANGED <<binding, effects, answers>>

\* Any running ids may be given up together, whatever became of them.
Fail(K) ==
    /\ \A k \in K : status[k] = "running"
    /\ status' = [k \in CommandIds |-> IF k \in K THEN "failed" ELSE status[k]]
    /\ UNCHANGED <<binding, effects, answers>>

\* The answer s is the truth about request r under id k.
Truthful(k, r, s) ==
    IF r = binding[k]
    THEN status[k] # "absent" /\ s \in {"running", status[k]}
    ELSE status[k] # "absent" /\ s = "failed"

Answer(k, r, s) ==
    /\ Truthful(k, r, s)
    /\ answers' = answers \cup {[key |-> k, request |-> r, status |-> s]}
    /\ UNCHANGED <<binding, status, effects>>

OnceNext ==
    \/ \E k \in CommandIds :
        \/ \E r \in Requests : Claim(k, r)
        \/ \E v \in Verdicts : Perform(k, v)
        \/ Succeed(k)
        \/ \E r \in Requests, s \in {"running", "succeeded", "failed"} : Answer(k, r, s)
    \/ \E K \in SUBSET CommandIds : Fail(K)

OnceSpec == OnceInit /\ [][OnceNext]_onceVars
================================================================================
