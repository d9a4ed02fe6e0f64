------------------------------- MODULE WorkerPool -------------------------------
(***************************************************************************)
(* The worker pool of src/worker/pool.rs: a lock-free count of the jobs in *)
(* flight, taken and given back by compare-and-exchange, a flag that stops *)
(* new jobs, and a drain that waits for the count to reach zero.  One      *)
(* action is one atomic operation; callers run on any thread.              *)
(***************************************************************************)
EXTENDS Naturals, FiniteSets

CONSTANTS
    Callers,        \* the threads that start and finish jobs
    MaxWorkers      \* max_workers, at least 1 by construction of the pool

ASSUME CallersAssumption == IsFiniteSet(Callers)
ASSUME WorkersAssumption == MaxWorkers \in Nat \ {0}

VARIABLES
    accepting,      \* the flag
    inFlight,       \* the counter
    at,             \* where each caller is: outside, starting a job, in it, ...
    seen,           \* what each caller last read from the counter
    drain           \* where the drain is

poolVars == <<accepting, inFlight, at, seen, drain>>

Places == {"out", "starting", "counted", "in", "finishing"}

\* Callers that have a job: try_start_job has returned true and finish_job has
\* not yet given the job back.
Jobs == {c \in Callers : at[c] \in {"in", "finishing"}}

PoolInit ==
    /\ accepting = TRUE
    /\ inFlight = 0
    /\ at = [c \in Callers |-> "out"]
    /\ seen = [c \in Callers |-> 0]
    /\ drain = "off"
--------------------------------------------------------------------------------
\* try_start_job: the flag, checked once.
CheckAccepting(c) ==
    /\ at[c] = "out"
    /\ accepting
    /\ at' = [at EXCEPT ![c] = "starting"]
    /\ UNCHANGED <<accepting, inFlight, seen, drain>>

\* try_start_job: the load of the counter; a full pool refuses.
RoomOffByOne(n) == n <= MaxWorkers
Room(n) == n < MaxWorkers

CountForStart(c) ==
    /\ at[c] = "starting"
    /\ seen' = [seen EXCEPT ![c] = inFlight]
    /\ at' = [at EXCEPT ![c] = IF Room(inFlight) THEN "counted" ELSE "out"]
    /\ UNCHANGED <<accepting, inFlight, drain>>

\* The counter is still what the caller read: its exchange succeeds.
UnchangedIgnored(c) == TRUE
UnchangedSince(c) == inFlight = seen[c]

\* try_start_job: the exchange; it is tried again from the load if it fails.
ExchangeForStart(c) ==
    /\ at[c] = "counted"
    /\ IF UnchangedSince(c)
       THEN inFlight' = seen[c] + 1 /\ at' = [at EXCEPT ![c] = "in"]
       ELSE inFlight' = inFlight /\ at' = [at EXCEPT ![c] = "starting"]
    /\ UNCHANGED <<accepting, seen, drain>>

\* notify_waiters reaches the drain only if it is waiting at that moment.
Woken == IF drain = "waiting" THEN "checking" ELSE drain

\* finish_job: the load; at zero it gives nothing back and only notifies.
CountForFinish(c) ==
    /\ at[c] = "in"
    /\ seen' = [seen EXCEPT ![c] = inFlight]
    /\ IF inFlight = 0
       THEN at' = [at EXCEPT ![c] = "out"] /\ drain' = Woken
       ELSE at' = [at EXCEPT ![c] = "finishing"] /\ drain' = drain
    /\ UNCHANGED <<accepting, inFlight>>

\* finish_job: the exchange; who takes the last job out notifies.
ExchangeForFinish(c) ==
    /\ at[c] = "finishing"
    /\ IF UnchangedSince(c)
       THEN /\ inFlight' = seen[c] - 1
            /\ at' = [at EXCEPT ![c] = "out"]
            /\ drain' = IF seen[c] <= 1 THEN Woken ELSE drain
       ELSE /\ at' = [at EXCEPT ![c] = "in"]
            /\ UNCHANGED <<inFlight, drain>>
    /\ UNCHANGED <<accepting, seen>>

StopAccepting ==
    /\ accepting
    /\ accepting' = FALSE
    /\ UNCHANGED <<inFlight, at, seen, drain>>

DrainStart ==
    /\ drain = "off"
    /\ drain' = "checking"
    /\ UNCHANGED <<accepting, inFlight, at, seen>>

\* What the drain waits for; finish_job notifies one job earlier.
IdleOffByOne == inFlight <= 1
Idle == inFlight = 0

\* The load of the counter, and then, a step later, the call to notified(): a
\* notification that falls between the two is not kept for the drain.
DrainCheck ==
    /\ drain = "checking"
    /\ drain' = IF Idle THEN "drained" ELSE "arming"
    /\ UNCHANGED <<accepting, inFlight, at, seen>>

DrainArm ==
    /\ drain = "arming"
    /\ drain' = "waiting"
    /\ UNCHANGED <<accepting, inFlight, at, seen>>

\* The 100 ms timer that runs beside the notification.
TimerDropped == FALSE
TimerFires == drain = "waiting"

DrainTimer ==
    /\ TimerFires
    /\ drain' = "checking"
    /\ UNCHANGED <<accepting, inFlight, at, seen>>

\* The deadline of the whole drain.
DrainTimeout ==
    /\ drain \in {"checking", "arming", "waiting"}
    /\ drain' = "timed_out"
    /\ UNCHANGED <<accepting, inFlight, at, seen>>

Caller(c) ==
    \/ CheckAccepting(c) \/ CountForStart(c) \/ ExchangeForStart(c)
    \/ CountForFinish(c) \/ ExchangeForFinish(c)

Draining == DrainCheck \/ DrainArm \/ DrainTimer

PoolNext ==
    \/ \E c \in Callers : Caller(c)
    \/ StopAccepting
    \/ DrainStart
    \/ Draining
    \/ DrainTimeout

PoolSpec == PoolInit /\ [][PoolNext]_poolVars

\* Threads are scheduled, jobs end and timers fire; nobody is bound to start a
\* job, to stop the pool or to give up a drain.
PoolFairSpec ==
    /\ PoolSpec
    /\ \A c \in Callers :
        /\ WF_poolVars(CountForStart(c)) /\ WF_poolVars(ExchangeForStart(c))
        /\ WF_poolVars(CountForFinish(c)) /\ WF_poolVars(ExchangeForFinish(c))
    /\ WF_poolVars(DrainCheck) /\ WF_poolVars(DrainArm) /\ WF_poolVars(DrainTimer)
--------------------------------------------------------------------------------
\* Types; the counter never passes the number of workers.
PoolTypeOK ==
    /\ accepting \in BOOLEAN
    /\ inFlight \in 0..MaxWorkers
    /\ at \in [Callers -> Places]
    /\ seen \in [Callers -> Nat]
    /\ drain \in {"off", "checking", "arming", "waiting", "drained", "timed_out"}

\* The counter is the number of jobs, however the exchanges of the callers
\* interleave: none is lost, counted twice or given back twice.
InFlightIsJobs == inFlight = Cardinality(Jobs)

\* There are never more jobs than workers, although every caller decides on a
\* count that may be old by the time it acts.
WithinCapacity == Cardinality(Jobs) <= MaxWorkers

\* Callers let in by the flag, with no answer yet.
Entered == {c \in Callers : at[c] \in {"starting", "counted"}}

Limit == INSTANCE JobLimit WITH
            Limit <- MaxWorkers,
            open <- accepting,
            entered <- Entered,
            jobs <- Jobs,
            verdict <- CASE drain = "drained" -> "empty"
                         [] drain = "timed_out" -> "gave_up"
                         [] OTHER -> "none"

\* The loads and exchanges of racing callers amount to jobs taken and given back in
\* one step each: nobody is refused while there is a job left, nobody gets one
\* beyond the last, and the drain ends well only in a moment without jobs.
RefinesJobLimit == Limit!LimitSpec

\* Once the pool has stopped accepting, a drain ends in the last job's wake: the
\* wake-up that falls between the drain's check and its wait is not missed for
\* good, and late starters cannot keep it going.
DrainEnds == (drain = "checking" /\ ~accepting) ~> drain \in {"drained", "timed_out"}

\* src/worker/pool.rs:81 says, after the flag is cleared, "worker pool stopped
\* accepting new jobs": from then on no job begins.
StoppedStartsNone == [][~accepting => Jobs' \subseteq Jobs]_poolVars
================================================================================
