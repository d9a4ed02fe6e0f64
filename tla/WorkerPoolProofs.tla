---------------------------- MODULE WorkerPoolProofs ----------------------------
(***************************************************************************)
(* The counter of the worker pool is exact and the capacity is kept, for   *)
(* any finite set of callers and any number of workers.  What makes the    *)
(* argument go through is what a caller knows between its load and its     *)
(* exchange: a starter read a number below the capacity, a finisher one    *)
(* above zero; an exchange only happens while that reading is still true.  *)
(***************************************************************************)
EXTENDS WorkerPool, FiniteSetTheorems, TLAPS

\* A caller's reading justifies the exchange it is about to try.
ReadingJustified ==
    \A c \in Callers :
        /\ at[c] = "counted" => seen[c] < MaxWorkers
        /\ at[c] = "finishing" => seen[c] >= 1

PoolInv == PoolTypeOK /\ InFlightIsJobs /\ ReadingJustified

\* The jobs are a finite set, so that they can be counted.
LEMMA JobsFinite == IsFiniteSet(Jobs) /\ Cardinality(Jobs) \in Nat
  <1>1. Jobs \subseteq Callers
    BY DEF Jobs
  <1>2. IsFiniteSet(Jobs)
    BY <1>1, CallersAssumption, FS_Subset
  <1> QED
    BY <1>2, FS_CardinalityType

\* A caller that leaves "counted" for "in" is one job more.
LEMMA JobAdded ==
    ASSUME at \in [Callers -> Places], NEW c \in Callers, at[c] = "counted",
           at' = [at EXCEPT ![c] = "in"]
    PROVE  Cardinality(Jobs') = Cardinality(Jobs) + 1
  <1>1. Jobs' = Jobs \union {c}
    BY DEF Jobs
  <1>2. c \notin Jobs
    BY DEF Jobs
  <1> QED
    BY <1>1, <1>2, JobsFinite, FS_AddElement

\* A caller that leaves "finishing" for "out" is one job less.
LEMMA JobRemoved ==
    ASSUME at \in [Callers -> Places], NEW c \in Callers, at[c] = "finishing",
           at' = [at EXCEPT ![c] = "out"]
    PROVE  Cardinality(Jobs') = Cardinality(Jobs) - 1
  <1>1. Jobs' = Jobs \ {c}
    BY DEF Jobs
  <1>2. c \in Jobs
    BY DEF Jobs
  <1> QED
    BY <1>1, <1>2, JobsFinite, FS_RemoveElement

\* While somebody has a job, the exact counter is not at zero: the early return
\* of finish_job is never taken.
LEMMA SomeJobCounts ==
    ASSUME InFlightIsJobs, NEW c \in Jobs
    PROVE  inFlight # 0
  <1>1. Jobs # {}
    OBVIOUS
  <1> QED
    BY <1>1, JobsFinite, FS_EmptySet DEF InFlightIsJobs
--------------------------------------------------------------------------------
\* The initial state satisfies the invariant.
LEMMA InitInv == PoolInit => PoolInv
  <1> SUFFICES ASSUME PoolInit PROVE PoolInv
    OBVIOUS
  <1>1. PoolTypeOK
    BY WorkersAssumption DEF PoolInit, PoolTypeOK, Places
  <1>2. Jobs = {}
    BY DEF PoolInit, Jobs
  <1>3. InFlightIsJobs
    BY <1>2, FS_EmptySet DEF PoolInit, InFlightIsJobs
  <1>4. ReadingJustified
    BY DEF PoolInit, ReadingJustified
  <1> QED
    BY <1>1, <1>3, <1>4 DEF PoolInv

\* A step that moves no caller into a job or out of one, and leaves the counter
\* alone, keeps the counter exact.
LEMMA SameJobs ==
    ASSUME InFlightIsJobs, Jobs' = Jobs, inFlight' = inFlight
    PROVE  InFlightIsJobs'
  BY DEF InFlightIsJobs

\* Every step of the pool preserves the invariant.
LEMMA StepInv == PoolInv /\ [PoolNext]_poolVars => PoolInv'
  <1> SUFFICES ASSUME PoolInv, [PoolNext]_poolVars PROVE PoolInv'
    OBVIOUS
  <1> USE DEF PoolInv
  <1>1. ASSUME NEW c \in Callers, CheckAccepting(c) PROVE PoolInv'
    <2>1. PoolTypeOK'
      BY <1>1 DEF CheckAccepting, PoolTypeOK, Places
    <2>2. Jobs' = Jobs
      BY <1>1 DEF CheckAccepting, PoolTypeOK, Jobs
    <2>3. InFlightIsJobs'
      BY <1>1, <2>2, SameJobs DEF CheckAccepting
    <2>4. ReadingJustified'
      BY <1>1 DEF CheckAccepting, PoolTypeOK, ReadingJustified
    <2> QED
      BY <2>1, <2>3, <2>4
  <1>2. ASSUME NEW c \in Callers, CountForStart(c) PROVE PoolInv'
    <2>1. PoolTypeOK'
      BY <1>2, WorkersAssumption DEF CountForStart, PoolTypeOK, Places
    <2>2. Jobs' = Jobs
      BY <1>2 DEF CountForStart, PoolTypeOK, Jobs
    <2>3. InFlightIsJobs'
      BY <1>2, <2>2, SameJobs DEF CountForStart
    <2>4. ReadingJustified'
      BY <1>2 DEF CountForStart, Room, PoolTypeOK, ReadingJustified
    <2> QED
      BY <2>1, <2>3, <2>4
  <1>3. ASSUME NEW c \in Callers, ExchangeForStart(c) PROVE PoolInv'
    <2>1. CASE UnchangedSince(c)
      <3>1. inFlight = seen[c] /\ inFlight' = seen[c] + 1 /\ seen[c] < MaxWorkers
        BY <1>3, <2>1 DEF ExchangeForStart, UnchangedSince, ReadingJustified
      <3>2. PoolTypeOK'
        BY <1>3, <2>1, <3>1, WorkersAssumption DEF ExchangeForStart, PoolTypeOK, Places
      <3>3. Cardinality(Jobs') = Cardinality(Jobs) + 1
        BY <1>3, <2>1, JobAdded DEF ExchangeForStart, PoolTypeOK
      <3>4. InFlightIsJobs'
        BY <3>1, <3>3 DEF InFlightIsJobs
      <3>5. ReadingJustified'
        BY <1>3, <2>1 DEF ExchangeForStart, PoolTypeOK, ReadingJustified
      <3> QED
        BY <3>2, <3>4, <3>5
    <2>2. CASE ~UnchangedSince(c)
      <3>1. PoolTypeOK'
        BY <1>3, <2>2 DEF ExchangeForStart, PoolTypeOK, Places
      <3>2. Jobs' = Jobs
        BY <1>3, <2>2 DEF ExchangeForStart, PoolTypeOK, Jobs
      <3>3. InFlightIsJobs'
        BY <1>3, <2>2, <3>2, SameJobs DEF ExchangeForStart
      <3>4. ReadingJustified'
        BY <1>3, <2>2 DEF ExchangeForStart, PoolTypeOK, ReadingJustified
      <3> QED
        BY <3>1, <3>3, <3>4
    <2> QED
      BY <2>1, <2>2
  <1>4. ASSUME NEW c \in Callers, CountForFinish(c) PROVE PoolInv'
    <2>1. c \in Jobs
      BY <1>4 DEF CountForFinish, Jobs
    <2>2. inFlight # 0
      BY <2>1, SomeJobCounts
    <2>3. at' = [at EXCEPT ![c] = "finishing"] /\ drain' = drain
      BY <1>4, <2>2 DEF CountForFinish
    <2>4. PoolTypeOK'
      BY <1>4, <2>3, WorkersAssumption DEF CountForFinish, PoolTypeOK, Places
    <2>5. Jobs' = Jobs
      BY <1>4, <2>3 DEF CountForFinish, PoolTypeOK, Jobs
    <2>6. InFlightIsJobs'
      BY <1>4, <2>5, SameJobs DEF CountForFinish
    <2>7. ReadingJustified'
      BY <1>4, <2>2, <2>3, WorkersAssumption DEF CountForFinish, PoolTypeOK, ReadingJustified
    <2> QED
      BY <2>4, <2>6, <2>7
  <1>5. ASSUME NEW c \in Callers, ExchangeForFinish(c) PROVE PoolInv'
    <2>1. CASE UnchangedSince(c)
      <3>1. inFlight = seen[c] /\ inFlight' = seen[c] - 1 /\ seen[c] >= 1
        BY <1>5, <2>1 DEF ExchangeForFinish, UnchangedSince, ReadingJustified
      <3>2. PoolTypeOK'
        BY <1>5, <2>1, <3>1, WorkersAssumption
        DEF ExchangeForFinish, PoolTypeOK, Places, Woken
      <3>3. Cardinality(Jobs') = Cardinality(Jobs) - 1
        BY <1>5, <2>1, JobRemoved DEF ExchangeForFinish, PoolTypeOK
      <3>4. InFlightIsJobs'
        BY <3>1, <3>3 DEF InFlightIsJobs
      <3>5. ReadingJustified'
        BY <1>5, <2>1 DEF ExchangeForFinish, PoolTypeOK, ReadingJustified
      <3> QED
        BY <3>2, <3>4, <3>5
    <2>2. CASE ~UnchangedSince(c)
      <3>1. PoolTypeOK'
        BY <1>5, <2>2 DEF ExchangeForFinish, PoolTypeOK, Places
      <3>2. Jobs' = Jobs
        BY <1>5, <2>2 DEF ExchangeForFinish, PoolTypeOK, Jobs
      <3>3. InFlightIsJobs'
        BY <1>5, <2>2, <3>2, SameJobs DEF ExchangeForFinish
      <3>4. ReadingJustified'
        BY <1>5, <2>2 DEF ExchangeForFinish, PoolTypeOK, ReadingJustified
      <3> QED
        BY <3>1, <3>3, <3>4
    <2> QED
      BY <2>1, <2>2
  <1>6. CASE StopAccepting \/ DrainStart \/ Draining \/ DrainTimeout
    <2>1. PoolTypeOK'
      BY <1>6 DEF StopAccepting, DrainStart, Draining, DrainCheck, DrainArm, DrainTimer,
                  DrainTimeout, PoolTypeOK
    <2>2. at' = at /\ seen' = seen /\ inFlight' = inFlight
      BY <1>6 DEF StopAccepting, DrainStart, Draining, DrainCheck, DrainArm, DrainTimer,
                  DrainTimeout
    <2>3. InFlightIsJobs' /\ ReadingJustified'
      BY <2>2 DEF InFlightIsJobs, Jobs, ReadingJustified
    <2> QED
      BY <2>1, <2>3
  <1>7. CASE UNCHANGED poolVars
    BY <1>7 DEF poolVars, PoolTypeOK, InFlightIsJobs, Jobs, ReadingJustified
  <1> QED
    BY <1>1, <1>2, <1>3, <1>4, <1>5, <1>6, <1>7 DEF PoolNext, Caller
--------------------------------------------------------------------------------
\* The invariant holds in every reachable state of the pool of
\* src/worker/pool.rs.
THEOREM PoolInvariance == PoolSpec => []PoolInv
  BY InitInv, StepInv, PTL DEF PoolSpec

\* Types: in particular the counter never passes max_workers (try_start_job
\* refuses a full pool) and never goes below zero (finish_job).
THEOREM PoolTypeCorrect == PoolSpec => []PoolTypeOK
  <1>1. PoolInv => PoolTypeOK
    BY DEF PoolInv
  <1> QED
    BY <1>1, PoolInvariance, PTL

\* try_start_job and finish_job keep the counter equal to the number of jobs,
\* however many callers race.
THEOREM CounterIsExact == PoolSpec => []InFlightIsJobs
  <1>1. PoolInv => InFlightIsJobs
    BY DEF PoolInv
  <1> QED
    BY <1>1, PoolInvariance, PTL

\* try_start_job never lets in more jobs than there are workers.
THEOREM CapacityKept == PoolSpec => []WithinCapacity
  <1>1. PoolInv => WithinCapacity
    BY DEF PoolInv, PoolTypeOK, InFlightIsJobs, WithinCapacity
  <1> QED
    BY <1>1, PoolInvariance, PTL
--------------------------------------------------------------------------------
\* Those let in are finitely many, as the callers are, so that they can be counted.
LEMMA EnteredTyped ==
    Entered \subseteq Callers /\ IsFiniteSet(Entered) /\ Cardinality(Entered) \in Nat
  <1>1. Entered \subseteq Callers
    BY DEF Entered
  <1>2. IsFiniteSet(Entered)
    BY <1>1, CallersAssumption, FS_Subset
  <1> QED
    BY <1>1, <1>2, FS_CardinalityType

\* Where each step of a caller takes it among those let in and those with a job.
LEMMA CallerMoves ==
    ASSUME PoolInv, NEW c \in Callers, Caller(c)
    PROVE  \/ /\ accepting /\ c \notin Entered \cup Jobs
              /\ Entered' = Entered \cup {c} /\ Jobs' = Jobs /\ inFlight' = inFlight
              /\ drain' = drain
           \/ /\ Entered' = Entered /\ Jobs' = Jobs /\ inFlight' = inFlight /\ drain' = drain
           \/ /\ c \in Entered /\ inFlight = MaxWorkers
              /\ Entered' = Entered \ {c} /\ Jobs' = Jobs /\ inFlight' = inFlight
              /\ drain' = drain
           \/ /\ c \in Entered /\ c \notin Jobs /\ inFlight < MaxWorkers
              /\ Entered' = Entered \ {c} /\ Jobs' = Jobs \cup {c} /\ drain' = drain
           \/ /\ c \in Jobs
              /\ Entered' = Entered /\ Jobs' = Jobs \ {c} /\ drain' \in {drain, Woken}
  <1> USE DEF PoolInv, PoolTypeOK, Entered, Jobs
  <1>1. CASE CheckAccepting(c)
    BY <1>1 DEF CheckAccepting
  <1>2. CASE CountForStart(c)
    <2>1. CASE Room(inFlight)
      BY <1>2, <2>1 DEF CountForStart
    <2>2. CASE ~Room(inFlight)
      <3>1. inFlight = MaxWorkers
        BY <2>2, WorkersAssumption DEF Room
      <3>2. at[c] = "starting" /\ at' = [at EXCEPT ![c] = "out"] /\ inFlight' = inFlight /\ drain' = drain
        BY <1>2, <2>2 DEF CountForStart
      <3>3. c \in Entered /\ Entered' = Entered \ {c} /\ Jobs' = Jobs
        BY <3>2
      <3> QED
        BY <3>1, <3>2, <3>3
    <2> QED
      BY <2>1, <2>2
  <1>3. CASE ExchangeForStart(c)
    <2>1. CASE UnchangedSince(c)
      <3>1. inFlight < MaxWorkers
        BY <1>3, <2>1 DEF ExchangeForStart, UnchangedSince, ReadingJustified
      <3>2. at[c] = "counted" /\ at' = [at EXCEPT ![c] = "in"] /\ drain' = drain
        BY <1>3, <2>1 DEF ExchangeForStart
      <3>3. c \in Entered /\ c \notin Jobs /\ Entered' = Entered \ {c} /\ Jobs' = Jobs \cup {c}
        BY <3>2
      <3> QED
        BY <3>1, <3>2, <3>3
    <2>2. CASE ~UnchangedSince(c)
      BY <1>3, <2>2 DEF ExchangeForStart
    <2> QED
      BY <2>1, <2>2
  <1>4. CASE CountForFinish(c)
    <2>1. c \in Jobs
      BY <1>4 DEF CountForFinish
    <2>2. inFlight # 0
      BY <2>1, SomeJobCounts
    <2> QED
      BY <1>4, <2>2 DEF CountForFinish
  <1>5. CASE ExchangeForFinish(c)
    <2>1. CASE UnchangedSince(c)
      <3>1. at[c] = "finishing" /\ at' = [at EXCEPT ![c] = "out"] /\ drain' \in {drain, Woken}
        BY <1>5, <2>1 DEF ExchangeForFinish
      <3>2. c \in Jobs /\ Entered' = Entered /\ Jobs' = Jobs \ {c}
        BY <3>1
      <3> QED
        BY <3>1, <3>2
    <2>2. CASE ~UnchangedSince(c)
      BY <1>5, <2>2 DEF ExchangeForFinish
    <2> QED
      BY <2>1, <2>2
  <1> QED
    BY <1>1, <1>2, <1>3, <1>4, <1>5 DEF Caller
--------------------------------------------------------------------------------
\* How the drain looks from outside.
DrainVerdict ==
    CASE drain = "drained" -> "empty"
      [] drain = "timed_out" -> "gave_up"
      [] OTHER -> "none"

\* Both modules count alike.
LEMMA SameCount == Limit!Cardinality(Jobs) = Cardinality(Jobs)
  BY DEF Limit!Cardinality, Cardinality

\* Every step of the pool is one of the limit's, or none.
LEMMA StepRefinesLimit == PoolInv /\ [PoolNext]_poolVars => [Limit!LimitNext]_(Limit!limitVars)
  <1> SUFFICES ASSUME PoolInv, [PoolNext]_poolVars
               PROVE  Limit!LimitNext \/ UNCHANGED Limit!limitVars
    OBVIOUS
  <1>0. inFlight = Cardinality(Jobs)
    BY DEF PoolInv, InFlightIsJobs
  <1>1. ASSUME NEW c \in Callers, Caller(c)
        PROVE  Limit!LimitNext \/ UNCHANGED Limit!limitVars
    <2>1. accepting' = accepting
      BY <1>1 DEF Caller, CheckAccepting, CountForStart, ExchangeForStart, CountForFinish,
                  ExchangeForFinish
    <2>2. drain' \in {drain, Woken} => DrainVerdict' = DrainVerdict
      BY DEF DrainVerdict, Woken
    <2>3. CASE /\ accepting /\ c \notin Entered \cup Jobs
               /\ Entered' = Entered \cup {c} /\ Jobs' = Jobs /\ inFlight' = inFlight
               /\ drain' = drain
      BY <2>1, <2>3 DEF Limit!Enter, Limit!LimitNext
    <2>4. CASE Entered' = Entered /\ Jobs' = Jobs /\ inFlight' = inFlight /\ drain' = drain
      BY <2>1, <2>4 DEF Limit!limitVars
    <2>5. CASE /\ c \in Entered /\ inFlight = MaxWorkers
               /\ Entered' = Entered \ {c} /\ Jobs' = Jobs /\ inFlight' = inFlight
               /\ drain' = drain
      BY <1>0, <2>1, <2>5, SameCount DEF Limit!Refuse, Limit!LimitNext
    <2>6. CASE /\ c \in Entered /\ c \notin Jobs /\ inFlight < MaxWorkers
               /\ Entered' = Entered \ {c} /\ Jobs' = Jobs \cup {c} /\ drain' = drain
      BY <1>0, <2>1, <2>6, SameCount DEF Limit!Take, Limit!LimitNext
    <2>7. CASE /\ c \in Jobs
               /\ Entered' = Entered /\ Jobs' = Jobs \ {c} /\ drain' \in {drain, Woken}
      <3>1. DrainVerdict' = DrainVerdict
        BY <2>2, <2>7
      <3> QED
        BY <2>1, <2>7, <3>1 DEF DrainVerdict, Limit!GiveBack, Limit!LimitNext
    <2> QED
      BY <1>1, <2>3, <2>4, <2>5, <2>6, <2>7, CallerMoves
  <1>2. CASE StopAccepting
    BY <1>2 DEF StopAccepting, Limit!Close, Limit!LimitNext, Entered, Jobs
  <1>3. CASE DrainStart \/ DrainArm \/ DrainTimer
    BY <1>3 DEF DrainStart, DrainArm, DrainTimer, TimerFires, Limit!limitVars, Entered, Jobs
  <1>4. CASE DrainCheck
    <2>1. CASE Idle
      <3>1. Jobs = {}
        BY <1>0, <2>1, JobsFinite, FS_EmptySet DEF Idle
      <3>2. Limit!ReportEmpty
        BY <1>4, <2>1, <3>1 DEF DrainCheck, Limit!ReportEmpty, Entered, Jobs
      <3> QED
        BY <3>2 DEF Limit!LimitNext
    <2>2. CASE ~Idle
      BY <1>4, <2>2 DEF DrainCheck, Limit!limitVars, Entered, Jobs
    <2> QED
      BY <2>1, <2>2
  <1>5. CASE DrainTimeout
    BY <1>5 DEF DrainTimeout, Limit!GiveUp, Limit!LimitNext, Entered, Jobs
  <1>6. CASE UNCHANGED poolVars
    BY <1>6 DEF poolVars, Limit!limitVars, Entered, Jobs
  <1> QED
    BY <1>1, <1>2, <1>3, <1>4, <1>5, <1>6 DEF PoolNext, Draining

\* try_start_job, finish_job and drain implement JobLimit, whatever the callers'
\* loads and exchanges do to one another.
THEOREM PoolImplementsLimit == PoolSpec => RefinesJobLimit
  <1>1. PoolInit => Limit!LimitInit
    BY DEF PoolInit, Limit!LimitInit, Entered, Jobs
  <1> QED
    BY <1>1, StepRefinesLimit, PoolInvariance, PTL DEF PoolSpec, RefinesJobLimit, Limit!LimitSpec
--------------------------------------------------------------------------------
\* The exchanges that are still to come once nobody is let in: two for each caller
\* that has no answer yet, one for each that has a job.
ExchangesLeft == 2 * Cardinality(Entered) + Cardinality(Jobs)

\* A closed pool runs dry: nobody joins those who were let in before, and the
\* counter can only change as often as they have exchanges left.
ClosedPoolRunsDry ==
    [][~accepting =>
        /\ Entered' \subseteq Entered
        /\ Jobs' \subseteq Jobs \cup Entered
        /\ ExchangesLeft' <= ExchangesLeft
        /\ inFlight' # inFlight => ExchangesLeft' < ExchangesLeft]_poolVars

\* One step of it.
LEMMA ClosedStep ==
    ASSUME PoolInv, [PoolNext]_poolVars, ~accepting
    PROVE  /\ Entered' \subseteq Entered
           /\ Jobs' \subseteq Jobs \cup Entered
           /\ ExchangesLeft' <= ExchangesLeft
           /\ inFlight' # inFlight => ExchangesLeft' < ExchangesLeft
  <1>0. /\ IsFiniteSet(Entered) /\ Cardinality(Entered) \in Nat
        /\ IsFiniteSet(Jobs) /\ Cardinality(Jobs) \in Nat
    BY EnteredTyped, JobsFinite
  <1>1. CASE UNCHANGED <<Entered, Jobs, inFlight>>
    BY <1>0, <1>1 DEF ExchangesLeft
  <1>2. ASSUME NEW c \in Callers, Caller(c)
        PROVE  /\ Entered' \subseteq Entered
               /\ Jobs' \subseteq Jobs \cup Entered
               /\ ExchangesLeft' <= ExchangesLeft
               /\ inFlight' # inFlight => ExchangesLeft' < ExchangesLeft
    <2>1. CASE c \in Entered /\ Entered' = Entered \ {c} /\ Jobs' = Jobs
      <3>1. Cardinality(Entered') = Cardinality(Entered) - 1
        BY <1>0, <2>1, FS_RemoveElement
      <3> QED
        BY <1>0, <2>1, <3>1 DEF ExchangesLeft
    <2>2. CASE c \in Entered /\ c \notin Jobs /\ Entered' = Entered \ {c} /\ Jobs' = Jobs \cup {c}
      <3>1. Cardinality(Entered') = Cardinality(Entered) - 1
        BY <1>0, <2>2, FS_RemoveElement
      <3>2. Cardinality(Jobs') = Cardinality(Jobs) + 1
        BY <1>0, <2>2, FS_AddElement
      <3> QED
        BY <1>0, <2>2, <3>1, <3>2 DEF ExchangesLeft
    <2>3. CASE c \in Jobs /\ Entered' = Entered /\ Jobs' = Jobs \ {c}
      <3>1. Cardinality(Jobs') = Cardinality(Jobs) - 1
        BY <1>0, <2>3, FS_RemoveElement
      <3> QED
        BY <1>0, <2>3, <3>1 DEF ExchangesLeft
    <2> QED
      BY <1>1, <1>2, <2>1, <2>2, <2>3, CallerMoves
  <1>3. CASE StopAccepting \/ DrainStart \/ Draining \/ DrainTimeout \/ UNCHANGED poolVars
    BY <1>1, <1>3 DEF StopAccepting, DrainStart, Draining, DrainCheck, DrainArm, DrainTimer,
                      DrainTimeout, poolVars, Entered, Jobs
  <1> QED
    BY <1>2, <1>3 DEF PoolNext

\* After stop_accepting only callers that were past its flag can get a job, and the
\* exchanges that fail and are tried again run out of others to fail on: this is
\* what lets the drain come to an end.
THEOREM ClosedPoolIsBounded == PoolSpec => ClosedPoolRunsDry
  <1>1. PoolInv /\ [PoolNext]_poolVars =>
          [~accepting =>
             /\ Entered' \subseteq Entered
             /\ Jobs' \subseteq Jobs \cup Entered
             /\ ExchangesLeft' <= ExchangesLeft
             /\ inFlight' # inFlight => ExchangesLeft' < ExchangesLeft]_poolVars
    BY ClosedStep
  <1> QED
    BY <1>1, PoolInvariance, PTL DEF PoolSpec, ClosedPoolRunsDry
================================================================================
