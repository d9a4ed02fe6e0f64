---------------------------- MODULE LifecycleProofs ----------------------------
(***************************************************************************)
(* A clean shutdown has left no tracked task and no job behind, for a pool *)
(* of any size.  The sequence reports Clean on two booleans it took        *)
(* earlier; what makes them still true is that a tracked task that has     *)
(* ended stays so, and that the dispatcher, the pool's one caller, cannot  *)
(* end within a job.                                                       *)
(***************************************************************************)
EXTENDS Lifecycle, WorkerPoolProofs

\* The steps of the agent's task and of its sessions' tasks.
AgentMoves ==
    \/ AgentEnds \/ AgentBlocks \/ AgentReturns
    \/ SessionSpawns \/ VirshRuns \/ VirshReturns \/ SpawnedEnd

\* Every step does to the pool what the pool allows.
LEMMA PoolSteps == [Next]_vars => [PoolNext]_poolVars
  <1> SUFFICES ASSUME [Next]_vars PROVE [PoolNext]_poolVars
    OBVIOUS
  <1>1. Dispatcher \in Callers
    BY OneCaller
  <1>2. CASE Main
    BY <1>2 DEF Main, StopServer, StopPool, StopPolling, Cancel, DrainPool, DrainTasks,
                CloseTransports, CloseDependencies, Return, Exit, PoolNext
  <1>3. CASE Deadline \/ Signal \/ DrainExpires
    BY <1>3 DEF Deadline, Signal, DrainExpires, PoolNext
  <1>4. CASE DispatcherCancelled \/ DispatcherWakes \/ DispatcherLooks \/ DispatcherWorks
    BY <1>1, <1>4 DEF DispatcherCancelled, DispatcherWakes, DispatcherLooks, DispatcherWorks,
                      PoolNext, Caller
  <1>5. CASE ServerRefuses \/ ServerStarts \/ ServerRuns \/ ServerStops \/ ServerEnds
                \/ StopperRuns
    BY <1>5 DEF ServerRefuses, ServerStarts, ServerRuns, ServerStops, ServerEnds,
                StopperRuns, OnlyServer
  <1>7. CASE AgentMoves
    BY <1>7 DEF AgentMoves, AgentEnds, AgentBlocks, AgentReturns, SessionSpawns, VirshRuns,
                VirshReturns, SpawnedEnd, OnlyAgent
  <1>6. CASE UNCHANGED vars
    BY <1>6 DEF vars
  <1> QED
    BY <1>2, <1>3, <1>4, <1>5, <1>6, <1>7 DEF Next, AgentMoves

\* So the counter is as exact as the pool keeps it.
LEMMA PoolKept == Spec => []PoolInv
  <1>1. Init => PoolInv
    BY InitInv DEF Init
  <1>2. PoolInv /\ [Next]_vars => PoolInv'
    BY PoolSteps, StepInv
  <1> QED
    BY <1>1, <1>2, PTL DEF Spec
\* The whole process, with its signals, tasks and deadlines, uses the pool as a pool:
\* what the pool's proofs say of every behaviour holds inside the process.
THEOREM LifecycleImplementsPool == Spec => PoolSpec
  <1>1. Init => PoolInit
    BY DEF Init
  <1> QED
    BY <1>1, PoolSteps, PTL DEF Spec, PoolSpec

\* So the jobs of the process keep the limit, shutdown included, and a drain of the
\* shutdown sequence that ends well saw a moment without jobs.
THEOREM LifecycleKeepsLimit == Spec => RefinesJobLimit
  BY LifecycleImplementsPool, PoolImplementsLimit
--------------------------------------------------------------------------------
\* The dispatcher is outside the pool unless it is busy.
IdleOutside == dispatcher # "busy" => at[Dispatcher] = "out"

\* The flag goes with the server's task.
RunningServes == running <=> server \in {"serving", "stopping"}

\* What the sequence has noted of its waits is still true.
NotedStillTrue ==
    /\ drained => TrackedEnded
    /\ main = "close_transports" => drained \/ late
    /\ result = "clean" => drained
    /\ main \notin {"stopped", "dropping", "exited"} => result = "none"

LifeInv == TypeOK /\ PoolInv /\ IdleOutside /\ RunningServes /\ NotedStillTrue

\* The initial state satisfies the invariant.
LEMMA LifeInit == Init => LifeInv
  <1> SUFFICES ASSUME Init PROVE LifeInv
    OBVIOUS
  <1>1. PoolInv /\ PoolTypeOK
    BY InitInv DEF Init, PoolInv
  <1>2. TypeOK
    BY <1>1 DEF Init, TypeOK
  <1>3. IdleOutside
    BY OneCaller DEF Init, PoolInit, IdleOutside
  <1>4. RunningServes /\ NotedStillTrue
    BY DEF Init, RunningServes, NotedStillTrue
  <1> QED
    BY <1>1, <1>2, <1>3, <1>4 DEF LifeInv

\* Every step preserves it.
LEMMA LifeStep == LifeInv /\ [Next]_vars => LifeInv'
  <1> SUFFICES ASSUME LifeInv, [Next]_vars PROVE LifeInv'
    OBVIOUS
  <1> USE DEF LifeInv, agentVars
  <1>1. PoolInv' /\ PoolTypeOK'
    BY PoolSteps, StepInv DEF PoolInv
  <1>2. CASE Main
    <2>1. UNCHANGED <<at, dispatcher, late, server, running, sender, agentVars>>
      BY <1>2 DEF Main, StopServer, StopPool, StopPolling, Cancel, DrainPool, DrainTasks,
                  CloseTransports, CloseDependencies, Return, Exit, poolVars, serverVars, StopAccepting,
                  DrainStart, Draining, DrainCheck, DrainArm, DrainTimer
    <2>2. TypeOK'
      <3>1. CASE StopServer
        BY <1>1, <2>1, <3>1 DEF TypeOK, StopServer
      <3>2. CASE StopPool
        BY <1>1, <2>1, <3>2 DEF TypeOK, StopPool
      <3>3. CASE StopPolling
        BY <1>1, <2>1, <3>3 DEF TypeOK, StopPolling
      <3>4. CASE Cancel
        BY <1>1, <2>1, <3>4 DEF TypeOK, Cancel
      <3>5. CASE DrainPool
        BY <1>1, <2>1, <3>5 DEF TypeOK, DrainPool
      <3>6. CASE DrainTasks
        BY <1>1, <2>1, <3>6 DEF TypeOK, DrainTasks
      <3>7. CASE CloseTransports
        BY <1>1, <2>1, <3>7 DEF TypeOK, CloseTransports
      <3>8. CASE CloseDependencies
        BY <1>1, <2>1, <3>8 DEF TypeOK, CloseDependencies, FinalState
      <3>9. CASE Return
        BY <1>1, <2>1, <3>9 DEF TypeOK, Return
      <3>10. CASE Exit
        BY <1>1, <2>1, <3>10 DEF TypeOK, Exit
      <3> QED
        BY <1>2, <3>1, <3>2, <3>3, <3>4, <3>5, <3>6, <3>7, <3>8, <3>9, <3>10 DEF Main
    <2>3. IdleOutside' /\ RunningServes'
      BY <2>1 DEF IdleOutside, RunningServes
    <2>4. NotedStillTrue'
      <3>1. CASE DrainTasks
        <4>1. result' = result /\ main' = "close_transports" /\ result = "none"
          BY <3>1 DEF DrainTasks, NotedStillTrue
        <4> QED
          BY <2>1, <3>1 DEF NotedStillTrue, TrackedEnded, Waited, TimedOut, DrainTasks
      <3>2. CASE CloseDependencies
        BY <2>1, <3>2 DEF NotedStillTrue, TrackedEnded, TypeOK, CloseDependencies
      <3>3. CASE StopServer \/ StopPool \/ StopPolling \/ Cancel \/ DrainPool
                    \/ CloseTransports \/ Return \/ Exit
        <4>1. /\ drained' = drained /\ result' = result /\ main' # "close_transports"
              /\ main \in {"stopped", "dropping", "exited"} => main' \in {"dropping", "exited"}
          BY <3>3 DEF StopServer, StopPool, StopPolling, Cancel, DrainPool, CloseTransports,
                      Return, Exit
        <4> QED
          BY <2>1, <4>1 DEF NotedStillTrue, TrackedEnded
      <3> QED
        BY <1>2, <3>1, <3>2, <3>3 DEF Main
    <2> QED
      BY <1>1, <2>2, <2>3, <2>4
  <1>3. CASE Deadline \/ Signal \/ DrainExpires
    <2>1. UNCHANGED <<at, dispatcher, server, running, agentVars, drained, result>>
      BY <1>3 DEF Deadline, Signal, DrainExpires, DrainTimeout, poolVars, mainVars, serverVars
    <2>2. TypeOK'
      BY <1>1, <1>3 DEF TypeOK, Deadline, Signal, DrainExpires, mainVars, serverVars
    <2>3. IdleOutside' /\ RunningServes'
      BY <2>1 DEF IdleOutside, RunningServes
    <2>4. NotedStillTrue'
      BY <1>3, <2>1 DEF NotedStillTrue, TrackedEnded, Deadline, Signal, DrainExpires, mainVars
    <2> QED
      BY <1>1, <2>2, <2>3, <2>4
  <1>4. CASE DispatcherCancelled \/ DispatcherWakes \/ DispatcherLooks \/ DispatcherWorks
    <2>1. UNCHANGED <<mainVars, late, serverVars, stopper, agentVars>> /\ dispatcher # "ended"
      BY <1>4 DEF DispatcherCancelled, DispatcherWakes, DispatcherLooks, DispatcherWorks,
                  OnlyDispatcher
    <2>2. polling' \in BOOLEAN /\ dispatcher' \in {"asleep", "awake", "busy", "ended"}
      BY <1>4 DEF TypeOK, DispatcherCancelled, DispatcherWakes, DispatcherLooks, DispatcherWorks
    <2>3. TypeOK'
      BY <1>1, <2>1, <2>2 DEF TypeOK, mainVars, serverVars
    <2>4. IdleOutside'
      BY <1>4 DEF IdleOutside, DispatcherCancelled, DispatcherWakes, DispatcherLooks,
                  DispatcherWorks, poolVars
    <2>5. RunningServes' /\ NotedStillTrue'
      BY <2>1 DEF RunningServes, NotedStillTrue, TrackedEnded, mainVars, serverVars
    <2> QED
      BY <1>1, <2>3, <2>4, <2>5
  <1>5. CASE ServerRefuses \/ ServerStarts \/ ServerRuns \/ ServerStops \/ ServerEnds
                \/ StopperRuns
    <2>1. UNCHANGED <<poolVars, mainVars, late, polling, dispatcher, agentVars>>
      BY <1>5 DEF ServerRefuses, ServerStarts, ServerRuns, ServerStops, ServerEnds,
                  StopperRuns, OnlyServer
    <2>2. /\ server' \in {"new", "starting", "serving", "stopping", "ended"}
          /\ sender' \in {"none", "stored", "taken"} /\ stopper' \in {"none", "spawned", "done"}
          /\ running' \in BOOLEAN
      BY <1>5 DEF TypeOK, ServerRefuses, ServerStarts, ServerRuns, ServerStops, ServerEnds,
                  StopperRuns
    <2>6. TypeOK'
      BY <1>1, <2>1, <2>2 DEF TypeOK, mainVars
    <2>7. RunningServes'
      BY <1>5 DEF RunningServes, ServerRefuses, ServerStarts, ServerRuns, ServerStops, ServerEnds,
                  StopperRuns
    <2>3. IdleOutside'
      BY <2>1 DEF IdleOutside, poolVars
    <2>4. server = "ended" => server' = "ended"
      BY <1>5 DEF ServerRefuses, ServerStarts, ServerRuns, ServerStops, ServerEnds, StopperRuns
    <2>5. NotedStillTrue'
      BY <2>1, <2>4 DEF NotedStillTrue, TrackedEnded, mainVars
    <2> QED
      BY <1>1, <2>3, <2>5, <2>6, <2>7
  <1>6. CASE AgentMoves
    <2>1. OnlyAgent
      BY <1>6 DEF AgentMoves, AgentEnds, AgentBlocks, AgentReturns, SessionSpawns, VirshRuns,
                  VirshReturns, SpawnedEnd
    <2>2. /\ agent' \in {"working", "blocked", "ended"} /\ spawned' \in {"none", "going", "blocked"}
          /\ agent = "ended" => agent' = "ended"
      BY <1>6 DEF TypeOK, AgentMoves, AgentEnds, AgentBlocks, AgentReturns, SessionSpawns,
                  VirshRuns, VirshReturns, SpawnedEnd
    <2>3. TypeOK'
      BY <1>1, <2>1, <2>2 DEF TypeOK, OnlyAgent, mainVars, serverVars
    <2>4. IdleOutside' /\ RunningServes' /\ NotedStillTrue'
      BY <2>1, <2>2 DEF IdleOutside, RunningServes, NotedStillTrue, TrackedEnded, OnlyAgent,
                        poolVars, mainVars, serverVars
    <2> QED
      BY <1>1, <2>3, <2>4
  <1>7. CASE UNCHANGED vars
    BY <1>1, <1>7 DEF vars, TypeOK, IdleOutside, RunningServes, NotedStillTrue, TrackedEnded,
                      poolVars, mainVars, serverVars
  <1> QED
    BY <1>2, <1>3, <1>4, <1>5, <1>6, <1>7 DEF Next, AgentMoves

\* The invariant holds in every state of every behaviour.
THEOREM LifecycleInvariance == Spec => []LifeInv
  BY LifeInit, LifeStep, PTL DEF Spec
--------------------------------------------------------------------------------
\* The published state (AppStateStore) goes with the step main is at, and flags and
\* tasks have their types.
THEOREM LifecycleTyped == Spec => []TypeOK
  <1>1. LifeInv => TypeOK
    BY DEF LifeInv
  <1> QED
    BY <1>1, LifecycleInvariance, PTL

\* A shutdown that returns Clean has left no tracked task, no job in flight, not
\* even one that began after the drain had seen none, and no server.
THEOREM CleanIsDrained == Spec => []CleanMeansDrained
  <1>1. LifeInv => CleanMeansDrained
    <2> SUFFICES ASSUME LifeInv, result = "clean"
                 PROVE  TrackedEnded /\ inFlight = 0 /\ Jobs = {} /\ ~running
      BY DEF CleanMeansDrained
    <2>1. TrackedEnded
      BY DEF LifeInv, NotedStillTrue
    <2>2. at[Dispatcher] = "out" /\ ~running
      BY <2>1 DEF LifeInv, IdleOutside, RunningServes, TrackedEnded
    <2>3. Jobs = {}
      BY <2>2, OneCaller DEF Jobs
    <2>4. inFlight = 0
      BY <2>3, FS_EmptySet DEF LifeInv, PoolInv, InFlightIsJobs
    <2> QED
      BY <2>1, <2>2, <2>3, <2>4
  <1> QED
    BY <1>1, LifecycleInvariance, PTL

\* close_transports with time left finds the server stopped: the check and the
\* notified() of grpc_server.shutdown, which a notification can fall between, never wait.
THEOREM TransportDoesNotWait == Spec => []TransportNeverWaits
  <1>1. LifeInv => TransportNeverWaits
    BY DEF LifeInv, NotedStillTrue, RunningServes, TrackedEnded, TransportNeverWaits
  <1> QED
    BY <1>1, LifecycleInvariance, PTL
================================================================================
