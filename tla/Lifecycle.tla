------------------------------- MODULE Lifecycle -------------------------------
(***************************************************************************)
(* The process from its start to its exit: main spawns the gRPC server,    *)
(* the dispatcher and the agent as tracked tasks, waits for a signal, and  *)
(* runs the shutdown sequence of src/app/lifecycle.rs against a deadline.  *)
(* The worker pool is WorkerPool's, with the dispatcher as its one caller; *)
(* the agent is a task that ends some time after the token is cancelled.   *)
(* The tasks of its sessions are not tracked, and both it and they run     *)
(* commands that block the thread they are on.                             *)
(***************************************************************************)
EXTENDS WorkerPool

CONSTANTS
    Dispatcher      \* the pool's caller

ASSUME OneCaller == Callers = {Dispatcher}

VARIABLES
    main,           \* the step main is at
    state,          \* AppStateStore
    cancelled,      \* the shutdown token
    late,           \* shutdown_timeout has elapsed since the shutdown began
    drained,        \* drain_tasks returned true
    closed,         \* close_transports returned true
    result,         \* what shutdown returned
    polling,        \* the dispatcher's flag
    dispatcher,     \* the dispatcher's task
    server,         \* the gRPC server's task
    running,        \* GrpcServer.running
    sender,         \* GrpcServer.shutdown_tx: "none", "stored" or "taken"
    stopper,        \* the task stop_accepting spawns, which takes the sender
    agent,          \* the agent's task
    spawned         \* the heartbeat, telemetry and refresh tasks of its sessions

mainVars == <<main, state, cancelled, drained, closed, result>>
serverVars == <<server, running, sender>>
agentVars == <<agent, spawned>>
vars == <<poolVars, mainVars, late, polling, dispatcher, serverVars, stopper, agentVars>>

Init ==
    /\ PoolInit
    /\ main = "serving"
    /\ state = "running"
    /\ cancelled = FALSE
    /\ late = FALSE
    /\ drained = FALSE
    /\ closed = FALSE
    /\ result = "none"
    /\ polling = TRUE
    /\ dispatcher = "asleep"
    /\ server = "new"
    /\ running = FALSE
    /\ sender = "none"
    /\ stopper = "none"
    /\ agent = "working"
    /\ spawned = "none"

\* The three tracked tasks, and what TaskTracker::wait waits for.
TrackedEndedButServer == dispatcher = "ended" /\ agent = "ended"
TrackedEnded == dispatcher = "ended" /\ server = "ended" /\ agent = "ended"
Waited == TrackedEnded

\* A thread of the runtime is in a command: virsh for telemetry, df or lspci for
\* the facts of the host.
ThreadBlocked == "blocked" \in {agent, spawned}
--------------------------------------------------------------------------------
\* Time: the deadline passes once the shutdown has begun.
Deadline ==
    /\ main \notin {"serving", "dropping", "exited"}
    /\ ~late
    /\ late' = TRUE
    /\ UNCHANGED <<poolVars, mainVars, polling, dispatcher, serverVars, stopper, agentVars>>

\* A signal arrives (or waiting for one fails): shutdown() begins.
Signal ==
    /\ main = "serving"
    /\ main' = "stop_server"
    /\ state' = "shutting_down"
    /\ UNCHANGED <<poolVars, cancelled, drained, closed, result, late, polling,
                   dispatcher, serverVars, stopper, agentVars>>

\* grpc_server.stop_accepting() leaves the work to a task of its own.
StopServer ==
    /\ main = "stop_server"
    /\ main' = "stop_pool"
    /\ stopper' = "spawned"
    /\ UNCHANGED <<poolVars, state, cancelled, drained, closed, result, late, polling,
                   dispatcher, serverVars, agentVars>>

StopPool ==
    /\ main = "stop_pool"
    /\ StopAccepting
    /\ main' = "stop_polling"
    /\ UNCHANGED <<state, cancelled, drained, closed, result, late, polling, dispatcher,
                   serverVars, stopper, agentVars>>

StopPolling ==
    /\ main = "stop_polling"
    /\ polling' = FALSE
    /\ main' = "cancel"
    /\ UNCHANGED <<poolVars, state, cancelled, drained, closed, result, late, dispatcher,
                   serverVars, stopper, agentVars>>

Cancel ==
    /\ main = "cancel"
    /\ cancelled' = TRUE
    /\ main' = "drain_pool"
    /\ UNCHANGED <<poolVars, state, drained, closed, result, late, polling, dispatcher,
                   serverVars, stopper, agentVars>>

\* drain_tasks, first half: worker_pool.drain.
DrainPool ==
    /\ main = "drain_pool"
    /\ \/ DrainStart /\ main' = main
       \/ Draining /\ main' = main
       \/ drain \in {"drained", "timed_out"} /\ main' = "drain_tasks" /\ UNCHANGED poolVars
    /\ UNCHANGED <<state, cancelled, drained, closed, result, late, polling, dispatcher,
                   serverVars, stopper, agentVars>>

\* The drain is given up at the deadline.
DrainExpires ==
    /\ main = "drain_pool"
    /\ late
    /\ DrainTimeout
    /\ UNCHANGED <<mainVars, late, polling, dispatcher, serverVars, stopper, agentVars>>

\* drain_tasks, second half: the wait for the tracked tasks.  With no time left
\* it is not even tried.
TimeoutForgotten == FALSE
TimedOut == late

DrainTasks ==
    /\ main = "drain_tasks"
    /\ \/ Waited /\ drained' = TRUE
       \/ TimedOut /\ drained' = FALSE
    /\ main' = "close_transports"
    /\ UNCHANGED <<poolVars, state, cancelled, closed, result, late, polling, dispatcher,
                   serverVars, stopper, agentVars>>

\* close_transports: nothing with no time left; otherwise grpc_server.shutdown
\* stops the server once more and waits while it runs.
CloseTransports ==
    /\ main = "close_transports"
    /\ \/ ~late /\ ~running /\ closed' = TRUE /\ stopper' = "spawned"
       \/ late /\ closed' = FALSE /\ stopper' \in {stopper, "spawned"}
    /\ main' = "close_dependencies"
    /\ UNCHANGED <<poolVars, state, cancelled, drained, result, late, polling, dispatcher,
                   serverVars, agentVars>>

\* close_dependencies sleeps 20 ms under the deadline, and the result is taken.
\* At the deadline itself the comparison in milliseconds may go either way.
StateIfClean(r) == IF r = "clean" THEN "stopped" ELSE "shutting_down"
FinalState(r) == "stopped"

CloseDependencies ==
    /\ main = "close_dependencies"
    /\ result' \in IF drained /\ closed
                   THEN IF late THEN {"clean", "timed_out"} ELSE {"clean"}
                   ELSE {"timed_out"}
    /\ state' = FinalState(result')
    /\ main' = "stopped"
    /\ UNCHANGED <<poolVars, cancelled, drained, closed, late, polling, dispatcher,
                   serverVars, stopper, agentVars>>

\* main returns, and the runtime is dropped: no task is polled again ...
Return ==
    /\ main = "stopped"
    /\ main' = "dropping"
    /\ UNCHANGED <<poolVars, state, cancelled, drained, closed, result, late, polling,
                   dispatcher, serverVars, stopper, agentVars>>

\* ... but the drop waits, without a limit, for threads that are within a poll.
Exit ==
    /\ main = "dropping"
    /\ ~ThreadBlocked
    /\ main' = "exited"
    /\ UNCHANGED <<poolVars, state, cancelled, drained, closed, result, late, polling,
                   dispatcher, serverVars, stopper, agentVars>>

Alive == main \notin {"dropping", "exited"}
Main ==
    \/ StopServer \/ StopPool \/ StopPolling \/ Cancel \/ DrainPool \/ DrainTasks
    \/ CloseTransports \/ CloseDependencies \/ Return \/ Exit
--------------------------------------------------------------------------------
OnlyDispatcher == UNCHANGED <<mainVars, late, serverVars, stopper, agentVars>>

\* The dispatcher's select: the token, or 500 ms.
DispatcherCancelled ==
    /\ Alive
    /\ dispatcher = "asleep"
    /\ cancelled
    /\ polling' = FALSE
    /\ dispatcher' = "ended"
    /\ OnlyDispatcher /\ UNCHANGED poolVars

DispatcherWakes ==
    /\ Alive
    /\ dispatcher = "asleep"
    /\ dispatcher' = "awake"
    /\ OnlyDispatcher /\ UNCHANGED <<poolVars, polling>>

\* The flags: it stops when it no longer polls, goes back to sleep when the pool
\* refuses, and starts a job otherwise.
DispatcherLooks ==
    /\ Alive
    /\ dispatcher = "awake"
    /\ \/ ~polling /\ dispatcher' = "ended" /\ UNCHANGED poolVars
       \/ polling /\ ~accepting /\ dispatcher' = "asleep" /\ UNCHANGED poolVars
       \/ polling /\ CheckAccepting(Dispatcher) /\ dispatcher' = "busy"
    /\ OnlyDispatcher /\ UNCHANGED polling

\* try_start_job, the job of 150 ms and finish_job, one atomic step at a time.
DispatcherWorks ==
    /\ Alive
    /\ dispatcher = "busy"
    /\ \/ CountForStart(Dispatcher) \/ ExchangeForStart(Dispatcher)
       \/ CountForFinish(Dispatcher) \/ ExchangeForFinish(Dispatcher)
    /\ dispatcher' = IF at'[Dispatcher] = "out" THEN "asleep" ELSE "busy"
    /\ OnlyDispatcher /\ UNCHANGED polling

OnlyServer == UNCHANGED <<poolVars, mainVars, late, polling, dispatcher, agentVars>>

\* The gRPC task: a bind address that does not parse ends it at once.
ServerRefuses ==
    /\ Alive
    /\ server = "new"
    /\ server' = "ended"
    /\ OnlyServer /\ UNCHANGED <<running, sender, stopper>>

ServerStarts ==
    /\ Alive
    /\ server = "new"
    /\ server' = "starting"
    /\ sender' = "stored"
    /\ OnlyServer /\ UNCHANGED <<running, stopper>>

ServerRuns ==
    /\ Alive
    /\ server = "starting"
    /\ server' = "serving"
    /\ running' = TRUE
    /\ OnlyServer /\ UNCHANGED <<sender, stopper>>

\* serve_with_shutdown ends with the token, with the sender's signal or with an
\* error of its own, and only then does running become false.
ServerStops ==
    /\ Alive
    /\ server = "serving"
    /\ server' = "stopping"
    /\ OnlyServer /\ UNCHANGED <<running, sender, stopper>>

ServerEnds ==
    /\ Alive
    /\ server = "stopping"
    /\ running' = FALSE
    /\ server' = "ended"
    /\ OnlyServer /\ UNCHANGED <<sender, stopper>>

\* The spawned task takes the sender, if there is one, and signals the server.
StopperRuns ==
    /\ Alive
    /\ stopper = "spawned"
    /\ stopper' = "done"
    /\ sender' = IF sender = "stored" THEN "taken" ELSE sender
    /\ OnlyServer /\ UNCHANGED <<server, running>>

OnlyAgent == UNCHANGED <<poolVars, mainVars, late, polling, dispatcher, serverVars, stopper>>

\* The agent's task ends by itself, on an error, or because of the token.
AgentEnds ==
    /\ Alive
    /\ agent = "working"
    /\ agent' = "ended"
    /\ OnlyAgent /\ UNCHANGED spawned

\* It collects the facts of the host, at its start or for an inventory.
AgentBlocks ==
    /\ Alive
    /\ agent = "working"
    /\ agent' = "blocked"
    /\ OnlyAgent /\ UNCHANGED spawned

AgentReturns ==
    /\ agent = "blocked"
    /\ agent' = "working"
    /\ OnlyAgent /\ UNCHANGED spawned

\* A session spawns tasks that only it knows of.
SessionSpawns ==
    /\ Alive
    /\ agent = "working"
    /\ spawned = "none"
    /\ spawned' = "going"
    /\ OnlyAgent /\ UNCHANGED agent

\* Telemetry runs its virsh commands within one poll; nothing bounds them.
VirshRuns ==
    /\ Alive
    /\ spawned = "going"
    /\ spawned' = "blocked"
    /\ OnlyAgent /\ UNCHANGED agent

VirshReturns ==
    /\ spawned = "blocked"
    /\ spawned' = "going"
    /\ OnlyAgent /\ UNCHANGED agent

\* The tasks end with the token, or where the abort nobody waits for takes effect.
SpawnedEnd ==
    /\ Alive
    /\ spawned = "going"
    /\ spawned' = "none"
    /\ OnlyAgent /\ UNCHANGED agent

Next ==
    \/ Deadline \/ Signal \/ Main \/ DrainExpires
    \/ DispatcherCancelled \/ DispatcherWakes \/ DispatcherLooks \/ DispatcherWorks
    \/ ServerRefuses \/ ServerStarts \/ ServerRuns \/ ServerStops \/ ServerEnds
    \/ StopperRuns \/ AgentEnds \/ AgentBlocks \/ AgentReturns
    \/ SessionSpawns \/ VirshRuns \/ VirshReturns \/ SpawnedEnd

Spec == Init /\ [][Next]_vars

\* Once told to stop, a server stops and an agent ends.
StopRequested == cancelled \/ sender = "taken"

\* main is polled, whatever else hangs.
FairSpec == Spec /\ WF_vars(Main)

\* The clock goes on and timers fire, which takes a thread of the runtime that is
\* not in a command.
ClockRuns == WF_vars(DrainExpires) /\ WF_vars(Deadline)

\* Tasks are polled and timers fire.  The server is bound to stop, and the agent
\* to end, only when told to, and the agent's own commands return; nobody is bound
\* to send a signal, and a session's tasks to nothing.
TasksRun ==
    /\ WF_vars(DispatcherCancelled \/ DispatcherWakes)
    /\ WF_vars(DispatcherLooks) /\ WF_vars(DispatcherWorks)
    /\ WF_vars(ServerRefuses \/ ServerStarts) /\ WF_vars(ServerRuns)
    /\ WF_vars(StopRequested /\ ServerStops) /\ WF_vars(ServerEnds)
    /\ WF_vars(StopperRuns)
    /\ WF_vars(AgentReturns) /\ SF_vars(cancelled /\ AgentEnds)
--------------------------------------------------------------------------------
\* Types; and the published state goes with the step main is at.
TypeOK ==
    /\ PoolTypeOK
    /\ state = CASE main = "serving" -> "running"
                 [] main \in {"stopped", "dropping", "exited"} -> "stopped"
                 [] OTHER -> "shutting_down"
    /\ main \in {"serving", "stop_server", "stop_pool", "stop_polling", "cancel",
                 "drain_pool", "drain_tasks", "close_transports",
                 "close_dependencies", "stopped", "dropping", "exited"}
    /\ {cancelled, late, drained, closed, polling, running} \subseteq BOOLEAN
    /\ result \in {"none", "clean", "timed_out"}
    /\ dispatcher \in {"asleep", "awake", "busy", "ended"}
    /\ server \in {"new", "starting", "serving", "stopping", "ended"}
    /\ sender \in {"none", "stored", "taken"}
    /\ stopper \in {"none", "spawned", "done"}
    /\ agent \in {"working", "blocked", "ended"}
    /\ spawned \in {"none", "going", "blocked"}

\* A shutdown that reports Clean has waited for the tracked tasks, the server's
\* among them, and no job is in flight, not even one that started after the drain
\* had seen none.  The tasks of the agent's last session are not tracked: some may
\* still go on, in a command even.
CleanMeansDrained ==
    result = "clean" => TrackedEnded /\ inFlight = 0 /\ Jobs = {} /\ ~running

\* close_transports is only ever entered, with time left, when the server has
\* already stopped: its wait, whose check and notified() are two steps that a
\* notification can fall between, never has to wait.
TransportNeverWaits == main = "close_transports" /\ ~late => ~running

\* Every wait of the shutdown is under the deadline, and main returns whatever the
\* tasks do.  The process is then gone, unless a command that a thread has run
\* since before never returns.
ShutdownTerminates ==
    ClockRuns => (main = "stop_server"
                    ~> main = "exited" \/ [](main = "dropping" /\ ThreadBlocked))

\* If the tracked tasks heed the token before the deadline, the shutdown is clean.
CleanIfInTime == TasksRun /\ [](~late) => (main = "stop_server" ~> result = "clean")
================================================================================
