# Verification of the Aurora KVM agent

TLA+ modules, TLC runs and TLAPS proofs about the agent of this repository
(`src/src/`, Rust). Paths below are relative to `src/src/` unless they start
with another directory of the repository.

## 1. The system

The agent is one process on a KVM host. `main.rs` builds an `AppContext` and
spawns three tracked tasks: a gRPC health server, a worker dispatcher and the
hypervisor agent. It then waits for a signal and runs a shutdown sequence.

| component | source | state it keeps | operations | what makes it correct |
|---|---|---|---|---|
| command ledger | `agent/command_ledger.rs` | one SQLite row per command id: payload hash, status, error | `open` (gives up rows left "running"), `begin_or_get`, `complete` | at most one execution per id over redeliveries, sessions and crashes; recorded verdicts never change; success is only said of what succeeded |
| message handler | `agent/registration.rs`, `agent/command_handler.rs` | a position in one sequential future | Command, RegisterAck, HeartbeatAck and other frames | claims before it executes, completes before it answers |
| agent supervisor | `agent/registry.rs` | assignment cache, selector (index, back-off), loop back-off | resolve, session, rotate, refresh, stop | complete rotation, bounded back-off, settles on the preferred target, stops when told |
| session tasks | `agent/heartbeat.rs`, `agent/frames.rs`, `agent/registry.rs` | sequence counter, bounded channel | heartbeat, answers, refresh | order of sequence numbers, tasks that end with their session or soon after |
| telemetry loop | `agent/telemetry.rs` | the last readings, their time stamp | read, report what was gained, push | nothing reported twice, rates that stay bounded, stops when told |
| enrolment, identity store | `agent/bootstrap.rs`, `repository/vm.rs` | four files: key, certificate, CA bundle, runtime target | `ensure_identity`, `bootstrap_enroll`, `save_identity`, `load_identity` | the files fit together across crashes; a one-time token is not wasted |
| worker pool | `worker/pool.rs` | `accepting` flag, `in_flight` counter, a `Notify` | `try_start_job`, `finish_job`, `stop_accepting`, `drain` | exact count, capacity, a drain that ends |
| worker dispatcher | `worker/dispatcher.rs` | `polling` flag | a loop with a select on a sleep and the token | heeds the token, gives its jobs back |
| gRPC server | `transport/grpc/server.rs` | `running`, `shutdown_tx`, a `Notify` | `run`, `stop_accepting`, `shutdown` | stops when told, no lost wake-up |
| lifecycle | `app/lifecycle.rs`, `app/state.rs`, `main.rs` | published state, shutdown token, deadline | the shutdown sequence | returns by its deadline; "clean" means that tasks and jobs were waited for |
| host facts, configuration, logging | `service/`, `config/`, `telemetry/` | none after start | read once | - |
| installer, unit file | `install.sh`, `uninstall.sh`, `package/` | environment file, CA bundle | run by an operator | - |

Interactions. The supervisor calls `ensure_identity` each time round, then the
controlplane for an assignment, then opens a session with a dataplane. A
session is a bidirectional stream: frames from the hypervisor are handled one
at a time, inline in the session's select loop, with the ledger shared by all
sessions of the process; result frames, acknowledgements and heartbeats share
one bounded channel of 100. A refresh task per session ends it when the
preferred target has changed. The tasks of a session are spawned without being
tracked; the session aborts them when it ends and waits for none. The
dispatcher is the pool's only caller today, but the pool is written for many.
The shutdown sequence stops the server, the pool and the dispatcher, cancels
the token all tasks watch, and waits for pool, tracked tasks and server under
one deadline. Commands (`virsh`, `df`) run within a poll, so that the thread
they are on does nothing else meanwhile.

What is hard: crashes between a row and its completion, redelivery over a new
stream, a database that fails one statement, ids reused for other payloads;
rotation and back-off across failures; compare-and-exchange accounting and
notifications that nobody keeps; aborts that nobody waits for and threads in a
blocking command; a deadline that may pass at any await; identity files written
one after the other and never synced; differences of counters that fall, over
the interval of a clock that is set. `PROJECT.json` lists each hazard with its
line and the properties that stand against it.

## 2. Modules

    CommandOnce  <-- refines --  CommandLedger  <-- CommandLedgerProofs
                                                       ^ extends
                                                    CommandOnceProofs
    AgentRegistry      its sessions from outside    <-- AgentRegistryProofs
    AgentSession       one after another, inside    <-- AgentSessionProofs
    Telemetry          the loop of each session     <-- TelemetryProofs
    Enrollment                                      <-- EnrollmentProofs
    JobLimit  <-- refines --  WorkerPool            <-- WorkerPoolProofs
                                 ^ extends             ^ extends
                              Lifecycle             <-- LifecycleProofs

`MC*` modules extend these with the values the runs need.

**CommandOnce** is the promise made to the hypervisor: an id is bound to one
request for ever, its status goes from running to one verdict, and answers
report it. **CommandLedger** is how the code keeps it. `ledger` is the table (a
row for every trimmed id, "absent" if there is none), `pc`/`cmd`/`reply` are
the handler between two awaits, `inbound`/`outbound` the stream and the
session's channel, `effects` and `answers` histories of what was executed and
of what the hypervisor has heard. `BeginNew`, `BeginExisting`, `BeginMismatch`,
`BeginRejected` and `BeginFault` are the outcomes of `begin_or_get` (its insert
included; `BeginFault` may leave the row inserted, because the insert is read
back), `Execute` is `execute_agent_command`, `Complete`/`CompleteFault` are
`complete`, `SendReply`/`SendFails` the awaited send, `Restart` is
`CommandLedger::open` with `mark_stale_running_failed`. `Break` leaves the
handler where it is, for the session's loop only sees the broken stream when
the handler has returned, and `Connect` therefore waits for an idle handler.
Ids are trimmed by the table of the constant `Trim`; type and payload are one
model value, up to their hash. The verdict "ok" is what the `Result` of
`execute_agent_command` allows; at this commit every command type ends in
"error".

**AgentRegistry** is `connect_hypervisor`: one control state per await
(`identity`, `resolve`, `attempt`, `session`, the two sleeps), the cache, the
selector (`index`, `selBackoff`), the loop's back-off, the refresh task's
message (`changed`) and the token. The controlplane's present answer is
`directory`, changed by `Reassign` up to a bound. Sleeps and expiries are
events, back-offs are numbers. An error of `ensure_identity` ends the loop, as
the `?` in the code does. `failed`, `paused`, `losses` and `lastError` are
histories for the properties.

**AgentSession** is `run_session`. Each session has its counter (`next`), its
channel (`chan`, with the transport's end `rx`), its tasks, and the two frames
that may be waiting for room: the heartbeat's (`beat`) and the message
handler's (`answer`, with `attempt` for the host inventory). `Tick` and
`Handle` take a number, `HeartbeatSends` and `HandlerSends` put its frame into
the channel, which is where two tasks can change places. `TelemetryFails` is
the `?` that leaves `run_session` past the heartbeat task, which then still has
a sender of its own and so keeps the request stream (`Release`); `Ended` is
every other way out, with its three aborts. An abort only marks a task
(`aborted`): it takes effect when the task is next polled (`AbortLands`), which
is never as long as telemetry's thread is in a `virsh` command (`VirshRuns`,
`blocked`). What the handler decides about a command is CommandLedger's, and
why the next session follows is AgentRegistry's.

**Enrollment** is `ensure_identity` and `bootstrap_enroll` over the identity
files. A certificate, CA bundle or target is known by the number of the
enrolment that brought it (0 is the installer's CA bundle), keys are numbered
as they are made. `write_file` replaces a file by a rename, so to the running
system a file is old or new and never half; its failure, a crash or a lost
answer can fall between any two. `Usable` is `has_usable_client_certificate`.
`IdentityMisread` and `KeyMisread` are the reads whose errors the code takes
for absence. The controlplane takes a token once; the default token of the
configuration is one it does not take. A rename is not a `sync_all`: `unsynced`
is the set of files whose contents are still in the kernel's cache and `synced`
what the disk itself holds; `WriteBack` brings the two together, and
`PowerLoss` leaves each file that was not written back as it is, as it was
before, empty (which every reader takes for missing) or `Garbled` (`Survives`).
A garbled certificate is not usable, with a garbled CA bundle no channel opens,
and a garbled key is kept and then refused (`CsrFails`). The installer's run
(`BringToken`) is one step: it lays down the CA bundle, if TLS needs one, and
the token.

**Telemetry** is `run_telemetry_loop`, over the sessions that start and abort
it: a session is opened only before the token is cancelled (`SessionOpens`) but
starts its loop without another look at it (`Begin`). `last` is `last_io` and
`last_cpu`, `gap` how far the wall clock says it is from the last reading,
`real` how long it has been. `Sample` is `build_snapshot` up to the push: the
differences (`Sub`, `saturating_sub`), the elapsed time (`Elapsed`), the share
of the CPU (`Share`), and the new readings kept before the push. A counter file
that cannot be read gives zero and a CPU reading that cannot be made none
(`Unread`). `read_io_stats` sums all entries of a file, so that a byte may be
counted by a disk and its partition, or by an interface, a bridge and a tap:
`Move` adds one to the sum for each, up to `Layers`. `read_cpu_stats` sums all
fields of the line, in which the time of guests stands twice (`Total`,
`Ticks`). The kernel is outside: traffic, CPU time (`Spin`), a device that
leaves with its counts (`DeviceLeaves`), a clock that is set (`SetClock`).
Rates are left as bytes over tenths of a second: their division loses nothing
the properties see. `bytes`, `moved`, `reported`, `skipped`, `since`, `spent`
and `missed` are histories.

**JobLimit** is the promise made to the pool's callers: a caller is let in
while the pool is open, gets a job if there is one left and is refused only if
there is none, each in one step; the drain reports an empty pool only when it
is empty. Closing is no barrier in it, because it is none in the code: who has
been let in may still get a job. **WorkerPool** is how the code keeps it, one
action per atomic operation: the load and the compare-and-exchange of a caller
are two steps, as are the drain's check and its call of `notified()`; a
notification reaches only a drain that waits. `Entered` and `Jobs` read off a
caller's position whether it was let in and whether it has a job.
**Lifecycle** extends it with `main`, the dispatcher as the pool's one caller,
the gRPC server with the task that takes its shutdown sender, the agent as a
task that ends some time after the token, and the tasks of its sessions
(`spawned`), which the tracker does not know. The agent and those tasks may be
in a command (`ThreadBlocked`). Each await of the shutdown sequence is a step,
and the deadline can pass at each of them. main's return drops the runtime
(`Return`), after which no task is polled; the process is gone (`Exit`) when no
thread is in a command any more.

## 3. Runs

| run | what it shows | instance |
|---|---|---|
| `command_ledger` | at most one execution, truthful and agreeing answers, final verdicts, no stranded row, refinement of CommandOnce; a command that keeps being sent is answered for good | one id in two spellings, a blank id, two requests, one crash, one break, one failed statement, a stream and a channel of one frame |
| `session` | numbers neither lost nor doubled, at most one frame overtaken at a time; told to stop, the session and its tasks end, and the tasks of a session that is over end once its stream is gone, all but a loop whose `virsh` never returns | one session, a channel of two, frames numbered to six and further only after the channel is dropped, three attempts, one broken stream |
| `registry` | rotation, back-off, settling, and stopping unless a call that is never answered holds the loop | one to three candidates with the preferred one first, in front of others or last; five failures, two reassignments |
| `registry_transient` | violated: a transient enrolment failure ends the loop | one candidate |
| `registry_pause` | violated: no pause after the last candidate | one candidate |
| `registry_reassigned` | violated: a refresh ends a session although nothing was reassigned | two candidates |
| `pool` | exact count, refinement of JobLimit (capacity, no refusal while there is room, a truthful drain), the drain ends | four callers, two workers |
| `pool_late_start` | violated: a job begins after `stop_accepting` | two callers, one worker |
| `lifecycle` | a clean shutdown leaves no tracked task, job or server behind, the transport wait never waits, the deadline ends every wait and only a blocking command holds the process after it, and tasks that heed the token in time make the shutdown clean | three tracked tasks, any of which may hang, and the untracked ones of a session |
| `telemetry` | nothing reported twice, rates above the true ones at most as often as entries count a byte, the share of the CPU is that of its window, the loop stops | one counter file to two, its bytes counted once or twice, one unit of CPU time of any kind, one failed reading, one device that leaves, one setting of the clock |
| `enrollment` | certificate fits key, target marks completion, no wasted token, an identity in the end unless the key was garbled | both transports, one crash or failure, one power loss, one misread, one expiry, one visit of the installer |
| `enrollment_half_saved` | violated: a half-saved identity is reused | TLS, one crash |

Why the bounds suffice. Each property of the ledger is about one id and the
history of one handler; a second request is what a reused id needs, a second
spelling what trimming needs; that ids do not touch each other, also when the
table is reopened, is in the proofs, which are for any set of ids. A channel of
one is full as soon as it is not empty. One fault of each kind, in any order
and at any step, already gives a crash after a break after a failed statement;
the proofs remove the bounds. In the registry three candidates have a first, a
middle and a last; the back-off 2, 4, 7 doubles once and then meets its
maximum. A session's record shares nothing with another's but the token and the
bound on breaks, so one session is enough for properties that are of each
session alone; the safety ones are proved for any number. A channel of two with
six numbers has it full, with a heartbeat and an answer waiting, and more
behind them. Four callers on two workers let two starters race for the last
slot while two finish. The shutdown has no bound. The two counter files of
telemetry are read, subtracted and kept alike and do not touch each other, so
one of them is enough, with its bytes counted once or twice; an interval is
fifty tenths of a second, and the clock is set by -70 (to before the last
reading) or +30. One fault of enrolment falls at any step of one; the installer
that starts it anew, the operator, a misread and a power loss, each at any step
too, give the interruptions that follow one another.

Deadlock checking is off in the pool, lifecycle, session and telemetry runs,
where the system does stop (a process that has exited; callers that may stay
away from a pool that refuses them; no session after the shutdown or the last
of the bound; a telemetry loop that has stopped). It is on elsewhere; the end
of the registry's loop is a stuttering step of its own (`Ended`).

## 4. Fairness

- Ledger: the handler is polled by its task (`Handler`), tonic drains the
  channel of a live stream (`Transmit`; one that no longer is drained, without
  breaking, is assumed away), the supervisor reconnects (`Connect`), systemd
  restarts what died (`Restart`; `Restart=on-failure` in
  `package/aurora-kvm-agent.service`). Redelivery is not assumed:
  `EventuallyAnswered` has "is sent again and again" as its hypothesis. Two
  more hypotheses exclude what the code does nothing about: blank ids that
  never cease, each of which ends the session, and a failed `complete`, after
  which the answer is "running" until the process restarts.
- Registry: `FairSpec` has the task polled and its timers fire, and no more.
  Failures, expiry and reassignment are under no obligation, and neither are
  answers: calls have a connect timeout but none for the answer, and do not
  watch the token. What a property needs beyond that is a hypothesis with a
  name: `StopsAfterShutdown` assumes that a session acts on the token
  (`SessionsHeed`, which is `StopsOnShutdown` of AgentSession) and excepts a
  loop held for ever by a call (`Calling`); `SettlesOnPreferred` assumes that
  calls are answered (`CallsEnd`) and the refresh task with them
  (`RefreshRuns`), and holds for controlplanes whose preferred target is among
  the candidates, in the same spelling (`AssignmentAssumption` and the
  assignments of the run); otherwise every refresh ends the session.
- Session: calls are answered or fail, the sends and the heartbeat's timer are
  served, and tonic drains an open stream. `SessionStops` and the heartbeat's
  `TaskStops` are strongly fair: `select!` without `biased` picks among its
  ready branches at random, so a token that is ready each time round is seen
  although frames or ticks keep coming. `AbortLands` is strongly fair, for a
  task that yields again and again is polled with its abort pending. Nothing
  obliges a stream to end, a transport to let go of a channel, or `virsh` to
  return. That a connection which stays up is drained is assumed away from the
  code: on one that is not, a send waits for ever and the token is not seen.
- Pool: callers that have begun an operation go on, jobs end, the drain's timer
  fires. Nobody has to start a job.
- Lifecycle: `FairSpec` says that main is polled. `ShutdownTerminates` has the
  clock as its hypothesis (`ClockRuns`), whatever the tasks do, and ends in the
  process gone or held by a blocked thread for ever; `CleanIfInTime` has tasks
  that are polled and heed the token, and commands of the agent that return
  (`TasksRun`), before the deadline.
- Telemetry: a push is answered or fails, which the code has no timeout for,
  and `Stop` is strongly fair, as in the session. Nothing obliges time to pass,
  or a session to start or to end its loop.
- Enrollment: the code runs, systemd restarts a dead process, and an operator
  who finds the loop stopped brings a token. The last is an assumption about
  people: after a failed enrolment the process stays up doing nothing.
  `EventuallyEnrolled` excepts a garbled key, which nobody's token helps.

## 5. Proofs

**CommandLedgerProofs**, for all ids, requests, bounds and numbers of faults.
`TypeCorrect` needs the handler's position in the invariant (`HandlerBusy`):
the frames it sends are typed because the command and the outcome it holds are.
`Invariance` is the inductive invariant behind the rest. None of the safety
properties is inductive: that an id is executed once depends on the handler
holding a claimed row that is still running and has no execution under it yet,
on a row without a request never having been executed, and on every result on
its way (in `reply`, in the channel, in `answers`) agreeing with the row it was
taken from. The proof has one lemma per kind of step. `ExecutedAtMostOnce`,
`ExecutedWhatWasClaimed`, `SuccessIsBacked`, `AnswersNeverDiffer`,
`VerdictIsFinal` and `NothingStranded` follow from it. They rest on the
module's assumptions about constants: trimming gives an id or a blank, a
missing request is no request, the channel has a slot.

**WorkerPoolProofs**, for any finite set of callers and any capacity. The exact
count is not inductive alone: between its load and its exchange a caller relies
on what it read, so `ReadingJustified` says that a starter read less than the
capacity and a finisher more than zero. With it `PoolTypeCorrect`,
`CounterIsExact` and `CapacityKept` follow; the proof also shows that the early
return of `finish_job` on a zero counter is never taken. `PoolImplementsLimit`
shows that the pool implements JobLimit, which states the property
`RefinesJobLimit` of the run: a load that finds the pool full is where a caller
is refused, an exchange that succeeds where it takes or gives back a job, and
every other step of a caller after the flag is a stutter (`CallerMoves`).
`ClosedPoolIsBounded` is about a pool that has stopped accepting: those let in
only become fewer, only they can get a job, and the counter can change at most
twice for each of them and once for each job (`ExchangesLeft`). A
compare-and-exchange fails only on another's, so there are finitely many
retries; that the drain then ends under fairness is `DrainEnds`, which stays
with TLC.

**EnrollmentProofs**, for any numbers of faults, misreads, expiries, power
losses and visits of the installer. `CertFitsKey` is about the disk, but what
is written there comes from the enrolment under way, and a key may have been
read several enrolments ago. The argument is that a key is made only where
there is none: while no read has failed and no file was lost, all enrolments
there have been were for one key (`OneKey`), and no file is garbled before a
power loss (`NoneGarbled`). `SavedSoFar` says what `save_identity` has replaced
at each of its steps, for `TargetMarksCompletion`; `InNeed`, that on the way to
the controlplane there is no live identity, for `TokenSpentOnlyInNeed`; both
need the CA bundle a TLS bootstrap begins with (`CaProvisioned`).
`IdentityTyped`, `CertificateFits`, `TargetIsLast` and `TokenIsNeeded` follow.
Where a misread or a power loss is excluded, the statements say so: without
that they are false. `ReusesEnrolledUndisturbed` bounds the damage of the
half-saved identity of section 6: as long as no crash, failed write,
reinstallation or power loss has been, every identity in use was saved to the
end. It needs `SavedSoFar` within `save_identity` and, outside of it, that only
what spends one of these budgets leaves it early (`WholeSave`).

**AgentRegistryProofs**, for any targets, assignments, back-offs and bounds.
With the types, `NoRetryWithinRound` is inductive: in a round the positions
that failed are exactly those before the selector's, so the failure that
exhausts them completes the set. `RegistryTyped`, `RotationIsComplete` and the
action property `CacheKeptUntilExhausted` follow. `BackoffIsExact` compares a
number with a recursive function of the losses. That the equation of
`PowerOfTwo` defines it is an induction, which is done here by the least
counterexample (`LeastNumber`, from the well-foundedness of the naturals):
finite prefixes of the function exist for every length (`PowersExist`), the
last of them satisfies the equation, and so does what the equation chooses
(`PowerOfTwoDef`). Then doubling up to the maximum goes with counting one more
loss (`DoubledCounts`), also where the count itself has met its bound: by
`LossesAssumption` the back-off has met its maximum there, so the bound of the
model hides nothing. `PausedWithinRound` is what is left of the logged retry
time: within a round every attempt after a failure follows a pause.
`StoppingIsFinite` is the safety half of `StopsAfterShutdown`: once the token
is cancelled every step that moves the loop lowers a measure (`Nearer`: first
whether the round is still to begin, then four for each candidate left and up
to four for the position at this one), so that it can move only finitely often,
for any candidates, failures and reassignments. The other half, that a step
which is due is taken, is fairness.

**AgentSessionProofs**, for any capacity and any number of sessions, attempts,
frames and breaks. Sessions share nothing but the token, so the invariant
(`SessionOK`) is one of a single session's record, with one lemma per step of
it; `OneChanges` carries them to the whole. That the numbers are accounted for
needs who may wait for room in which phase (`WhoWaits`), that all numbers
differ (`Different`) and that the counter counts them (`Counted`). That only
one frame is behind needs in addition that of two which wait one took the last
number (`LastTaken`), and that an aborted session has lost one number at most
(`OneLost`). `SessionTyped`, `NumbersAreAccounted` and `OneBehind` follow.

**CommandOnceProofs** shows, with the same constants, that CommandLedger
implements CommandOnce (`LedgerImplementsOnce`, which states the property
`RefinesCommandOnce` of the run). The mapping reads bindings and statuses off
the rows of the table. Initial states map to initial states, and each step of
the table, the handler, the stream or a fault to one step of the promise or to
a stutter; what that needs is in `IInv`. A command being executed owns a
running row without an execution, so its execution is the first (`Perform`); an
outcome about to be recorded is that of the execution, so success is recorded
only of what went well (`Succeed`, `Fail`); a result on its way is backed by
the table, so hearing it is the truth (`Answer`). `CommandLedger::open` gives
up many rows in one step, which the promise allows.

**LifecycleProofs**, for a pool of any size. Every step of the process does to
the pool what the pool allows (`PoolSteps`), so the process implements the
pool's specification (`LifecycleImplementsPool`), its invariant carries over
and so does the limit on jobs (`LifecycleKeepsLimit`). `CleanMeansDrained`
compares what the sequence noted at one step with the state at another:
`NotedStillTrue` says that a wait which was over is over still, because a
tracked task that has ended stays so, and `IdleOutside` that the dispatcher,
the one caller, cannot end within a job, so that the job which began after the
drain had seen none is over as well. `RunningServes` ties the server's flag to
its task, which is why `close_transports` finds it down. `LifecycleTyped`,
`CleanIsDrained` and `TransportDoesNotWait` follow.

**TelemetryProofs**, for any set of files, any number of entries that count a
byte, any interval, counters, numbers of loops and settings of the clock.
`EveryCountOnce` adds up histories, which says nothing of what the loop holds:
`GainsMoved` ties the last reading to the counter and to what has been added to
it since, `CountedInLayers` that to the bytes moved, `CpuSpent` the last CPU
reading to what was spent, and `ClockAhead` says that the interval taken from
the clock is no shorter than the true one unless the clock was set back. What
is left of the bounds (`BudgetWithin`) remembers whether a reading has failed
or a device has left. `TelemetryTyped`, `CountsOnce` and the action properties
`RatesAreBounded` and `ShareIsTrue` follow.

All rest on the assumptions the modules make of their constants and on nothing
else.

Model-checked only: the ten liveness properties (`EventuallyAnswered`,
`TasksStop`, `StopsOnShutdown`, `StopsAfterShutdown`, `SettlesOnPreferred`,
`DrainEnds`, `ShutdownTerminates`, `CleanIfInTime`, `TelemetryStops` and
`EventuallyEnrolled`), because they rest on fairness and ENABLED, which are out
of the prover's reach. Every safety property a passing run checks is a theorem.

## 6. Disagreements met on the way

Five runs are expected to be violated; each checks one sentence of the
repository (`PROJECT.json`, "findings").

- `StopsOnlyOnFatal`: the first enrolment's transient errors end the loop
  (`agent/registry.rs:50`), although `is_fatal_bootstrap_error` exists to tell
  them apart.
- `PausesBeforeRetry`: the delay computed and logged for a failed session is
  not waited for after the last candidate (`agent/registry.rs:132`). Everywhere
  else it is (`PausedWithinRound`).
- `StoppedStartsNone`: a job can begin after the pool has reported that it
  stopped accepting (`worker/pool.rs:35`). Only callers that were past the flag
  can begin one (`ClosedPoolIsBounded`).
- `ReusesOnlyEnrolled`: a crash within `save_identity` leaves an identity that
  passes for an enrolled one (`repository/vm.rs:106`). Without a crash, a
  failed write, a reinstallation or a power loss it cannot happen
  (`ReusesEnrolledUndisturbed`).
- `ReassignedOnlyOnChange`: once the agent has failed over to another
  candidate, every refresh ends its healthy session as "runtime assignment
  changed", because the new preferred target is compared with the session's own
  (`agent/registry.rs:243`).

More, without a run of their own:

- The test for a blank token (`agent/bootstrap.rs:33`) never fails, because the
  configuration gives a blank token the default "bootstrap"
  (`config/mod.rs:98`).
- A key file that cannot be read for a moment is written over
  (`repository/vm.rs:35`), and one that a power failure has emptied is
  replaced; if the enrolment that follows is refused, its token being spent,
  the old certificate is left with the new key and the next start takes the two
  for a usable identity, since nothing compares them. `CertFitsKey` is stated
  for runs without either.
- A private key of which a power failure has left only a part, or zeros, is
  kept (`repository/vm.rs:36`) and refused when the CSR is made (`:53`), at
  every start until somebody removes the file: `EventuallyEnrolled` has to
  except it, and TLC finds it violated without the exception.
- When the telemetry channel does not open (`agent/registry.rs:203`), the
  session ends and its heartbeat goes on, with a sender of its own that keeps
  the request stream: the dataplane hears a host whose session is over, until
  it, the connection or the shutdown ends the stream. `TasksStop` claims no
  more.
- The runtime that main drops at its end waits, without a deadline, for threads
  within a poll, so that a `virsh` that hangs (`agent/telemetry.rs:154`) keeps
  the process from exiting although main has logged that it does.
  `ShutdownTerminates` names this case.
- A counter file that cannot be read once makes the report after it count
  everything since the host started as the gain of one interval
  (`agent/telemetry.rs:256`), which `RatesBounded` has to except.
- `/proc/diskstats` is summed over disks and their partitions
  (`agent/telemetry.rs:268`), and `/proc/net/dev` over all interfaces, so that
  a reported rate can be as many times the true one as entries count the same
  byte: `RatesBounded` has that factor in it.
- The fields of `/proc/stat` are all summed (`agent/telemetry.rs:308`),
  although the time of guests is in that of users already: a share of the CPU
  is above the true one on a host whose guests run, which
  `ShareIsOfTheWindow` states as it is.
- `service/host.rs` reads the wrapped output of `df` by the fields of the
  unwrapped line, so a pool whose name fills its line is dropped.

## 7. Not modelled

- *Host facts* (`service/`, `model/host.rs`): commands and files parsed at the
  start, for an inventory or for a snapshot. No state; what they return is data
  that nothing decides on. That the commands block a thread is in Lifecycle.
- *Configuration* (`config/`): read once; its outcomes are the constants of the
  modules (a positive base back-off, an interval of at least five seconds, a
  default token).
- *Logging* (`telemetry/`), *protocol definitions* (generated).
- *Installer*: its scripts beyond their effect on the CA bundle and the token.
- Within modelled parts: the contents of heartbeats, of the inventory and of
  the list of virtual machines; telemetry without a zone, which only waits; a
  telemetry loop that is still in a collection when the next session has
  started its own (AgentSession has it, Telemetry has one loop at a time); the
  order in which the kernel writes files back, of which a power loss takes any
  part; `resource_key`, `result_json` and the time stamps of the ledger (no
  decision depends on them); TLS, addresses, server names and the contents of
  certificates; the arithmetic of an assignment's expiry and the epoch, which
  is kept but never compared.

## 8. Plan

1. The composition of AgentSession and Telemetry: two loops at a time, one of
   them aborted and still in a collection, with a reading of its own.
2. The composition of AgentRegistry and CommandLedger: that a command left
   "running" by one session is answered in the next one, whichever target that
   one is opened to.
