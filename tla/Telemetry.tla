------------------------------- MODULE Telemetry -------------------------------
(***************************************************************************)
(* run_telemetry_loop of src/agent/telemetry.rs: at each tick it reads the *)
(* kernel's counters, reports what they have gained since the last reading *)
(* over the time the wall clock says has passed, and pushes the report.    *)
(* A counter file that cannot be read counts as zero, a CPU reading that   *)
(* fails as none; one byte may be counted by several entries of its file,  *)
(* as by a disk and its partition; the time of guests is summed twice;     *)
(* devices that leave take their counts out of the sum; the clock may be   *)
(* set; and every session starts a loop of its own.                        *)
(*                                                                         *)
(* Time is in tenths of a second, the floor of the elapsed time.           *)
(***************************************************************************)
EXTENDS Integers, FiniteSets

CONSTANTS
    Files,          \* the counter files: /proc/net/dev, /proc/diskstats
    Layers,         \* how many entries of a file may count one byte
    Interval,       \* telemetry_interval, at least five seconds
    ClockSteps,     \* by how much the wall clock may be set
    NoReading,      \* a CPU reading that failed
    MaxCount,       \* bound: a counter
    MaxTime,        \* bound: the CPU time
    MaxMisreads,    \* bound: readings that fail
    MaxLeaves,      \* bound: devices that leave
    MaxSettings     \* bound: settings of the clock

ASSUME FilesAssumption == IsFiniteSet(Files) /\ "cpu" \notin Files
ASSUME LayersAssumption == Layers \in [Files -> Nat \ {0}]
ASSUME IntervalAssumption == Interval \in Nat /\ Interval >= 50
ASSUME ClockAssumption == ClockSteps \subseteq Int
ASSUME TelemetryBounds == {MaxCount, MaxTime, MaxMisreads, MaxLeaves, MaxSettings} \subseteq Nat

VARIABLES
    task,           \* the loop: "off", "idle" between two ticks, or "pushing"
    ticked,         \* the first tick, which comes at once, has come
    last,           \* last_io and last_cpu
    gap,            \* the wall clock's distance from last_io's time stamp
    report,         \* the snapshot being pushed
    session,        \* a session that has not started its loop yet is under way
    shutdown,       \* the token
    counter,        \* kernel: the sum of each file's entries
    cpu,            \* kernel: time spent busy, idle, and in guests, busy as well
    real,           \* history: time since the last reading
    bytes,          \* history: bytes moved since the last reading
    since,          \* history: what they have added to the sum
    spent,          \* history: CPU time since the last reading
    moved,          \* history: what was ever added to the sum
    reported,       \* history: what all snapshots say was
    missed,         \* history: files the last reading failed on
    setBack,        \* history: the clock was set back since the last reading
    skipped,        \* history: what of it fell between two loops
    budget          \* what the bounds have left

taskVars == <<task, ticked, last, report>>
kernelVars == <<counter, cpu>>
windowVars == <<gap, real, bytes, since, spent, setBack>>
vars == <<taskVars, session, shutdown, kernelVars, windowVars, moved, reported, missed, skipped,
          budget>>

Zero == [f \in Files |-> 0]
Kinds == {"busy", "idle", "guest"}
NoTime == [kind \in Kinds |-> 0]
NoReport == [bytes |-> Zero, elapsed |-> 1, cpu |-> [used |-> 0, of |-> 0]]

\* saturating_sub: a counter that has fallen has gained nothing.
SubWrapping(a, b) == (a - b) % 256
Sub(a, b) == IF a > b THEN a - b ELSE 0

\* duration_since, with a second for a clock that went back, and never nothing.
ElapsedAsIs(d) == IF d < 0 THEN 10 ELSE d
Elapsed(d) == IF d < 0 THEN 10 ELSE IF d < 1 THEN 1 ELSE d

\* calculate_cpu_percent, as the fraction used / of; 0 / 0 is reported as zero.
Share(prev, curr) ==
    IF NoReading \in {prev, curr} THEN [used |-> 0, of |-> 0]
    ELSE LET total == Sub(curr.total, prev.total)
         IN  [used |-> Sub(total, Sub(curr.idle, prev.idle)), of |-> total]

\* read_cpu_stats sums every field of the line; the kernel has the time of guests
\* in one of its own and in that of user time as well.
Total(time) == time["busy"] + time["idle"] + time["guest"]

\* What a reading returns when it fails on the given sources.
ReadIo(unread) == [f \in Files |-> IF f \in unread THEN 0 ELSE counter[f]]
ReadCpu(unread) == IF "cpu" \in unread THEN NoReading 
                   ELSE [total |-> Total(cpu), idle |-> cpu["idle"]]

Spend(kind) == budget[kind] > 0 /\ budget' = [budget EXCEPT ![kind] = @ - 1]

\* A reading succeeds, or fails on one of its sources.
Reading(unread) ==
    \/ unread = {} /\ UNCHANGED budget
    \/ (\E x \in Files \cup {"cpu"} : unread = {x}) /\ Spend("misreads")

Unread == {{}} \cup {{x} : x \in Files \cup {"cpu"}}

\* A new window begins with this reading.
NewWindow(unread) ==
    /\ gap' = 0
    /\ real' = 0
    /\ bytes' = Zero
    /\ since' = Zero
    /\ spent' = NoTime
    /\ setBack' = FALSE
    /\ missed' = unread \cap Files

Init ==
    /\ task = "off"
    /\ ticked = FALSE
    /\ last = [io |-> Zero, cpu |-> NoReading]
    /\ gap = 0
    /\ report = NoReport
    /\ session = FALSE
    /\ shutdown = FALSE
    /\ counter = Zero
    /\ cpu = NoTime
    /\ real = 0
    /\ bytes = Zero
    /\ since = Zero
    /\ spent = NoTime
    /\ moved = Zero
    /\ reported = Zero
    /\ missed = {}
    /\ setBack = FALSE
    /\ skipped = Zero
    /\ budget = [misreads |-> MaxMisreads, leaves |-> MaxLeaves, settings |-> MaxSettings]
--------------------------------------------------------------------------------
\* The outer loop opens a session, which it does only before the token is cancelled.
SessionOpens ==
    /\ task = "off" /\ ~session /\ ~shutdown
    /\ session' = TRUE
    /\ UNCHANGED <<taskVars, shutdown, kernelVars, windowVars, moved, reported, missed, skipped,
                   budget>>

\* The session fails before it comes to start its loop.
SessionFails ==
    /\ session
    /\ session' = FALSE
    /\ UNCHANGED <<taskVars, shutdown, kernelVars, windowVars, moved, reported, missed, skipped,
                   budget>>

\* It starts the loop without a look at the token, with a reading of its own; what
\* has moved since the last one of the loop before it is never reported.
Begin ==
    /\ session
    /\ session' = FALSE
    /\ task' = "idle"
    /\ ticked' = FALSE
    /\ \E unread \in Unread :
        /\ Reading(unread)
        /\ last' = [io |-> ReadIo(unread), cpu |-> ReadCpu(unread)]
        /\ NewWindow(unread)
    /\ skipped' = [f \in Files |-> skipped[f] + since[f]]
    /\ UNCHANGED <<report, shutdown, kernelVars, moved, reported>>

\* The first tick comes at once, each later one an interval after the one before
\* it was served (MissedTickBehavior::Delay).
Due == ~ticked \/ real >= Interval

\* build_snapshot: the readings are kept for the next tick before the report is
\* pushed, whatever becomes of the push.
KeptCpu(prev, curr) == IF curr = NoReading THEN prev ELSE curr
NextCpu(prev, curr) == curr
KeptIo(prev, curr) == prev
NextIo(prev, curr) == curr

Sample ==
    /\ task = "idle" /\ Due
    /\ \E unread \in Unread :
        LET io == ReadIo(unread)
            gained == [f \in Files |-> Sub(io[f], last.io[f])]
        IN  /\ Reading(unread)
            /\ report' = [bytes |-> gained, elapsed |-> Elapsed(gap),
                          cpu |-> Share(last.cpu, ReadCpu(unread))]
            /\ last' = [io |-> NextIo(last.io, io), cpu |-> NextCpu(last.cpu, ReadCpu(unread))]
            /\ reported' = [f \in Files |-> reported[f] + gained[f]]
            /\ NewWindow(unread)
    /\ ticked' = TRUE
    /\ task' = "pushing"
    /\ UNCHANGED <<session, shutdown, kernelVars, moved, skipped>>

\* The push is answered or fails: the loop only logs the failure.
PushEnds ==
    /\ task = "pushing"
    /\ task' = "idle"
    /\ report' = NoReport
    /\ UNCHANGED <<ticked, last, session, shutdown, kernelVars, windowVars, moved, reported,
                   missed, skipped, budget>>

TaskOff ==
    /\ task' = "off"
    /\ report' = NoReport
    /\ UNCHANGED <<ticked, last, session, shutdown, kernelVars, windowVars, moved, reported,
                   missed, skipped, budget>>

\* Between two ticks the loop listens to the token; during a push it does not.
HeedsNever == FALSE
Heeds == shutdown

Stop == task = "idle" /\ Heeds /\ TaskOff

\* The session ends and aborts the loop, wherever it is.
Abort == task # "off" /\ TaskOff

Shutdown ==
    /\ ~shutdown
    /\ shutdown' = TRUE
    /\ UNCHANGED <<taskVars, session, kernelVars, windowVars, moved, reported, missed, skipped,
                   budget>>
--------------------------------------------------------------------------------
\* External: traffic, CPU time, devices, and the clock.

\* One byte moves, and up to Layers[f] entries count it: a disk and its partition,
\* or an interface, a bridge and a tap.
Move(f) ==
    /\ \E n \in 1..Layers[f] :
        /\ counter[f] + n <= MaxCount
        /\ counter' = [counter EXCEPT ![f] = @ + n]
        /\ since' = [since EXCEPT ![f] = @ + n]
        /\ moved' = [moved EXCEPT ![f] = @ + n]
    /\ bytes' = [bytes EXCEPT ![f] = @ + 1]
    /\ UNCHANGED <<taskVars, session, shutdown, cpu, gap, real, spent, setBack, reported, missed,
                   skipped, budget>>

\* The time of a guest is busy time too.
Ticks(time, kind) ==
    [k \in Kinds |-> IF k = kind \/ (k = "busy" /\ kind = "guest") THEN time[k] + 1 ELSE time[k]]

Spin(kind) ==
    /\ cpu["busy"] + cpu["idle"] < MaxTime
    /\ cpu' = Ticks(cpu, kind)
    /\ spent' = Ticks(spent, kind)
    /\ UNCHANGED <<taskVars, session, shutdown, counter, gap, real, bytes, since, setBack, moved,
                   reported, missed, skipped, budget>>

DeviceLeaves(f) ==
    /\ Spend("leaves")
    /\ \E n \in 0..(counter[f] - 1) : counter' = [counter EXCEPT ![f] = n]
    /\ UNCHANGED <<taskVars, session, shutdown, cpu, windowVars, moved, reported, missed, skipped>>

\* Both clocks advance, to the next tick.
Elapse ==
    /\ real < Interval
    /\ real' = real + Interval
    /\ gap' = gap + Interval
    /\ UNCHANGED <<taskVars, session, shutdown, kernelVars, bytes, since, spent, setBack, moved,
                   reported, missed, skipped, budget>>

SetClock(d) ==
    /\ Spend("settings")
    /\ gap' = gap + d
    /\ setBack' = (setBack \/ d < 0)
    /\ UNCHANGED <<taskVars, session, shutdown, kernelVars, real, bytes, since, spent, moved,
                   reported, missed, skipped>>

Next ==
    \/ SessionOpens \/ SessionFails \/ Begin
    \/ Sample \/ PushEnds \/ Stop \/ Abort \/ Shutdown \/ Elapse
    \/ \E f \in Files : Move(f) \/ DeviceLeaves(f)
    \/ \E kind \in Kinds : Spin(kind)
    \/ \E d \in ClockSteps : SetClock(d)

Spec == Init /\ [][Next]_vars

\* Collections end, pushes are answered or fail, and select! picks its ready branches at random.
FairSpec == Spec /\ WF_vars(PushEnds) /\ SF_vars(Stop)
--------------------------------------------------------------------------------
\* Types; in particular no rate is ever taken over a time of nothing.
TypeOK ==
    /\ task \in {"off", "idle", "pushing"}
    /\ {ticked, session, shutdown, setBack} \subseteq BOOLEAN
    /\ last.io \in [Files -> Nat]
    /\ last.cpu \in [total : Nat, idle : Nat] \cup {NoReading}
    /\ gap \in Int /\ real \in Nat
    /\ report.bytes \in [Files -> Nat]
    /\ report.elapsed \in Nat \ {0}
    /\ report.cpu.used \in 0..report.cpu.of
    /\ {counter, bytes, since, moved, reported, skipped} \subseteq [Files -> Nat]
    /\ {cpu, spent} \subseteq [Kinds -> Nat]
    /\ missed \subseteq Files

NoMisread == budget["misreads"] = MaxMisreads
NoDeviceLeft == budget["leaves"] = MaxLeaves

\* As long as every reading succeeds, nothing a file has counted is in two reports,
\* over however many loops, failed pushes and settings of the clock; and if no
\* device leaves, all of it is in one, or fell between two loops, or is still to be
\* read.
EveryCountOnce ==
    NoMisread =>
        \A f \in Files :
            /\ reported[f] + skipped[f] + since[f] <= moved[f]
            /\ NoDeviceLeft => reported[f] + skipped[f] + since[f] = moved[f]

\* A rate is at most as many times the true one as entries of the file count a byte:
\* it takes no more than that for each byte moved since the last reading, over no
\* less time than has passed.  What breaks it is a reading that failed before this
\* one, whose zero makes the next gain the whole counter, and a clock that was set
\* back.
RatesBounded ==
    [][Sample =>
        /\ \A f \in Files \ missed : report'.bytes[f] <= Layers[f] * bytes[f]
        /\ ~setBack => report'.elapsed >= real]_vars

\* The share of the CPU is that of the time since the last reading, with the time of
\* guests counted twice on both sides, so that it is above the true one while guests
\* run: a reading that failed leaves two reports without one, and is never bridged.
ShareIsOfTheWindow ==
    [][Sample =>
        \/ report'.cpu = [used |-> spent["busy"] + spent["guest"], of |-> Total(spent)]
        \/ report'.cpu.of = 0 /\ NoReading \in {last.cpu, last'.cpu}]_vars

\* Told to stop, the loop ends for good, also from a push and also one that a session
\* starts late, as long as collections end and pushes are answered.
TelemetryStops == shutdown ~> [](task = "off")
================================================================================
