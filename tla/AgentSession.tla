------------------------------ MODULE AgentSession ------------------------------
(***************************************************************************)
(* run_session of src/agent/registry.rs from inside: the frame that        *)
(* registers the host, the heartbeat, telemetry and refresh tasks, and the *)
(* message handler, whose frames share one counter and one bounded channel *)
(* with the heartbeat's.  A number is taken first and its frame is sent    *)
(* when the channel has room, so another task's frame may go before it.    *)
(*                                                                         *)
(* Sessions follow one another; what an earlier one has left running goes  *)
(* on beside the next: a heartbeat nobody aborted, or a task whose abort   *)
(* has not taken effect because it is in a blocking command.  What the     *)
(* handler does with a command is CommandLedger's; here it is the frame it *)
(* answers with.                                                           *)
(***************************************************************************)
EXTENDS Naturals, Sequences, FiniteSets

CONSTANTS
    Capacity,       \* slots of the channel (100)
    MaxAttempts,    \* HOST_INVENTORY_SEND_MAX_ATTEMPTS
    MaxSessions,    \* bound: sessions opened
    MaxFrames,      \* bound: frames of a session whose channel is open
    MaxBreaks       \* bound: streams that break under a session

ASSUME SessionConstants ==
    /\ {Capacity, MaxAttempts, MaxSessions, MaxFrames} \subseteq Nat \ {0}
    /\ MaxBreaks \in Nat

VARIABLES
    session,        \* the sessions, see Fresh
    cur,            \* the latest session, 0 before the first
    shutdown,       \* the token
    breaks          \* broken streams so far

vars == <<session, cur, shutdown, breaks>>

Sessions == 1..MaxSessions
Tasks == {"heartbeat", "telemetry", "refresh"}

Fresh == [phase |-> "none",     \* none, registering, streaming, open, ended
          next |-> 1,           \* the counter
          chan |-> <<>>,        \* numbers of the frames in the channel
          rx |-> "open",        \* the transport's end of it, until it is dropped
          sent |-> {},          \* numbers of the frames on the stream
          tasks |-> {},         \* the tasks that run
          aborted |-> {},       \* those of them that abort() was called for
          blocked |-> FALSE,    \* telemetry's thread is in a virsh command
          beat |-> 0,           \* number of the heartbeat waiting for room, or 0
          attempt |-> 0,        \* the handler's send in progress, 0 in the loop
          answer |-> 0]         \* number of the handler's frame, or 0

Init ==
    /\ session = [s \in Sessions |-> Fresh]
    /\ cur = 0
    /\ shutdown = FALSE
    /\ breaks = 0

\* The step changes session s alone.
Changes(s, new) == session' = [session EXCEPT ![s] = new]

RoomUnbounded(c) == TRUE
Room(c) == Len(c) < Capacity

\* fetch_add: the counter after a number is taken from it.
NotAdvanced(n) == n
Advanced(n) == n + 1

\* The three aborts on each way out of the loop.  Nobody waits for them: a task
\* ends when its future is next polled.
AbortedButRefresh(tasks) == tasks \ {"refresh"}
Aborted(tasks) == tasks

Ended(r) == [r EXCEPT !.phase = "ended", !.aborted = Aborted(r.tasks),
                      !.attempt = 0, !.answer = 0]

\* Task t is no more, nor the number the heartbeat may have waited with.
Gone(r, t) == [r EXCEPT !.tasks = @ \ {t}, !.aborted = @ \ {t},
                        !.beat = IF t = "heartbeat" THEN 0 ELSE @]
--------------------------------------------------------------------------------
\* The host's registration is in the channel before the stream is opened.
Open(s) ==
    /\ s = cur + 1
    /\ \A e \in 1..cur : session[e].phase = "ended"
    /\ ~shutdown
    /\ cur' = s
    /\ Changes(s, [Fresh EXCEPT !.phase = "registering", !.next = Advanced(@),
                                !.chan = <<1>>])
    /\ UNCHANGED <<shutdown, breaks>>

\* agent_control_stream answers: the heartbeat task starts.
StreamOpens(s) ==
    /\ session[s].phase = "registering" /\ session[s].rx = "open"
    /\ Changes(s, [session[s] EXCEPT !.phase = "streaming", !.tasks = {"heartbeat"}])
    /\ UNCHANGED <<cur, shutdown, breaks>>

StreamFails(s) ==
    /\ session[s].phase = "registering"
    /\ Changes(s, [session[s] EXCEPT !.phase = "ended"])
    /\ UNCHANGED <<cur, shutdown, breaks>>

\* The second channel to the dataplane opens: telemetry and refresh start.
TelemetryOpens(s) ==
    /\ session[s].phase = "streaming"
    /\ Changes(s, [session[s] EXCEPT !.phase = "open", !.tasks = @ \cup {"telemetry", "refresh"}])
    /\ UNCHANGED <<cur, shutdown, breaks>>

\* It does not, and the ? returns without a word to the heartbeat task.
TelemetryFails(s) ==
    /\ session[s].phase = "streaming"
    /\ Changes(s, [session[s] EXCEPT !.phase = "ended"])
    /\ UNCHANGED <<cur, shutdown, breaks>>

InLoop(s) == session[s].phase = "open" /\ session[s].attempt = 0

\* A frame arrives that the handler answers: an acknowledged registration with
\* the host inventory, tried several times, or a command with its result, tried
\* once.  The number is taken here.
Handle(s) ==
    /\ InLoop(s)
    /\ session[s].next <= MaxFrames
    /\ \E first \in {1, MaxAttempts} :
        Changes(s, [session[s] EXCEPT !.attempt = first, !.answer = session[s].next,
                                      !.next = Advanced(@)])
    /\ UNCHANGED <<cur, shutdown, breaks>>

HandlerSends(s) ==
    /\ session[s].answer # 0
    /\ session[s].rx = "open" /\ Room(session[s].chan)
    /\ Changes(s, [session[s] EXCEPT !.chan = Append(@, session[s].answer),
                                     !.attempt = 0, !.answer = 0])
    /\ UNCHANGED <<cur, shutdown, breaks>>

\* The channel is closed: after a pause the inventory takes another number ...
HandlerRetries(s) ==
    /\ session[s].answer # 0 /\ session[s].rx = "dropped"
    /\ session[s].attempt < MaxAttempts
    /\ Changes(s, [session[s] EXCEPT !.attempt = @ + 1, !.answer = session[s].next,
                                     !.next = Advanced(@)])
    /\ UNCHANGED <<cur, shutdown, breaks>>

\* ... and in the end the handler's error is the session's.
HandlerGivesUp(s) ==
    /\ session[s].answer # 0 /\ session[s].rx = "dropped"
    /\ session[s].attempt = MaxAttempts
    /\ Changes(s, Ended(session[s]))
    /\ UNCHANGED <<cur, shutdown, breaks>>

\* The stream ends or fails, the handler's ledger does, or the refresh task
\* reports a new assignment.
SessionEnds(s) ==
    /\ InLoop(s)
    /\ Changes(s, Ended(session[s]))
    /\ UNCHANGED <<cur, shutdown, breaks>>

\* The loop looks at the token only between two frames.
HeededNever == FALSE
Heeded == shutdown

SessionStops(s) ==
    /\ InLoop(s) /\ Heeded
    /\ Changes(s, Ended(session[s]))
    /\ UNCHANGED <<cur, shutdown, breaks>>
--------------------------------------------------------------------------------
\* The heartbeat task: the tick takes a number, the send waits for room, and a
\* closed channel ends the task.
TickingAnyway(s) == "heartbeat" \in session[s].tasks
Ticking(s) == "heartbeat" \in session[s].tasks /\ session[s].beat = 0

\* Bound: the tick that finds the channel closed is always within it.
MaxNumber(r) == IF r.rx = "open" THEN MaxFrames ELSE MaxFrames + MaxAttempts

Tick(s) ==
    /\ Ticking(s)
    /\ session[s].next <= MaxNumber(session[s])
    /\ Changes(s, [session[s] EXCEPT !.beat = session[s].next, !.next = Advanced(@)])
    /\ UNCHANGED <<cur, shutdown, breaks>>

HeartbeatSends(s) ==
    /\ session[s].beat # 0
    /\ session[s].rx = "open" /\ Room(session[s].chan)
    /\ Changes(s, [session[s] EXCEPT !.chan = Append(@, session[s].beat), !.beat = 0])
    /\ UNCHANGED <<cur, shutdown, breaks>>

HeartbeatClosed(s) ==
    /\ session[s].beat # 0
    /\ session[s].rx = "dropped"
    /\ Changes(s, Gone(session[s], "heartbeat"))
    /\ UNCHANGED <<cur, shutdown, breaks>>

\* Between two awaits no task can be ended from outside: the collection of
\* telemetry runs its virsh commands to their end on the thread it is polled on.
Yields(s, t) == t \in session[s].tasks /\ (t = "telemetry" => ~session[s].blocked)

\* The tasks listen to the token themselves, the heartbeat between two ticks.
TaskStops(s, t) ==
    /\ shutdown
    /\ Yields(s, t)
    /\ t = "heartbeat" => session[s].beat = 0
    /\ Changes(s, Gone(session[s], t))
    /\ UNCHANGED <<cur, shutdown, breaks>>

AbortLands(s, t) ==
    /\ t \in session[s].aborted
    /\ Yields(s, t)
    /\ Changes(s, Gone(session[s], t))
    /\ UNCHANGED <<cur, shutdown, breaks>>

VirshRuns(s) ==
    /\ Yields(s, "telemetry")
    /\ Changes(s, [session[s] EXCEPT !.blocked = TRUE])
    /\ UNCHANGED <<cur, shutdown, breaks>>

\* External: libvirt answers, or never does.
VirshEnds(s) ==
    /\ session[s].blocked
    /\ Changes(s, [session[s] EXCEPT !.blocked = FALSE])
    /\ UNCHANGED <<cur, shutdown, breaks>>

\* External: the transport takes frames from the channel, and lets go of it when
\* the stream or its connection breaks, or when nobody is left to send.
Transmit(s) ==
    /\ session[s].rx = "open" /\ session[s].chan # <<>>
    /\ Changes(s, [session[s] EXCEPT !.chan = Tail(@), !.sent = @ \cup {Head(session[s].chan)}])
    /\ UNCHANGED <<cur, shutdown, breaks>>

Drop(s) == Changes(s, [session[s] EXCEPT !.rx = "dropped", !.chan = <<>>])

Break(s) ==
    /\ session[s].phase # "none"
    /\ session[s].rx = "open"
    /\ breaks < MaxBreaks
    /\ breaks' = breaks + 1
    /\ Drop(s)
    /\ UNCHANGED <<cur, shutdown>>

\* The heartbeat has a sender of its own, so one that nobody aborted keeps the
\* request stream of a session that is over.
Release(s) ==
    /\ session[s].phase = "ended" /\ session[s].rx = "open"
    /\ "heartbeat" \notin session[s].tasks
    /\ Drop(s)
    /\ UNCHANGED <<cur, shutdown, breaks>>

Shutdown ==
    /\ ~shutdown
    /\ shutdown' = TRUE
    /\ UNCHANGED <<session, cur, breaks>>

Next ==
    \/ Shutdown
    \/ \E s \in Sessions :
        \/ Open(s) \/ StreamOpens(s) \/ StreamFails(s) \/ TelemetryOpens(s) \/ TelemetryFails(s)
        \/ Handle(s) \/ HandlerSends(s) \/ HandlerRetries(s) \/ HandlerGivesUp(s)
        \/ SessionEnds(s) \/ SessionStops(s)
        \/ Tick(s) \/ HeartbeatSends(s) \/ HeartbeatClosed(s)
        \/ Transmit(s) \/ Break(s) \/ Release(s)
        \/ VirshRuns(s) \/ VirshEnds(s)
        \/ \E t \in Tasks : TaskStops(s, t) \/ AbortLands(s, t)

Spec == Init /\ [][Next]_vars

\* Calls are answered or fail, sends and timers are served, and the transport
\* drains an open stream: a connection that stays up and takes no more frames is
\* assumed away.  select! picks a ready branch at random: a token that is ready
\* again and again is seen.  An abort takes effect at the first poll after it.
\* Nothing makes a transport let go of a channel, and nothing makes virsh end.
FairSpec ==
    /\ Spec
    /\ \A s \in Sessions :
        /\ WF_vars(StreamOpens(s) \/ StreamFails(s))
        /\ WF_vars(TelemetryOpens(s) \/ TelemetryFails(s))
        /\ WF_vars(HandlerSends(s)) /\ WF_vars(HandlerRetries(s)) /\ WF_vars(HandlerGivesUp(s))
        /\ WF_vars(Tick(s)) /\ WF_vars(HeartbeatSends(s)) /\ WF_vars(HeartbeatClosed(s))
        /\ WF_vars(Transmit(s))
        /\ SF_vars(SessionStops(s)) /\ SF_vars(TaskStops(s, "heartbeat"))
        /\ \A t \in Tasks : SF_vars(AbortLands(s, t))
--------------------------------------------------------------------------------
InChannel(s) == {session[s].chan[i] : i \in DOMAIN session[s].chan}
\* Numbers taken by a task that waits for room.
Held(s) == {session[s].beat, session[s].answer} \ {0}

\* Types; the channel keeps its capacity, and what waits is a number taken.
TypeOK ==
    /\ cur \in 0..MaxSessions /\ shutdown \in BOOLEAN /\ breaks \in 0..MaxBreaks
    /\ \A s \in Sessions :
        LET r == session[s] IN
        /\ r.phase \in {"none", "registering", "streaming", "open", "ended"}
        /\ r.next \in Nat \ {0}
        /\ r.chan \in Seq(1..(r.next - 1)) /\ Len(r.chan) <= Capacity
        /\ r.rx \in {"open", "dropped"}
        /\ r.sent \subseteq 1..(r.next - 1)
        /\ r.tasks \subseteq Tasks /\ r.aborted \subseteq r.tasks /\ r.blocked \in BOOLEAN
        /\ {r.beat, r.answer} \subseteq 0..(r.next - 1)
        /\ r.attempt \in 0..MaxAttempts

\* While a session and its stream live, every number taken from the counter is in
\* exactly one place: on the stream, in the channel, or with a task waiting for
\* room.  No two frames share one and none is lost, although two tasks take them.
NumbersAccounted ==
    \A s \in Sessions :
        session[s].phase \notin {"none", "ended"} /\ session[s].rx = "open" =>
            /\ session[s].sent \cup InChannel(s) \cup Held(s) = 1..(session[s].next - 1)
            /\ Cardinality(session[s].sent) + Len(session[s].chan) + Cardinality(Held(s))
                = session[s].next - 1

\* Frames can overtake one another on their way to the stream, but only one can
\* be behind at a time: at most one number below the highest sent is still to come.
AtMostOneBehind ==
    \A s \in Sessions :
        session[s].rx = "open" =>
            LET out == session[s].sent \cup InChannel(s)
            IN  Cardinality({n \in 1..session[s].next :
                                n \notin out /\ \E m \in out : m > n}) <= 1

\* Once the agent is told to stop, every task of every session ends, the heartbeat
\* that nobody aborted included; and without being told, those of a session that
\* is over end once its stream is gone.  Only telemetry can be left, where it is in
\* a virsh command that never returns.
TasksStop ==
    \A s \in Sessions :
        \/ shutdown /\ session[s].phase # "none"
        \/ session[s].phase = "ended" /\ session[s].rx = "dropped"
        ~> \/ session[s].phase = "ended" /\ session[s].tasks = {}
           \/ [](session[s].blocked /\ session[s].tasks = {"telemetry"})

\* Told to stop, the session under way ends, also from within a send that waits
\* for room, as long as the transport drains.
StopsOnShutdown ==
    \A s \in Sessions : (shutdown /\ session[s].phase # "none") ~> session[s].phase = "ended"
================================================================================
