----------------------------- MODULE AgentRegistry -----------------------------
(***************************************************************************)
(* connect_hypervisor of src/agent/registry.rs: the task that keeps the    *)
(* agent enrolled, asks the controlplane which dataplanes to use, opens a  *)
(* session with one of them, rotates through the candidates when sessions  *)
(* fail and starts over when they are exhausted, until it is told to stop. *)
(*                                                                         *)
(* A session is one step from "session" to its end here: what goes on in   *)
(* it is CommandLedger's.  Time is the order of events: a sleep is a       *)
(* control state, an expiry is an event, and a back-off is a number.       *)
(***************************************************************************)
EXTENDS Naturals, Sequences

CONSTANTS
    Targets,        \* dataplane addresses
    Assignments,    \* what the controlplane may answer
    BaseBackoff,    \* failover_base_backoff
    MaxBackoff,     \* failover_max_backoff
    NoAssignment,   \* the cache when it is empty
    MaxFaults,      \* bound: failed calls and broken sessions
    MaxChanges,     \* bound: reassignments by the controlplane
    MaxLosses       \* bound: how far consecutive lost rounds are counted

ASSUME BackoffAssumption == /\ BaseBackoff \in Nat \ {0}
                            /\ MaxBackoff \in Nat /\ MaxBackoff >= BaseBackoff
ASSUME AssignmentAssumption ==
    \* resolve_assignment refuses an answer without candidates
    /\ Assignments \subseteq [preferred : Targets, candidates : Seq(Targets) \ {<<>>}]
    /\ NoAssignment \notin Assignments
ASSUME RegistryBounds == MaxFaults \in Nat /\ MaxChanges \in Nat /\ MaxLosses \in Nat

PowerOfTwo[n \in 0..MaxLosses] == IF n = 0 THEN 1 ELSE 2 * PowerOfTwo[n - 1]

\* Lost rounds are counted until the back-off has met its maximum.
ASSUME LossesAssumption == BaseBackoff * PowerOfTwo[MaxLosses] >= MaxBackoff

VARIABLES
    pc,             \* where connect_hypervisor stands
    cache,          \* assignment_cache; inside a round, the round's assignment
    expired,        \* the cache's expires_at has passed
    index,          \* the selector's position in the candidates
    selBackoff,     \* the selector's back-off
    backoff,        \* the loop's back-off
    changed,        \* the refresh task has reported a new preferred target
    shutdown,       \* the cancellation token
    directory,      \* the controlplane's present answer
    faults,         \* failures so far
    changes,        \* reassignments so far
    failed,         \* history: the positions that failed in this round
    paused,         \* history: the loop has slept since the last failure
    losses,         \* history: rounds lost since a session last ended well
    lastError       \* history: the kind of the last error

vars == <<pc, cache, expired, index, selBackoff, backoff, changed, shutdown,
          directory, faults, changes, failed, paused, losses, lastError>>
envVars == <<directory, changes>>
selVars == <<index, selBackoff>>

Kinds == {"transient", "fatal"}
InRound == {"attempt", "session", "pause"}

Lower(a, b) == IF a < b THEN a ELSE b

\* The next back-off: twice this one, up to the configured maximum.
DoubledUncapped(b) == b * 2
Doubled(b) == Lower(b * 2, MaxBackoff)

\* The selector's present target.
Target == cache.candidates[index]
\* advance() has just run out of candidates.
ExhaustedNever == FALSE
ExhaustedEarly == index + 1 >= Len(cache.candidates)
Exhausted == index = Len(cache.candidates)
\* Past the last candidate, a rotation that did not stop would wrap around.
NextIndex == (index % Len(cache.candidates)) + 1

\* A cached assignment stands in for the controlplane's only until it expires.
CacheUsable == cache # NoAssignment /\ ~expired

Strike ==
    /\ faults < MaxFaults
    /\ faults' = faults + 1

Init ==
    /\ pc = "top"
    /\ cache = NoAssignment
    /\ expired = FALSE
    /\ index = 1
    /\ selBackoff = BaseBackoff
    /\ backoff = BaseBackoff
    /\ changed = FALSE
    /\ shutdown = FALSE
    /\ directory \in Assignments
    /\ faults = 0
    /\ changes = 0
    /\ failed = {}
    /\ paused = TRUE
    /\ losses = 0
    /\ lastError = "none"
--------------------------------------------------------------------------------
\* The head of the loop looks at the token before anything else.
StoppingMissed == FALSE
Stopping == shutdown

LoopTop ==
    /\ pc = "top"
    /\ pc' = IF Stopping THEN "stopped" ELSE "identity"
    /\ UNCHANGED <<cache, expired, selVars, backoff, changed, shutdown, envVars,
                   faults, failed, paused, losses, lastError>>

\* ensure_identity finds a usable certificate or enrols for one.
IdentityReady ==
    /\ pc = "identity"
    /\ pc' = "resolve"
    /\ UNCHANGED <<cache, expired, selVars, backoff, changed, shutdown, envVars,
                   faults, failed, paused, losses, lastError>>

\* ensure_identity fails, for whatever reason, and the ? returns its error.
IdentityFails(kind) ==
    /\ pc = "identity"
    /\ Strike
    /\ lastError' = kind
    /\ pc' = "failed"
    /\ UNCHANGED <<cache, expired, selVars, backoff, changed, shutdown, envVars,
                   failed, paused, losses>>

\* A round begins: a new selector stands at the first candidate.
StartRound ==
    /\ pc' = "attempt"
    /\ index' = 1
    /\ selBackoff' = BaseBackoff
    /\ failed' = {}
    /\ UNCHANGED <<backoff, changed, shutdown, envVars, paused, losses, lastError>>

Resolve ==
    /\ pc = "resolve"
    /\ cache' = directory
    /\ expired' = FALSE
    /\ StartRound
    /\ UNCHANGED faults

\* The controlplane does not answer, and the cached assignment serves again.
ResolveFromCache ==
    /\ pc = "resolve"
    /\ Strike
    /\ CacheUsable
    /\ StartRound
    /\ UNCHANGED <<cache, expired>>

\* It does not answer and there is nothing to fall back on.
ResolveFails ==
    /\ pc = "resolve"
    /\ Strike
    /\ ~CacheUsable
    /\ pc' = "resolve_pause"
    /\ paused' = FALSE
    /\ UNCHANGED <<cache, expired, selVars, backoff, changed, shutdown, envVars,
                   failed, losses, lastError>>

LostRound == losses' = Lower(losses + 1, MaxLosses)

\* This sleep does not listen to the token.
ResolvePauseEnds ==
    /\ pc = "resolve_pause"
    /\ backoff' = Doubled(backoff)
    /\ LostRound
    /\ paused' = TRUE
    /\ pc' = "top"
    /\ UNCHANGED <<cache, expired, selVars, changed, shutdown, envVars, faults,
                   failed, lastError>>

\* run_session connects, registers and enters its loop.
SessionOpens ==
    /\ pc = "attempt"
    /\ pc' = "session"
    /\ changed' = FALSE
    /\ UNCHANGED <<cache, expired, selVars, backoff, shutdown, envVars, faults,
                   failed, paused, losses, lastError>>

\* A session's error that is not fatal: on to the next candidate, after a pause,
\* or, after the last one, back to the head of the loop with nothing cached.
Rotate ==
    /\ failed' = failed \cup {index}
    /\ paused' = FALSE
    /\ lastError' = "transient"
    /\ IF Exhausted
       THEN /\ cache' = NoAssignment
            /\ backoff' = Doubled(backoff)
            /\ LostRound
            /\ pc' = "top"
            /\ UNCHANGED selVars
       ELSE /\ index' = NextIndex
            /\ selBackoff' = Doubled(selBackoff)
            /\ pc' = "pause"
            /\ UNCHANGED <<cache, backoff, losses>>
    /\ UNCHANGED <<expired, changed, shutdown, envVars>>

\* The connection, the registration or the stream fails.
SessionFails ==
    /\ pc \in {"attempt", "session"}
    /\ Strike
    /\ Rotate

\* The dataplane answers Unauthenticated or InvalidArgument.
SessionFatal ==
    /\ pc \in {"attempt", "session"}
    /\ Strike
    /\ lastError' = "fatal"
    /\ pc' = "failed"
    /\ UNCHANGED <<cache, expired, selVars, backoff, changed, shutdown, envVars,
                   failed, paused, losses>>

\* The refresh task resolves again and finds another preferred target than the
\* one of this session.  (Its calls that fail, or find no change, change nothing.)
RefreshSees ==
    /\ pc = "session"
    /\ ~changed
    /\ directory.preferred # Target
    /\ changed' = TRUE
    /\ UNCHANGED <<pc, cache, expired, selVars, backoff, shutdown, envVars, faults,
                   failed, paused, losses, lastError>>

\* The session's loop hears of it and ends itself with an error.
SessionReassigned ==
    /\ pc = "session"
    /\ changed
    /\ Rotate
    /\ UNCHANGED faults

\* A session that ends well resets both back-offs; the cache is kept.
ResetForgotten(b) == b
ResetTo(b) == BaseBackoff

EndWell ==
    /\ pc' = "top"
    /\ selBackoff' = BaseBackoff
    /\ backoff' = ResetTo(backoff)
    /\ losses' = 0
    /\ UNCHANGED <<cache, expired, index, changed, shutdown, envVars, failed,
                   paused, lastError>>

ServerCloses == pc = "session" /\ Strike /\ EndWell

SessionShutdown == pc = "session" /\ shutdown /\ EndWell /\ UNCHANGED faults

\* The pause between two candidates ends with the timer or with the token.
PauseEnds ==
    /\ pc = "pause"
    /\ paused' = TRUE
    /\ pc' = "attempt"
    /\ UNCHANGED <<cache, expired, selVars, backoff, changed, shutdown, envVars,
                   faults, failed, losses, lastError>>

PauseShutdown ==
    /\ pc = "pause"
    /\ shutdown
    /\ pc' = "stopped"
    /\ UNCHANGED <<cache, expired, selVars, backoff, changed, shutdown, envVars,
                   faults, failed, paused, losses, lastError>>

\* The environment: time, the operator and the controlplane.
Expire ==
    /\ cache # NoAssignment
    /\ ~expired
    /\ expired' = TRUE
    /\ UNCHANGED <<pc, cache, selVars, backoff, changed, shutdown, envVars, faults,
                   failed, paused, losses, lastError>>

Shutdown ==
    /\ ~shutdown
    /\ shutdown' = TRUE
    /\ UNCHANGED <<pc, cache, expired, selVars, backoff, changed, envVars, faults,
                   failed, paused, losses, lastError>>

Reassign(a) ==
    /\ changes < MaxChanges
    /\ changes' = changes + 1
    /\ directory' = a
    /\ UNCHANGED <<pc, cache, expired, selVars, backoff, changed, shutdown, faults,
                   failed, paused, losses, lastError>>

\* Nothing follows the end of the loop, whichever way it ended.
Ended == pc \in {"stopped", "failed"} /\ UNCHANGED vars

Next ==
    \/ LoopTop \/ IdentityReady \/ Resolve \/ ResolveFromCache \/ ResolveFails
    \/ ResolvePauseEnds \/ SessionOpens \/ SessionFails \/ SessionFatal
    \/ RefreshSees \/ SessionReassigned \/ ServerCloses \/ SessionShutdown
    \/ PauseEnds \/ PauseShutdown \/ Expire \/ Shutdown \/ Ended
    \/ \E kind \in Kinds : IdentityFails(kind)
    \/ \E a \in Assignments : Reassign(a)

Spec == Init /\ [][Next]_vars

\* The task is polled and its timers fire.  No call has a time limit, so none is
\* obliged to end; nor are failures and the environment.
FairSpec == Spec /\ WF_vars(LoopTop) /\ WF_vars(ResolvePauseEnds) /\ WF_vars(PauseEnds)

\* What the liveness properties assume by name: that the calls are answered, that
\* the refresh task's are and a session acts on its report, and that a session
\* acts on the token, which is AgentSession's StopsOnShutdown.
CallsEnd == WF_vars(IdentityReady) /\ WF_vars(Resolve) /\ WF_vars(SessionOpens)
RefreshRuns == WF_vars(RefreshSees) /\ WF_vars(SessionReassigned)
SessionsHeed == WF_vars(SessionShutdown)

\* Where the loop waits for an answer and for nothing else.
Calling == pc \in {"identity", "resolve", "attempt"}
--------------------------------------------------------------------------------
\* Types; both back-offs stay between the configured base and maximum.
TypeOK ==
    /\ pc \in {"top", "identity", "resolve", "resolve_pause", "attempt", "session",
               "pause", "stopped", "failed"}
    /\ cache \in Assignments \cup {NoAssignment}
    /\ index \in Nat \ {0}
    /\ {selBackoff, backoff} \subseteq BaseBackoff..MaxBackoff
    /\ {expired, changed, shutdown, paused} \subseteq BOOLEAN
    /\ directory \in Assignments
    /\ faults \in 0..MaxFaults /\ changes \in 0..MaxChanges /\ losses \in 0..MaxLosses
    /\ failed \subseteq Nat
    /\ lastError \in Kinds \cup {"none"}

\* In one round no candidate is tried again after it failed: the selector is
\* always on a candidate of the round's assignment, the ones before it failed
\* and the others did not.
NoRetryWithinRound ==
    pc \in InRound =>
        /\ cache # NoAssignment
        /\ index \in 1..Len(cache.candidates)
        /\ failed = 1..(index - 1)

\* The cached assignment is given up only when every one of its candidates has
\* failed since it was last taken up.
CacheDroppedWhenExhausted ==
    [][cache # NoAssignment /\ cache' = NoAssignment
        => failed' = 1..Len(cache.candidates)]_vars

\* The loop's back-off is the base doubled for each round lost in a row, up to
\* the maximum: no failure forgets it and no success leaves it behind.
BackoffCountsLosses == backoff = Lower(BaseBackoff * PowerOfTwo[losses], MaxBackoff)

\* Told to stop, the loop ends, whatever back-off, pause, rotation or session it is
\* in.  Only a call that is never answered can hold it, for it has no time limit
\* and is not given up for the token.
StopsAfterShutdown ==
    SessionsHeed => (shutdown ~> pc \in {"stopped", "failed"} \/ []Calling)

\* If calls are answered, failures and reassignments end, nobody stops the agent
\* and no fatal error has ended it, it settles in a session with the preferred
\* target, however far it had rotated away from it.
SettlesOnPreferred ==
    (CallsEnd /\ RefreshRuns /\ [](~shutdown) /\ [](pc # "failed"))
        => <>[](pc = "session" /\ Target = directory.preferred)

\* src/agent/bootstrap.rs:220-221: retrying should stop because the token or the
\* request itself is invalid "rather than temporarily failing".
StopsOnlyOnFatal == pc = "failed" => lastError = "fatal"

\* src/agent/registry.rs:118-127 computes and logs, for every failed session, the
\* time retry_in after which it is retried: no attempt follows a failure without
\* a pause.
PausesBeforeRetry == pc = "attempt" => paused

\* src/agent/registry.rs:282 ends the session with the error "runtime assignment
\* changed": the refresh reports only an assignment other than the round's.
ReassignedOnlyOnChange == [][~changed /\ changed' => directory # cache]_vars
================================================================================
