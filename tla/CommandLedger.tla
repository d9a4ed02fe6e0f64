----------------------------- MODULE CommandLedger -----------------------------
(***************************************************************************)
(* How the agent carries out a hypervisor's commands: the session's        *)
(* message handler (src/agent/registration.rs) with the SQLite table of    *)
(* src/agent/command_ledger.rs, over a stream that breaks, in a process    *)
(* that crashes and restarts, on a database that may fail a statement.     *)
(*                                                                         *)
(* The handler is one sequential future: between two of its awaits or      *)
(* database calls the process may die or the stream may break, and pc says *)
(* where it stands.  A frame it answers goes through the session's bounded *)
(* channel before the hypervisor sees it.                                  *)
(***************************************************************************)
EXTENDS Naturals, Sequences

CONSTANTS
    WireIds,        \* command ids as they arrive
    CommandIds,     \* command ids once trimmed, as the table keys them
    Blank,          \* what an id of white space trims to
    Trim,           \* WireIds -> CommandIds or Blank
    Requests,       \* trimmed type and trimmed payload, up to their hash
    Verdicts,       \* outcomes of execute_agent_command: "ok", "error"
    NoRequest,      \* the request of a row that does not exist
    MaxInbound,     \* bound: command frames in flight to the agent
    Capacity,       \* slots of the session's outbound channel
    MaxFaults       \* bound: how many crashes, breaks and database faults

ASSUME TrimAssumption == Trim \in [WireIds -> CommandIds \cup {Blank}]
ASSUME BlankAssumption == Blank \notin CommandIds
ASSUME RequestAssumption == NoRequest \notin Requests
ASSUME VerdictAssumption == Verdicts \subseteq {"ok", "error"}
ASSUME BoundAssumption == MaxInbound \in Nat \ {0}
ASSUME CapacityAssumption == Capacity \in Nat \ {0}
ASSUME FaultAssumption == MaxFaults \in [{"crash", "break", "db"} -> Nat]

VARIABLES
    ledger,     \* the table: one row for each id, absent ones included
    pc,         \* where the handler stands
    cmd,        \* the command the handler holds
    reply,      \* what it is going to record and to answer
    link,       \* the session's stream, "up" or "down"
    inbound,    \* command frames sent to the agent and not yet taken
    outbound,   \* result frames in the session's channel
    effects,    \* history: what was executed under each id
    answers,    \* history: the results that reached the hypervisor
    faults      \* how often each kind of fault has struck

vars == <<ledger, pc, cmd, reply, link, inbound, outbound, effects, answers, faults>>

Statuses == {"running", "succeeded", "failed"}
Errors == {"", "runtime_error", "agent_restart_before_completion",
           "command_id_payload_mismatch"}
Commands == [id : WireIds, request : Requests]
Outcomes == [status : Statuses, error : Errors]
Results == [id : WireIds, request : Requests, status : Statuses, error : Errors]
Rows == [status : Statuses \cup {"absent"}, request : Requests \cup {NoRequest},
         error : Errors]

NoRow == [status |-> "absent", request |-> NoRequest, error |-> ""]
NoCommand == [id |-> Blank, request |-> NoRequest]
NoReply == [status |-> "absent", error |-> ""]
Key(c) == Trim[c.id]
NewRow(r) == [status |-> "running", request |-> r, error |-> ""]
Claimed(c) == [ledger EXCEPT ![Key(c)] = NewRow(c.request)]

\* begin_or_get's two questions about the row it finds.
IsNewOrFailed(row) == row.status \in {"absent", "failed"}
IsNew(row) == row.status = "absent"

SameId(row, c) == TRUE
SameRequest(row, c) == row.request = c.request

\* What executing a command came to.
OutcomeOf(v) ==
    IF v = "ok" THEN [status |-> "succeeded", error |-> ""]
                ELSE [status |-> "failed", error |-> "runtime_error"]

\* What the handler answers when the id already has a row.
ReplyForForgetsSuccess(row) ==
    IF row.status = "running" THEN [status |-> "running", error |-> ""]
                              ELSE [status |-> "failed", error |-> row.error]

ReplyFor(row) ==
    IF row.status = "running"
    THEN [status |-> "running", error |-> ""]
    ELSE [status |-> row.status, error |-> row.error]

\* The table as opening it leaves it.
GivenUp(row) == [row EXCEPT !.status = "failed", !.error = "agent_restart_before_completion"]

ReopenedDropsStale == [k \in CommandIds |-> IF ledger[k].status = "running" THEN NoRow ELSE ledger[k]]
ReopenedAsIs == ledger
ReopenedFailsAll == [k \in CommandIds |-> IF ledger[k].status # "absent" THEN GivenUp(ledger[k]) ELSE ledger[k]]
ReopenedTrusts == [k \in CommandIds |-> IF ledger[k].status = "running"
                                        THEN [ledger[k] EXCEPT !.status = "succeeded"] ELSE ledger[k]]

Reopened == [k \in CommandIds |-> IF ledger[k].status = "running" THEN GivenUp(ledger[k]) ELSE ledger[k]]

Init ==
    /\ ledger = [k \in CommandIds |-> NoRow]
    /\ pc = "idle"
    /\ cmd = NoCommand
    /\ reply = NoReply
    /\ link = "down"
    /\ inbound = <<>>
    /\ outbound = <<>>
    /\ effects = [k \in CommandIds |-> <<>>]
    /\ answers = {}
    /\ faults = [f \in {"crash", "break", "db"} |-> 0]
--------------------------------------------------------------------------------
\* The hypervisor sends, or sends again, a command on the live stream.
Deliver(w, r) ==
    /\ link = "up"
    /\ Len(inbound) < MaxInbound
    /\ inbound' = Append(inbound, [id |-> w, request |-> r])
    /\ UNCHANGED <<ledger, pc, cmd, reply, link, outbound, effects, answers, faults>>

\* An error in the handler returns from the session: the stream is dropped
\* with the frames of either direction still on it.
EndSession ==
    /\ link' = "down"
    /\ inbound' = <<>>
    /\ outbound' = <<>>

Strike(f) ==
    /\ faults[f] < MaxFaults[f]
    /\ faults' = [faults EXCEPT ![f] = @ + 1]

\* The frame the handler is called with, and the return to the session's loop.
Frame == Head(inbound)
Row == ledger[Key(Frame)]

Receive ==
    /\ pc = "idle"
    /\ inbound # <<>>

Return ==
    /\ pc' = "idle"
    /\ cmd' = NoCommand
    /\ reply' = NoReply

\* begin_or_get inserts the row: the command is new.
BeginNew ==
    /\ Receive
    /\ Key(Frame) # Blank
    /\ IsNew(Row)
    /\ ledger' = Claimed(Frame)
    /\ pc' = "claimed"
    /\ cmd' = Frame
    /\ inbound' = Tail(inbound)
    /\ UNCHANGED <<reply, link, outbound, effects, answers, faults>>

\* begin_or_get finds the row of the same request: it is answered from it.
BeginExisting ==
    /\ Receive
    /\ Key(Frame) # Blank
    /\ ~IsNew(Row)
    /\ SameRequest(Row, Frame)
    /\ reply' = ReplyFor(Row)
    /\ pc' = "replying"
    /\ cmd' = Frame
    /\ inbound' = Tail(inbound)
    /\ UNCHANGED <<ledger, link, outbound, effects, answers, faults>>

\* begin_or_get finds the row of another request.
BeginMismatch ==
    /\ Receive
    /\ Key(Frame) # Blank
    /\ ~IsNew(Row)
    /\ ~SameRequest(Row, Frame)
    /\ reply' = [status |-> "failed", error |-> "command_id_payload_mismatch"]
    /\ pc' = "replying"
    /\ cmd' = Frame
    /\ inbound' = Tail(inbound)
    /\ UNCHANGED <<ledger, link, outbound, effects, answers, faults>>

\* A blank id is an error, and the error ends the session unanswered.
BeginRejected ==
    /\ Receive
    /\ Key(Frame) = Blank
    /\ EndSession
    /\ UNCHANGED <<ledger, pc, cmd, reply, effects, answers, faults>>

\* The database fails the lookup or the insert, or, with the row of a new
\* command already in the table, the read that verifies the insert.
BeginFault ==
    /\ Receive
    /\ Key(Frame) # Blank
    /\ \/ ledger' = ledger
       \/ IsNew(Row) /\ ledger' = Claimed(Frame)
    /\ Strike("db")
    /\ EndSession
    /\ UNCHANGED <<pc, cmd, reply, effects, answers>>

\* execute_agent_command, awaited between the claim and the completion.
Execute ==
    /\ pc = "claimed"
    /\ \E v \in Verdicts :
        /\ effects' = [effects EXCEPT ![Key(cmd)] =
                            Append(@, [request |-> cmd.request, verdict |-> v])]
        /\ reply' = OutcomeOf(v)
    /\ pc' = "ran"
    /\ UNCHANGED <<ledger, cmd, link, inbound, outbound, answers, faults>>

\* complete() writes the outcome into the row.
Complete ==
    /\ pc = "ran"
    /\ ledger' = [ledger EXCEPT ![Key(cmd)].status = reply.status,
                                ![Key(cmd)].error = reply.error]
    /\ pc' = "replying"
    /\ UNCHANGED <<cmd, reply, link, inbound, outbound, effects, answers, faults>>

\* complete() fails: the session ends and the row stays "running".
CompleteFault ==
    /\ pc = "ran"
    /\ Strike("db")
    /\ EndSession
    /\ Return
    /\ UNCHANGED <<ledger, effects, answers>>

\* The handler's tx.send waits while the channel is full.
HasRoomUnbounded == TRUE
HasRoom == Len(outbound) < Capacity

SendReply ==
    /\ pc = "replying"
    /\ link = "up"
    /\ HasRoom
    /\ outbound' = Append(outbound, [id |-> cmd.id, request |-> cmd.request,
                                     status |-> reply.status, error |-> reply.error])
    /\ Return
    /\ UNCHANGED <<ledger, link, inbound, effects, answers, faults>>

\* On a broken stream the send fails, or its frame goes nowhere.
SendFails ==
    /\ pc = "replying"
    /\ link = "down"
    /\ Return
    /\ UNCHANGED <<ledger, link, inbound, outbound, effects, answers, faults>>

\* The transport takes a frame from the channel to the hypervisor.
Transmit ==
    /\ outbound # <<>>
    /\ answers' = answers \cup {Head(outbound)}
    /\ outbound' = Tail(outbound)
    /\ UNCHANGED <<ledger, pc, cmd, reply, link, inbound, effects, faults>>

\* The stream fails, or the hypervisor closes it, wherever the handler is.
Break ==
    /\ link = "up"
    /\ Strike("break")
    /\ EndSession
    /\ UNCHANGED <<ledger, pc, cmd, reply, effects, answers>>

\* The supervisor opens the next session.
Connect ==
    /\ pc = "idle"
    /\ link = "down"
    /\ link' = "up"
    /\ UNCHANGED <<ledger, pc, cmd, reply, inbound, outbound, effects, answers, faults>>

\* The process dies: only the table survives.
Crash ==
    /\ pc # "dead"
    /\ Strike("crash")
    /\ EndSession
    /\ pc' = "dead"
    /\ cmd' = NoCommand
    /\ reply' = NoReply
    /\ UNCHANGED <<ledger, effects, answers>>

\* The process starts: CommandLedger::open gives up what was running.
Restart ==
    /\ pc = "dead"
    /\ ledger' = Reopened
    /\ pc' = "idle"
    /\ UNCHANGED <<cmd, reply, link, inbound, outbound, effects, answers, faults>>

Begin == BeginNew \/ BeginExisting \/ BeginMismatch \/ BeginRejected
Handler == Begin \/ Execute \/ Complete \/ SendReply \/ SendFails

Next ==
    \/ \E w \in WireIds, r \in Requests : Deliver(w, r)
    \/ BeginNew \/ BeginExisting \/ BeginMismatch \/ BeginRejected \/ BeginFault
    \/ Execute \/ Complete \/ CompleteFault \/ SendReply \/ SendFails
    \/ Transmit \/ Break \/ Connect \/ Crash \/ Restart

Spec == Init /\ [][Next]_vars

\* The handler is polled by its task, the transport drains the channel, the
\* supervisor reconnects and the service manager restarts a dead process.
FairSpec ==
    /\ Spec
    /\ WF_vars(Handler)
    /\ WF_vars(Transmit)
    /\ WF_vars(Connect)
    /\ WF_vars(Restart)
--------------------------------------------------------------------------------
(***************************************************************************)
(* Properties.                                                             *)
(***************************************************************************)
\* Every variable keeps its type; in particular neither the session's channel
\* nor the stream ever holds more than its bound (tx.send awaits a slot).
TypeOK ==
    /\ ledger \in [CommandIds -> Rows]
    /\ pc \in {"idle", "claimed", "ran", "replying", "dead"}
    /\ cmd \in Commands \cup {NoCommand}
    /\ reply \in Outcomes \cup {NoReply}
    /\ link \in {"up", "down"}
    /\ inbound \in Seq(Commands) /\ Len(inbound) <= MaxInbound
    /\ outbound \in Seq(Results) /\ Len(outbound) <= Capacity
    /\ effects \in [CommandIds -> Seq([request : Requests, verdict : Verdicts])]
    /\ answers \subseteq Results
    /\ faults \in [{"crash", "break", "db"} -> Nat]

\* However often a command is redelivered, over however many sessions and
\* restarts, it is executed at most once: begin_or_get lets only the delivery
\* that inserted the row go on to execute_agent_command.
AtMostOnce == \A k \in CommandIds : Len(effects[k]) <= 1

\* What was executed under an id is the request the table has for that id, so
\* a reused id can neither run a second payload nor hide the first one's row.
EffectMatchesClaim ==
    \A k \in CommandIds :
        effects[k] # <<>> => effects[k][1].request = ledger[k].request

\* "succeeded", in the table or in an answer that reached the hypervisor, is
\* only ever said of the request that was executed and went well, whatever
\* crash or database error came between the execution and its record.
SuccessIsReal ==
    /\ \A k \in CommandIds :
        ledger[k].status = "succeeded" =>
            effects[k] = <<[request |-> ledger[k].request, verdict |-> "ok"]>>
    /\ \A a \in answers :
        a.status = "succeeded" =>
            effects[Trim[a.id]] = <<[request |-> a.request, verdict |-> "ok"]>>

\* A hypervisor that asks twice is never told two different endings: the two
\* final answers to one request under one id agree, in status and in error.
AnswersAgree ==
    \A a, b \in answers :
        /\ Trim[a.id] = Trim[b.id]
        /\ a.request = b.request
        /\ a.status # "running"
        /\ b.status # "running"
        => a.status = b.status /\ a.error = b.error

\* While the database serves every statement, a row says "running" only if the
\* live handler is working on it or the process is dead and about to reopen the
\* table: no command is left running with nobody to finish it.
NoStrandedRecord ==
    faults["db"] = 0 =>
        \A k \in CommandIds :
            ledger[k].status = "running" =>
                \/ pc = "dead"
                \/ pc \in {"claimed", "ran"} /\ Key(cmd) = k

\* A verdict once recorded is never changed, by complete(), by a redelivery or
\* by reopening the table, and an id never passes to another request.
VerdictFinal ==
    [][\A k \in CommandIds :
        /\ ledger[k].status \in {"succeeded", "failed"} => ledger'[k] = ledger[k]
        /\ ledger[k].request # NoRequest => ledger'[k].request = ledger[k].request]_vars

\* A command that is sent again and again is answered for good in the end: a run has
\* finitely many crashes and breaks, and after the last of them its redelivery finds a
\* verdict or produces one.  Two things the code does nothing about are excluded: a
\* failed statement, after which a row may say "running" until the process restarts,
\* and blank ids that never cease, each of which ends the session.
BlankDelivered == \E w \in WireIds, r \in Requests : Trim[w] = Blank /\ Deliver(w, r)
EventuallyAnswered ==
    \A w \in WireIds, r \in Requests :
        Trim[w] # Blank =>
            ((/\ []<><<Deliver(w, r)>>_vars
              /\ [](faults["db"] = 0)
              /\ <>[][~BlankDelivered]_vars)
             => <>(\E a \in answers :
                     a.id = w /\ a.request = r /\ a.status # "running"))

\* The handler, the table and the stream together keep the promise CommandOnce
\* makes of them: each of their steps is one of its steps or none.
Once == INSTANCE CommandOnce WITH
            binding <- [k \in CommandIds |-> ledger[k].request],
            status <- [k \in CommandIds |-> ledger[k].status],
            Unbound <- NoRequest,
            answers <- {[key |-> Trim[a.id], request |-> a.request,
                         status |-> a.status] : a \in answers}

RefinesCommandOnce == Once!OnceSpec
================================================================================
