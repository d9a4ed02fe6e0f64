-------------------------- MODULE CommandLedgerProofs --------------------------
(***************************************************************************)
(* Proofs about CommandLedger for all values of its constants.  The first  *)
(* part is about types; the second about the inductive invariant that ties *)
(* the table, the history of executions, the handler's position and every  *)
(* result on its way to the hypervisor together.                           *)
(***************************************************************************)
EXTENDS CommandLedger, TLAPS

\* While the handler holds a command, the command has an id, and from the end
\* of its execution on there is an outcome to record and to answer.
HandlerBusy ==
    /\ pc \in {"claimed", "ran", "replying"} => cmd \in Commands /\ Key(cmd) \in CommandIds
    /\ pc \in {"ran", "replying"} => reply \in Outcomes

Typed == TypeOK /\ HandlerBusy

\* A frame at the head of the stream is a command, and its id, unless blank,
\* is one the table can have a row for.
LEMMA FrameIsCommand ==
    ASSUME inbound \in Seq(Commands), inbound # <<>>
    PROVE  /\ Frame \in Commands
           /\ Tail(inbound) \in Seq(Commands)
           /\ Len(Tail(inbound)) <= Len(inbound)
           /\ Key(Frame) # Blank => Key(Frame) \in CommandIds
<1>1. /\ Frame \in Commands
      /\ Tail(inbound) \in Seq(Commands)
      /\ Len(Tail(inbound)) <= Len(inbound)
  BY DEF Frame
<1>2. Frame.id \in WireIds
  BY <1>1 DEF Commands
<1> QED
  BY <1>1, <1>2, TrimAssumption DEF Key

\* Dropping the stream empties both of its directions.
LEMMA EndSessionTyped ==
    ASSUME EndSession
    PROVE  /\ link' \in {"up", "down"}
           /\ inbound' \in Seq(Commands) /\ Len(inbound') <= MaxInbound
           /\ outbound' \in Seq(Results) /\ Len(outbound') <= Capacity
  BY CapacityAssumption, BoundAssumption DEF EndSession

\* A fault only moves its own counter.
LEMMA StrikeTyped ==
    ASSUME TypeOK, NEW f \in {"crash", "break", "db"}, Strike(f)
    PROVE  faults' \in [{"crash", "break", "db"} -> Nat]
  BY DEF TypeOK, Strike

\* Whatever a row is, opening the table makes a row of it, and the answer taken
\* from a row that exists is a proper outcome.
LEMMA RowsTyped ==
    ASSUME NEW row \in Rows
    PROVE  /\ GivenUp(row) \in Rows
           /\ row.status # "absent" => ReplyFor(row) \in Outcomes
  BY DEF Rows, GivenUp, ReplyFor, Outcomes, Statuses, Errors

\* The fields of a new row, and of an outcome.
LEMMA NewRowFields ==
    ASSUME NEW r
    PROVE  NewRow(r).status = "running" /\ NewRow(r).request = r
  BY DEF NewRow

LEMMA OutcomeFields ==
    ASSUME NEW v
    PROVE  /\ OutcomeOf(v).status \in {"succeeded", "failed"}
           /\ OutcomeOf(v).status = "succeeded" => v = "ok"
  BY DEF OutcomeOf

\* Claiming an id for a command gives it a proper row.
LEMMA ClaimTyped ==
    ASSUME TypeOK, NEW c \in Commands
    PROVE  Claimed(c) \in [CommandIds -> Rows]
<1>1. NewRow(c.request) \in Rows
  BY DEF NewRow, Rows, Commands, Statuses, Errors
<1> QED
  BY <1>1 DEF TypeOK, Claimed

\* Types hold at the start.
LEMMA TypedInit == Init => Typed
<1> SUFFICES ASSUME Init PROVE Typed
  OBVIOUS
<1>1. NoRow \in Rows
  BY DEF NoRow, Rows, Errors
<1>2. Len(<<>>) = 0
  OBVIOUS
<1> QED
  BY <1>1, <1>2, CapacityAssumption, BoundAssumption DEF Init, Typed, TypeOK, HandlerBusy

\* Types are preserved by every step.
LEMMA TypedNext == Typed /\ [Next]_vars => Typed'
<1> SUFFICES ASSUME Typed, [Next]_vars PROVE Typed'
  OBVIOUS
<1> USE DEF Typed
<1>1. ASSUME NEW w \in WireIds, NEW r \in Requests, Deliver(w, r) PROVE Typed'
  <2>1. [id |-> w, request |-> r] \in Commands
    BY DEF Commands
  <2>2. inbound' \in Seq(Commands) /\ Len(inbound') <= MaxInbound
    BY <1>1, <2>1, BoundAssumption DEF Deliver, TypeOK
  <2> QED
    BY <1>1, <2>2 DEF Deliver, TypeOK, HandlerBusy, Key
<1>2. ASSUME BeginNew PROVE Typed'
  <2>1. Frame \in Commands /\ Key(Frame) \in CommandIds
        /\ Tail(inbound) \in Seq(Commands) /\ Len(Tail(inbound)) <= Len(inbound)
    BY <1>2, FrameIsCommand DEF BeginNew, Receive, TypeOK
  <2>2. ledger' \in [CommandIds -> Rows]
    BY <1>2, <2>1, ClaimTyped DEF BeginNew
  <2>3. Len(inbound') <= MaxInbound
    BY <1>2, <2>1, BoundAssumption DEF BeginNew, TypeOK
  <2> QED
    BY <1>2, <2>1, <2>2, <2>3 DEF BeginNew, TypeOK, HandlerBusy, Key
<1>3. ASSUME BeginExisting PROVE Typed'
  <2>1. Frame \in Commands /\ Key(Frame) \in CommandIds
        /\ Tail(inbound) \in Seq(Commands) /\ Len(Tail(inbound)) <= Len(inbound)
    BY <1>3, FrameIsCommand DEF BeginExisting, Receive, TypeOK
  <2>2. reply' \in Outcomes
    BY <1>3, <2>1, RowsTyped DEF BeginExisting, Row, IsNew, TypeOK
  <2>3. Len(inbound') <= MaxInbound
    BY <1>3, <2>1, BoundAssumption DEF BeginExisting, TypeOK
  <2> QED
    BY <1>3, <2>1, <2>2, <2>3 DEF BeginExisting, TypeOK, HandlerBusy, Key
<1>4. ASSUME BeginMismatch PROVE Typed'
  <2>1. Frame \in Commands /\ Key(Frame) \in CommandIds
        /\ Tail(inbound) \in Seq(Commands) /\ Len(Tail(inbound)) <= Len(inbound)
    BY <1>4, FrameIsCommand DEF BeginMismatch, Receive, TypeOK
  <2>2. reply' \in Outcomes
    BY <1>4 DEF BeginMismatch, Outcomes, Statuses, Errors
  <2>3. Len(inbound') <= MaxInbound
    BY <1>4, <2>1, BoundAssumption DEF BeginMismatch, TypeOK
  <2> QED
    BY <1>4, <2>1, <2>2, <2>3 DEF BeginMismatch, TypeOK, HandlerBusy, Key
<1>5. ASSUME BeginRejected PROVE Typed'
  <2>1. /\ link' \in {"up", "down"}
        /\ inbound' \in Seq(Commands) /\ Len(inbound') <= MaxInbound
        /\ outbound' \in Seq(Results) /\ Len(outbound') <= Capacity
    BY <1>5, EndSessionTyped DEF BeginRejected
  <2> QED
    BY <1>5, <2>1 DEF BeginRejected, Receive, TypeOK, HandlerBusy
<1>6. ASSUME BeginFault PROVE Typed'
  <2>1. /\ link' \in {"up", "down"}
        /\ inbound' \in Seq(Commands) /\ Len(inbound') <= MaxInbound
        /\ outbound' \in Seq(Results) /\ Len(outbound') <= Capacity
    BY <1>6, EndSessionTyped DEF BeginFault
  <2>2. faults' \in [{"crash", "break", "db"} -> Nat]
    BY <1>6, StrikeTyped DEF BeginFault
  <2>3. Frame \in Commands
    BY <1>6, FrameIsCommand DEF BeginFault, Receive, TypeOK
  <2>4. ledger' \in [CommandIds -> Rows]
    BY <1>6, <2>3, ClaimTyped DEF BeginFault, TypeOK
  <2> QED
    BY <1>6, <2>1, <2>2, <2>4 DEF BeginFault, Receive, TypeOK, HandlerBusy
<1>7. ASSUME Execute PROVE Typed'
  <2> PICK v \in Verdicts :
        /\ effects' = [effects EXCEPT ![Key(cmd)] =
                            Append(@, [request |-> cmd.request, verdict |-> v])]
        /\ reply' = OutcomeOf(v)
    BY <1>7 DEF Execute
  <2>1. reply' \in Outcomes
    BY DEF OutcomeOf, Outcomes, Statuses, Errors
  <2>2. cmd \in Commands /\ Key(cmd) \in CommandIds
    BY <1>7 DEF Execute, HandlerBusy
  <2>3. [request |-> cmd.request, verdict |-> v] \in [request : Requests, verdict : Verdicts]
    BY <2>2 DEF Commands
  <2>4. effects' \in [CommandIds -> Seq([request : Requests, verdict : Verdicts])]
    <3> DEFINE E == [request : Requests, verdict : Verdicts]
               e == [request |-> cmd.request, verdict |-> v]
    <3> HIDE DEF E, e
    <3>1. e \in E
      BY <2>3 DEF E, e
    <3>2. effects \in [CommandIds -> Seq(E)]
      BY DEF TypeOK, E
    <3>3. Append(effects[Key(cmd)], e) \in Seq(E)
      BY <2>2, <3>1, <3>2
    <3>4. effects' = [effects EXCEPT ![Key(cmd)] = Append(effects[Key(cmd)], e)]
      BY DEF e
    <3> QED
      BY <3>2, <3>3, <3>4 DEF E
  <2> QED
    BY <1>7, <2>1, <2>2, <2>4 DEF Execute, TypeOK, HandlerBusy, Key
<1>8. ASSUME Complete PROVE Typed'
  <2>1. cmd \in Commands /\ Key(cmd) \in CommandIds /\ reply \in Outcomes
    BY <1>8 DEF Complete, HandlerBusy
  <2>2. ledger' \in [CommandIds -> Rows]
    BY <1>8, <2>1 DEF Complete, TypeOK, Rows, Outcomes
  <2> QED
    BY <1>8, <2>1, <2>2 DEF Complete, TypeOK, HandlerBusy, Key
<1>9. ASSUME CompleteFault PROVE Typed'
  <2>1. /\ link' \in {"up", "down"}
        /\ inbound' \in Seq(Commands) /\ Len(inbound') <= MaxInbound
        /\ outbound' \in Seq(Results) /\ Len(outbound') <= Capacity
    BY <1>9, EndSessionTyped DEF CompleteFault
  <2>2. faults' \in [{"crash", "break", "db"} -> Nat]
    BY <1>9, StrikeTyped DEF CompleteFault
  <2> QED
    BY <1>9, <2>1, <2>2 DEF CompleteFault, Return, TypeOK, HandlerBusy, Key
<1>10. ASSUME SendReply PROVE Typed'
  <2>1. cmd \in Commands /\ reply \in Outcomes
    BY <1>10 DEF SendReply, HandlerBusy
  <2>2. [id |-> cmd.id, request |-> cmd.request,
         status |-> reply.status, error |-> reply.error] \in Results
    BY <2>1 DEF Commands, Outcomes, Results
  <2>3. outbound' \in Seq(Results) /\ Len(outbound') <= Capacity
    BY <1>10, <2>2, CapacityAssumption DEF SendReply, HasRoom, TypeOK
  <2> QED
    BY <1>10, <2>3 DEF SendReply, Return, TypeOK, HandlerBusy
<1>11. ASSUME SendFails PROVE Typed'
  BY <1>11 DEF SendFails, Return, TypeOK, HandlerBusy
<1>12. ASSUME Transmit PROVE Typed'
  <2>1. /\ Head(outbound) \in Results
        /\ outbound' \in Seq(Results) /\ Len(outbound') <= Capacity
    BY <1>12, CapacityAssumption DEF Transmit, TypeOK
  <2> QED
    BY <1>12, <2>1 DEF Transmit, TypeOK, HandlerBusy, Key
<1>13. ASSUME Break PROVE Typed'
  <2>1. /\ link' \in {"up", "down"}
        /\ inbound' \in Seq(Commands) /\ Len(inbound') <= MaxInbound
        /\ outbound' \in Seq(Results) /\ Len(outbound') <= Capacity
    BY <1>13, EndSessionTyped DEF Break
  <2>2. faults' \in [{"crash", "break", "db"} -> Nat]
    BY <1>13, StrikeTyped DEF Break
  <2> QED
    BY <1>13, <2>1, <2>2 DEF Break, TypeOK, HandlerBusy, Key
<1>14. ASSUME Connect PROVE Typed'
  BY <1>14 DEF Connect, TypeOK, HandlerBusy
<1>15. ASSUME Crash PROVE Typed'
  <2>1. /\ link' \in {"up", "down"}
        /\ inbound' \in Seq(Commands) /\ Len(inbound') <= MaxInbound
        /\ outbound' \in Seq(Results) /\ Len(outbound') <= Capacity
    BY <1>15, EndSessionTyped DEF Crash
  <2>2. faults' \in [{"crash", "break", "db"} -> Nat]
    BY <1>15, StrikeTyped DEF Crash
  <2> QED
    BY <1>15, <2>1, <2>2 DEF Crash, TypeOK, HandlerBusy, Key
<1>16. ASSUME Restart PROVE Typed'
  <2>1. ledger' \in [CommandIds -> Rows]
    BY <1>16, RowsTyped DEF Restart, Reopened, TypeOK
  <2> QED
    BY <1>16, <2>1 DEF Restart, TypeOK, HandlerBusy
<1>17. ASSUME UNCHANGED vars PROVE Typed'
  BY <1>17 DEF vars, TypeOK, HandlerBusy, Key
<1> QED
  BY <1>1, <1>2, <1>3, <1>4, <1>5, <1>6, <1>7, <1>8, <1>9, <1>10, <1>11, <1>12,
     <1>13, <1>14, <1>15, <1>16, <1>17 DEF Next

\* The table, the stream and the handler keep their types in every reachable
\* state, and neither direction of the session outgrows its bound.
THEOREM TypeCorrect == Spec => []TypeOK
<1>1. Spec => []Typed
  BY TypedInit, TypedNext, PTL DEF Spec
<1>2. Typed => TypeOK
  BY DEF Typed
<1> QED
  BY <1>1, <1>2, PTL
--------------------------------------------------------------------------------
\* How one row may follow another: an absent one may appear, a running one may
\* end, and a row that has ended is left alone.
Follows(row, next) ==
    /\ row.status # "absent" => next.status # "absent" /\ next.request = row.request
    /\ row.status \in {"succeeded", "failed"} => next = row

\* What is said of command c, as outcome o, is true of the rows in table t.
Backed(t, c, o) ==
    /\ Key(c) \in CommandIds
    /\ t[Key(c)].status # "absent"
    /\ t[Key(c)].request = c.request =>
            \/ o.status = "running"
            \/ o.status = t[Key(c)].status /\ o.error = t[Key(c)].error
    /\ t[Key(c)].request # c.request =>
            o.status = "failed" /\ o.error = "command_id_payload_mismatch"

\* A row and what was executed under its id belong together.
RowBacked(k) ==
    /\ ledger[k].status = "absent" => effects[k] = <<>> /\ ledger[k].request = NoRequest
    /\ \/ effects[k] = <<>>
       \/ \E v \in Verdicts : effects[k] = <<[request |-> ledger[k].request, verdict |-> v]>>
    /\ ledger[k].status = "succeeded" =>
            effects[k] = <<[request |-> ledger[k].request, verdict |-> "ok"]>>

\* The row of the command being executed is the handler's own, and what it is
\* about to answer is backed by the table.
HandlerOwns ==
    /\ pc \in {"claimed", "ran"} =>
            ledger[Key(cmd)].status = "running" /\ ledger[Key(cmd)].request = cmd.request
    /\ pc = "claimed" => effects[Key(cmd)] = <<>>
    /\ pc = "ran" => \E v \in Verdicts :
            /\ effects[Key(cmd)] = <<[request |-> cmd.request, verdict |-> v]>>
            /\ reply = OutcomeOf(v)
    /\ pc = "replying" => Backed(ledger, cmd, reply)

QueueBacked == \A i \in 1..Len(outbound) : Backed(ledger, outbound[i], outbound[i])
AnswersBacked == \A a \in answers : Backed(ledger, a, a)

\* The inductive invariant.
IInv ==
    /\ Typed
    /\ \A k \in CommandIds : RowBacked(k)
    /\ HandlerOwns
    /\ QueueBacked
    /\ AnswersBacked

\* What a table backs, every table that follows it backs.
LEMMA BackedFollows ==
    ASSUME NEW t, NEW u, NEW c, NEW o,
           \A k \in CommandIds : Follows(t[k], u[k]),
           t[Key(c)].status \in Statuses \cup {"absent"},
           Backed(t, c, o)
    PROVE  Backed(u, c, o)
<1> DEFINE k == Key(c)
<1>1. k \in CommandIds /\ Follows(t[k], u[k])
  BY DEF Backed
<1> HIDE DEF k
<1>2. Backed(u, c, o) <=>
        /\ k \in CommandIds
        /\ u[k].status # "absent"
        /\ u[k].request = c.request =>
                \/ o.status = "running"
                \/ o.status = u[k].status /\ o.error = u[k].error
        /\ u[k].request # c.request =>
                o.status = "failed" /\ o.error = "command_id_payload_mismatch"
  BY DEF Backed, k
<1>3. /\ t[k].status # "absent"
      /\ t[k].request = c.request =>
                \/ o.status = "running"
                \/ o.status = t[k].status /\ o.error = t[k].error
      /\ t[k].request # c.request =>
                o.status = "failed" /\ o.error = "command_id_payload_mismatch"
  BY DEF Backed, k
<1>4. t[k].status \in Statuses \cup {"absent"}
  BY DEF k
<1> QED
  BY <1>1, <1>2, <1>3, <1>4 DEF Follows, Statuses

\* Every step lets every row only follow the row before it: the claim finds
\* the row absent, the completion finds it running, and reopening the table
\* touches the running rows only.
LEMMA RowsFollow ==
    ASSUME IInv, [Next]_vars
    PROVE  \A k \in CommandIds : Follows(ledger[k], ledger'[k])
<1>1. CASE ledger' = ledger
  BY <1>1 DEF Follows
<1>2. CASE BeginNew \/ BeginFault
  <2> SUFFICES ASSUME ledger' = Claimed(Frame), IsNew(Row),
                      NEW k \in CommandIds
               PROVE  Follows(ledger[k], ledger'[k])
    BY <1>1, <1>2 DEF BeginNew, BeginFault
  <2>1. ledger' = [ledger EXCEPT ![Key(Frame)] = NewRow(Frame.request)]
    BY DEF Claimed
  <2>2. ledger[Key(Frame)].status = "absent"
    BY DEF IsNew, Row
  <2>3. ledger \in [CommandIds -> Rows]
    BY DEF IInv, Typed, TypeOK
  <2> QED
    BY <2>1, <2>2, <2>3 DEF Follows
<1>3. CASE Complete
  <2> SUFFICES ASSUME NEW k \in CommandIds PROVE Follows(ledger[k], ledger'[k])
    OBVIOUS
  <2>1. /\ ledger \in [CommandIds -> Rows]
        /\ Key(cmd) \in CommandIds
        /\ ledger[Key(cmd)].status = "running"
        /\ reply.status \in Statuses
    BY <1>3 DEF Complete, IInv, Typed, TypeOK, HandlerBusy, HandlerOwns, Outcomes
  <2> QED
    BY <1>3, <2>1 DEF Complete, Follows, Rows, Statuses
<1>4. CASE Restart
  <2> SUFFICES ASSUME NEW k \in CommandIds PROVE Follows(ledger[k], ledger'[k])
    OBVIOUS
  <2>1. ledger[k] \in Rows
    BY DEF IInv, Typed, TypeOK
  <2> QED
    BY <1>4, <2>1 DEF Restart, Reopened, GivenUp, Follows, Rows
<1> QED
  BY <1>1, <1>2, <1>3, <1>4
  DEF Next, vars, Deliver, BeginExisting, BeginMismatch, BeginRejected, Execute,
      CompleteFault, SendReply, SendFails, Transmit, Break, Connect, Crash

\* The invariant holds at the start.
LEMMA IInvInit == Init => IInv
<1> SUFFICES ASSUME Init PROVE IInv
  OBVIOUS
<1>1. Typed
  BY TypedInit
<1>2. \A k \in CommandIds : RowBacked(k)
  BY DEF Init, RowBacked, NoRow
<1>3. HandlerOwns
  BY DEF Init, HandlerOwns
<1>4. QueueBacked /\ AnswersBacked
  BY DEF Init, QueueBacked, AnswersBacked
<1> QED
  BY <1>1, <1>2, <1>3, <1>4 DEF IInv

\* What has been executed under an id stays what its row says, whatever step is
\* taken.
LEMMA RowBackedNext ==
    ASSUME IInv, [Next]_vars, NEW k \in CommandIds
    PROVE  RowBacked(k)'
<1>0. RowBacked(k) /\ ledger \in [CommandIds -> Rows]
      /\ effects \in [CommandIds -> Seq([request : Requests, verdict : Verdicts])]
  BY DEF IInv, Typed, TypeOK
<1>1. CASE ledger' = ledger /\ effects' = effects
  BY <1>0, <1>1 DEF RowBacked
<1>2. CASE BeginNew \/ BeginFault
  <2> SUFFICES ASSUME ledger' = Claimed(Frame), IsNew(Row), effects' = effects
               PROVE  RowBacked(k)'
    BY <1>1, <1>2 DEF BeginNew, BeginFault
  <2>1. CASE k = Key(Frame)
    <3>1. effects[k] = <<>>
      BY <1>0, <2>1 DEF RowBacked, IsNew, Row
    <3>2. ledger'[k] = NewRow(Frame.request)
      BY <1>0, <2>1 DEF Claimed
    <3>3. ledger'[k].status = "running" /\ effects'[k] = <<>>
      BY <3>1, <3>2, NewRowFields
    <3> QED
      BY <3>3 DEF RowBacked
  <2>2. CASE k # Key(Frame)
    <3>1. ledger'[k] = ledger[k]
      BY <1>0, <2>2 DEF Claimed
    <3> QED
      BY <1>0, <3>1 DEF RowBacked
  <2> QED
    BY <2>1, <2>2
<1>3. CASE Execute
  <2> PICK v \in Verdicts : effects' = [effects EXCEPT ![Key(cmd)] =
                            Append(@, [request |-> cmd.request, verdict |-> v])]
    BY <1>3 DEF Execute
  <2>1. CASE k = Key(cmd)
    <3>1. /\ effects[k] = <<>>
          /\ ledger[k].status = "running"
          /\ ledger[k].request = cmd.request
      BY <1>3, <2>1 DEF Execute, IInv, HandlerOwns
    <3>2. effects'[k] = <<[request |-> cmd.request, verdict |-> v]>>
      BY <1>0, <2>1, <3>1
    <3> QED
      BY <1>3, <3>1, <3>2 DEF Execute, RowBacked
  <2>2. CASE k # Key(cmd)
    <3>1. effects'[k] = effects[k]
      BY <1>0, <2>2
    <3> QED
      BY <1>0, <1>3, <3>1 DEF Execute, RowBacked
  <2> QED
    BY <2>1, <2>2
<1>4. CASE Complete
  <2>1. CASE k = Key(cmd)
    <3>1. PICK v \in Verdicts :
            /\ effects[k] = <<[request |-> cmd.request, verdict |-> v]>>
            /\ reply = OutcomeOf(v)
      BY <1>4, <2>1 DEF Complete, IInv, HandlerOwns
    <3>2. ledger[k].request = cmd.request
      BY <1>4, <2>1 DEF Complete, IInv, HandlerOwns
    <3>3. ledger'[k].request = cmd.request /\ ledger'[k].status = reply.status
      BY <1>0, <1>4, <2>1, <3>2 DEF Complete, Rows
    <3>4. reply.status \in {"succeeded", "failed"}
          /\ (reply.status = "succeeded" => v = "ok")
      BY <3>1, OutcomeFields
    <3> QED
      BY <1>4, <3>1, <3>3, <3>4 DEF Complete, RowBacked
  <2>2. CASE k # Key(cmd)
    <3>1. ledger'[k] = ledger[k]
      BY <1>0, <1>4, <2>2 DEF Complete
    <3> QED
      BY <1>0, <1>4, <3>1 DEF Complete, RowBacked
  <2> QED
    BY <2>1, <2>2
<1>5. CASE Restart
  <2>1. ledger[k] \in Rows
    BY <1>0
  <2>2. /\ ledger'[k].request = ledger[k].request
        /\ ledger'[k].status \in {ledger[k].status, "failed"}
        /\ ledger'[k].status = "absent" => ledger[k].status = "absent"
    BY <1>5, <2>1 DEF Restart, Reopened, GivenUp, Rows
  <2> QED
    BY <1>0, <1>5, <2>2 DEF Restart, RowBacked
<1> QED
  BY <1>1, <1>2, <1>3, <1>4, <1>5
  DEF Next, vars, Deliver, BeginExisting, BeginMismatch, BeginRejected,
      CompleteFault, SendReply, SendFails, Transmit, Break, Connect, Crash

\* The handler's row stays its own until it answers, and its answer is backed.
LEMMA HandlerOwnsNext ==
    ASSUME IInv, [Next]_vars
    PROVE  HandlerOwns'
<1>0. /\ ledger \in [CommandIds -> Rows]
      /\ effects \in [CommandIds -> Seq([request : Requests, verdict : Verdicts])]
      /\ HandlerOwns /\ HandlerBusy
  BY DEF IInv, Typed, TypeOK
<1>1. CASE pc' \in {"idle", "dead"}
  BY <1>1 DEF HandlerOwns
<1>2. CASE BeginNew
  <2>1. Key(Frame) \in CommandIds /\ RowBacked(Key(Frame))
    BY <1>2, FrameIsCommand DEF BeginNew, Receive, IInv, Typed, TypeOK
  <2>2. ledger'[Key(Frame)] = NewRow(Frame.request) /\ effects'[Key(Frame)] = <<>>
    BY <1>0, <1>2, <2>1 DEF BeginNew, Claimed, RowBacked, IsNew, Row
  <2> QED
    BY <1>2, <2>2, NewRowFields DEF BeginNew, HandlerOwns, Key
<1>3. CASE BeginExisting
  <2>1. Key(Frame) \in CommandIds /\ Row \in Rows
    BY <1>0, <1>3, FrameIsCommand DEF BeginExisting, Receive, IInv, Typed, TypeOK, Row
  <2>2. Backed(ledger, Frame, ReplyFor(Row))
    BY <1>3, <2>1 DEF BeginExisting, Backed, ReplyFor, Row, IsNew, SameRequest
  <2> QED
    BY <1>3, <2>2 DEF BeginExisting, HandlerOwns, Backed, Key
<1>4. CASE BeginMismatch
  <2>1. Key(Frame) \in CommandIds
    BY <1>4, FrameIsCommand DEF BeginMismatch, Receive, IInv, Typed, TypeOK
  <2>2. Backed(ledger, Frame, [status |-> "failed", error |-> "command_id_payload_mismatch"])
    BY <1>4, <2>1 DEF BeginMismatch, Backed, Row, IsNew, SameRequest
  <2> QED
    BY <1>4, <2>2 DEF BeginMismatch, HandlerOwns, Backed, Key
<1>5. CASE Execute
  <2> PICK v \in Verdicts :
        /\ effects' = [effects EXCEPT ![Key(cmd)] =
                            Append(@, [request |-> cmd.request, verdict |-> v])]
        /\ reply' = OutcomeOf(v)
    BY <1>5 DEF Execute
  <2>1. /\ Key(cmd) \in CommandIds
        /\ effects[Key(cmd)] = <<>>
        /\ ledger[Key(cmd)].status = "running"
        /\ ledger[Key(cmd)].request = cmd.request
    BY <1>0, <1>5 DEF Execute, HandlerBusy, HandlerOwns
  <2>2. effects'[Key(cmd)] = <<[request |-> cmd.request, verdict |-> v]>>
    BY <1>0, <2>1
  <2> QED
    BY <1>5, <2>1, <2>2 DEF Execute, HandlerOwns, Key
<1>6. CASE Complete
  <2>1. /\ Key(cmd) \in CommandIds
        /\ ledger[Key(cmd)].request = cmd.request
        /\ \E v \in Verdicts : reply = OutcomeOf(v)
    BY <1>0, <1>6 DEF Complete, HandlerBusy, HandlerOwns
  <2>2. /\ ledger'[Key(cmd)].request = cmd.request
        /\ ledger'[Key(cmd)].status = reply.status
        /\ ledger'[Key(cmd)].error = reply.error
    BY <1>0, <1>6, <2>1 DEF Complete, Rows
  <2>3. reply.status # "absent"
    BY <2>1, OutcomeFields
  <2>4. Backed(ledger', cmd, reply)
    BY <2>1, <2>2, <2>3 DEF Backed
  <2> QED
    BY <1>6, <2>4 DEF Complete, HandlerOwns, Backed, Key
<1>7. CASE \/ \E w \in WireIds, r \in Requests : Deliver(w, r)
           \/ Transmit \/ Break \/ UNCHANGED vars
  BY <1>0, <1>7 DEF Deliver, Transmit, Break, vars, HandlerOwns, Backed, Key
<1> QED
  BY <1>1, <1>2, <1>3, <1>4, <1>5, <1>6, <1>7
  DEF Next, BeginRejected, Receive, BeginFault, CompleteFault, SendReply, SendFails,
      Return, Connect, Crash, Restart

\* Every result in the session's channel is backed by the table.
LEMMA QueueBackedNext ==
    ASSUME IInv, [Next]_vars
    PROVE  QueueBacked'
<1>0. /\ outbound \in Seq(Results)
      /\ ledger \in [CommandIds -> Rows]
      /\ QueueBacked
  BY DEF IInv, Typed, TypeOK
<1>1. \A i \in 1..Len(outbound) : Backed(ledger', outbound[i], outbound[i])
  <2> SUFFICES ASSUME NEW i \in 1..Len(outbound)
               PROVE  Backed(ledger', outbound[i], outbound[i])
    OBVIOUS
  <2>1. Backed(ledger, outbound[i], outbound[i])
    BY <1>0 DEF QueueBacked
  <2>2. ledger[Key(outbound[i])].status \in Statuses \cup {"absent"}
    BY <1>0, <2>1 DEF Backed, Rows
  <2> QED
    BY <2>1, <2>2, RowsFollow, BackedFollows
<1>2. CASE outbound' = outbound
  BY <1>1, <1>2 DEF QueueBacked, Backed, Key
<1>3. CASE outbound' = <<>>
  BY <1>3 DEF QueueBacked
<1>4. CASE Transmit
  <2>1. /\ outbound # <<>> /\ outbound' = Tail(outbound)
    BY <1>4 DEF Transmit
  <2>2. \A i \in 1..Len(outbound') : i + 1 \in 1..Len(outbound) /\ outbound'[i] = outbound[i + 1]
    BY <1>0, <2>1
  <2> QED
    BY <1>1, <2>2 DEF QueueBacked, Backed, Key
<1>5. CASE SendReply
  <2> DEFINE e == [id |-> cmd.id, request |-> cmd.request,
                   status |-> reply.status, error |-> reply.error]
  <2>1. Backed(ledger, cmd, reply)
    BY <1>5 DEF SendReply, IInv, HandlerOwns
  <2>2. Backed(ledger', e, e)
    BY <1>5, <2>1 DEF SendReply, Backed, Key
  <2>3. outbound' = Append(outbound, e)
    BY <1>5 DEF SendReply
  <2>4. cmd \in Commands /\ reply \in Outcomes
    BY <1>5 DEF SendReply, IInv, Typed, HandlerBusy
  <2>5. e \in Results
    BY <2>4 DEF Commands, Outcomes, Results
  <2> HIDE DEF e
  <2>6. \A i \in 1..Len(outbound') :
            \/ i \in 1..Len(outbound) /\ outbound'[i] = outbound[i]
            \/ outbound'[i] = e
    BY <1>0, <2>3, <2>5
  <2> QED
    BY <1>1, <2>2, <2>6 DEF QueueBacked, Backed, Key
<1> QED
  BY <1>2, <1>3, <1>4, <1>5
  DEF Next, vars, Deliver, BeginNew, BeginExisting, BeginMismatch, BeginRejected,
      BeginFault, EndSession, Execute, Complete, CompleteFault, SendFails, Break,
      Connect, Crash, Restart

\* Every answer the hypervisor has is backed by the table, and stays so.
LEMMA AnswersBackedNext ==
    ASSUME IInv, [Next]_vars
    PROVE  AnswersBacked'
<1>0. /\ outbound \in Seq(Results)
      /\ ledger \in [CommandIds -> Rows]
      /\ QueueBacked /\ AnswersBacked
  BY DEF IInv, Typed, TypeOK
<1>1. \A a : Backed(ledger, a, a) => Backed(ledger', a, a)
  <2> SUFFICES ASSUME NEW a, Backed(ledger, a, a) PROVE Backed(ledger', a, a)
    OBVIOUS
  <2>1. ledger[Key(a)].status \in Statuses \cup {"absent"}
    BY <1>0 DEF Backed, Rows
  <2> QED
    BY <2>1, RowsFollow, BackedFollows
<1>2. CASE answers' = answers
  BY <1>0, <1>1, <1>2 DEF AnswersBacked, Backed, Key
<1>3. CASE Transmit
  <2>1. outbound # <<>> /\ answers' = answers \cup {Head(outbound)}
    BY <1>3 DEF Transmit
  <2>2. Backed(ledger, Head(outbound), Head(outbound))
    BY <1>0, <2>1 DEF QueueBacked
  <2> QED
    BY <1>0, <1>1, <2>1, <2>2 DEF AnswersBacked, Backed, Key
<1> QED
  BY <1>2, <1>3
  DEF Next, vars, Deliver, BeginNew, BeginExisting, BeginMismatch, BeginRejected,
      BeginFault, Execute, Complete, CompleteFault, SendReply, SendFails, Break,
      Connect, Crash, Restart

\* The invariant holds in every reachable state.
THEOREM Invariance == Spec => []IInv
<1>1. IInv /\ [Next]_vars => IInv'
  <2> SUFFICES ASSUME IInv, [Next]_vars PROVE IInv'
    OBVIOUS
  <2>1. Typed'
    BY TypedNext DEF IInv
  <2>2. (\A k \in CommandIds : RowBacked(k))'
    BY RowBackedNext
  <2> QED
    BY <2>1, <2>2, HandlerOwnsNext, QueueBackedNext, AnswersBackedNext DEF IInv
<1> QED
  BY <1>1, IInvInit, PTL DEF Spec
--------------------------------------------------------------------------------
\* A command is executed at most once, whatever is redelivered, lost or crashed:
\* the row that begin_or_get inserts is never executed for again.
THEOREM ExecutedAtMostOnce == Spec => []AtMostOnce
<1>1. IInv => AtMostOnce
  <2> SUFFICES ASSUME IInv, NEW k \in CommandIds PROVE Len(effects[k]) <= 1
    BY DEF AtMostOnce
  <2>1. \/ effects[k] = <<>>
        \/ \E v \in Verdicts : effects[k] = <<[request |-> ledger[k].request, verdict |-> v]>>
    BY DEF IInv, RowBacked
  <2>2. CASE effects[k] = <<>>
    BY <2>2
  <2>3. CASE \E v \in Verdicts : effects[k] = <<[request |-> ledger[k].request, verdict |-> v]>>
    <3> PICK v \in Verdicts : effects[k] = <<[request |-> ledger[k].request, verdict |-> v]>>
      BY <2>3
    <3> DEFINE e == [request |-> ledger[k].request, verdict |-> v]
    <3>1. effects[k] = <<e>>
      OBVIOUS
    <3> HIDE DEF e
    <3> QED
      BY <3>1
  <2> QED
    BY <2>1, <2>2, <2>3
<1> QED
  BY <1>1, Invariance, PTL

\* What was executed under an id is the request of the id's row.
THEOREM ExecutedWhatWasClaimed == Spec => []EffectMatchesClaim
<1>1. IInv => EffectMatchesClaim
  <2> SUFFICES ASSUME IInv, NEW k \in CommandIds, effects[k] # <<>>
               PROVE  effects[k][1].request = ledger[k].request
    BY DEF EffectMatchesClaim
  <2>1. PICK v \in Verdicts :
            effects[k] = <<[request |-> ledger[k].request, verdict |-> v]>>
    BY DEF IInv, RowBacked
  <2> QED
    BY <2>1
<1> QED
  BY <1>1, Invariance, PTL

\* Success is recorded and answered only of what was executed and went well.
THEOREM SuccessIsBacked == Spec => []SuccessIsReal
<1>1. IInv => SuccessIsReal
  <2> SUFFICES ASSUME IInv PROVE SuccessIsReal
    OBVIOUS
  <2>1. ASSUME NEW k \in CommandIds, ledger[k].status = "succeeded"
        PROVE  effects[k] = <<[request |-> ledger[k].request, verdict |-> "ok"]>>
    BY <2>1 DEF IInv, RowBacked
  <2>2. ASSUME NEW a \in answers, a.status = "succeeded"
        PROVE  effects[Trim[a.id]] = <<[request |-> a.request, verdict |-> "ok"]>>
    <3>1. Backed(ledger, a, a)
      BY DEF IInv, AnswersBacked
    <3>2. /\ Trim[a.id] \in CommandIds
          /\ ledger[Trim[a.id]].request = a.request
          /\ ledger[Trim[a.id]].status = "succeeded"
      BY <2>2, <3>1 DEF Backed, Key
    <3> QED
      BY <2>1, <3>2
  <2> QED
    BY <2>1, <2>2 DEF SuccessIsReal
<1> QED
  BY <1>1, Invariance, PTL

\* Two final answers to one request agree: both are what its one row says, or
\* both say that its id belongs to another request.
THEOREM AnswersNeverDiffer == Spec => []AnswersAgree
<1>1. IInv => AnswersAgree
  <2> SUFFICES ASSUME IInv, NEW a \in answers, NEW b \in answers,
                      Trim[a.id] = Trim[b.id], a.request = b.request,
                      a.status # "running", b.status # "running"
               PROVE  a.status = b.status /\ a.error = b.error
    BY DEF AnswersAgree
  <2>1. Backed(ledger, a, a) /\ Backed(ledger, b, b)
    BY DEF IInv, AnswersBacked
  <2> QED
    BY <2>1 DEF Backed, Key
<1> QED
  BY <1>1, Invariance, PTL

\* A recorded verdict is never changed and an id never changes hands.
THEOREM VerdictIsFinal == Spec => VerdictFinal
<1>1. IInv /\ [Next]_vars =>
        [\A k \in CommandIds :
            /\ ledger[k].status \in {"succeeded", "failed"} => ledger'[k] = ledger[k]
            /\ ledger[k].request # NoRequest => ledger'[k].request = ledger[k].request]_vars
  <2> SUFFICES ASSUME IInv, [Next]_vars, NEW k \in CommandIds
               PROVE  /\ ledger[k].status \in {"succeeded", "failed"} => ledger'[k] = ledger[k]
                      /\ ledger[k].request # NoRequest => ledger'[k].request = ledger[k].request
    OBVIOUS
  <2>1. Follows(ledger[k], ledger'[k])
    BY RowsFollow
  <2>2. ledger[k].request # NoRequest => ledger[k].status # "absent"
    BY DEF IInv, RowBacked
  <2> QED
    BY <2>1, <2>2 DEF Follows
<1> QED
  BY <1>1, Invariance, PTL DEF Spec, VerdictFinal

\* While no database statement has failed, a row that says "running" has a live
\* handler working on it, or waits for the restart that will give it up.
THEOREM NothingStranded == Spec => []NoStrandedRecord
<1>1. Init => NoStrandedRecord
  <2>1. NoRow.status = "absent"
    BY DEF NoRow
  <2> QED
    BY <2>1 DEF Init, NoStrandedRecord
<1>2. IInv /\ NoStrandedRecord /\ [Next]_vars => NoStrandedRecord'
  <2> SUFFICES ASSUME IInv, NoStrandedRecord, [Next]_vars,
                      faults'["db"] = 0, NEW k \in CommandIds,
                      ledger'[k].status = "running", pc' # "dead"
               PROVE  pc' \in {"claimed", "ran"} /\ Key(cmd)' = k
    BY DEF NoStrandedRecord
  <2>0. /\ ledger \in [CommandIds -> Rows]
        /\ faults \in [{"crash", "break", "db"} -> Nat]
        /\ HandlerBusy /\ HandlerOwns
    BY DEF IInv, Typed, TypeOK
  <2>1. ASSUME Strike("db") PROVE FALSE
    BY <2>0, <2>1 DEF Strike
  <2>2. ASSUME faults' = faults \/ Strike("break"), ledger[k].status = "running"
        PROVE  pc = "dead" \/ (pc \in {"claimed", "ran"} /\ Key(cmd) = k)
    BY <2>0, <2>2 DEF NoStrandedRecord, Strike
  <2>3. CASE BeginNew
    BY <2>0, <2>2, <2>3 DEF BeginNew, Receive, Claimed, Key
  <2>4. CASE BeginFault \/ CompleteFault
    BY <2>1, <2>4 DEF BeginFault, CompleteFault
  <2>5. CASE Complete
    <3>1. ledger[k].status = "running"
      BY <2>0, <2>5 DEF Complete, HandlerBusy, HandlerOwns, Follows
    <3>2. Key(cmd) = k
      BY <2>2, <2>5, <3>1 DEF Complete
    <3>3. ledger'[k].status = reply.status
      BY <2>0, <2>5, <3>2 DEF Complete, Rows
    <3>4. reply.status \in {"succeeded", "failed"}
      BY <2>0, <2>5, OutcomeFields DEF Complete, HandlerOwns
    <3> QED
      BY <3>3, <3>4
  <2>6. CASE Restart
    <3>1. ledger[k] \in Rows
      BY <2>0
    <3> QED
      BY <2>6, <3>1 DEF Restart, Reopened, GivenUp, Rows
  <2>7. CASE Execute \/ Break \/ Transmit \/ UNCHANGED vars
             \/ \E w \in WireIds, r \in Requests : Deliver(w, r)
    BY <2>2, <2>7 DEF Execute, Break, Transmit, vars, Deliver, Key
  <2>8. CASE BeginExisting \/ BeginMismatch \/ BeginRejected
             \/ SendReply \/ SendFails \/ Connect
    BY <2>2, <2>8 DEF BeginExisting, BeginMismatch, BeginRejected, Receive,
                      SendReply, SendFails, Connect
  <2> QED
    BY <2>3, <2>4, <2>5, <2>6, <2>7, <2>8 DEF Next, Crash
<1> QED
  BY <1>1, <1>2, Invariance, PTL DEF Spec
================================================================================
