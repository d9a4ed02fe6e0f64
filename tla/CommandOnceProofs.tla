--------------------------- MODULE CommandOnceProofs ---------------------------
(***************************************************************************)
(* CommandLedger implements CommandOnce: whatever the ledger, the handler, *)
(* the stream and the faults do in one step is one of the steps promised   *)
(* to the hypervisor, or changes nothing it can see.  The inductive        *)
(* invariant of CommandLedgerProofs says why: a command being executed     *)
(* owns a running row without an execution, an outcome about to be         *)
(* recorded is that of the execution, and a result on its way is backed by *)
(* the table.                                                              *)
(***************************************************************************)
EXTENDS CommandLedgerProofs

\* What the hypervisor can see of a step.
Seen == <<ledger, effects, answers>>

\* A step it cannot see is no step of the promise.
LEMMA UnseenStutters ==
    ASSUME UNCHANGED Seen
    PROVE  UNCHANGED Once!onceVars
  BY DEF Seen, Once!onceVars

\* A row inserted for a new command binds its id.
LEMMA InsertClaims ==
    ASSUME IInv, NEW c \in Commands, Key(c) \in CommandIds, IsNew(ledger[Key(c)]),
           ledger' = Claimed(c), UNCHANGED <<effects, answers>>
    PROVE  \E k \in CommandIds, r \in Requests : Once!Claim(k, r)
  <1> PICK k \in CommandIds : k = Key(c)
    OBVIOUS
  <1> PICK r \in Requests : r = c.request
    BY DEF Commands
  <1>1. ledger[k].status = "absent"
    BY DEF IsNew
  <1>2. ledger' = [ledger EXCEPT ![k] = NewRow(r)]
    BY DEF Claimed
  <1>3. ledger \in [CommandIds -> Rows]
    BY DEF IInv, Typed, TypeOK
  <1>4. \A i \in CommandIds :
            /\ ledger'[i].status = IF i = k THEN "running" ELSE ledger[i].status
            /\ ledger'[i].request = IF i = k THEN r ELSE ledger[i].request
    BY <1>2, <1>3, NewRowFields
  <1>5. Once!Claim(k, r)
    BY <1>1, <1>4 DEF Once!Claim
  <1> QED
    BY <1>5

\* execute_agent_command performs the bound request for the first time.
LEMMA ExecutePerforms ==
    ASSUME IInv, Execute
    PROVE  \E k \in CommandIds, v \in Verdicts : Once!Perform(k, v)
  <1> PICK k \in CommandIds : k = Key(cmd)
    BY DEF IInv, Typed, HandlerBusy, Execute
  <1> PICK v \in Verdicts :
        effects' = [effects EXCEPT ![Key(cmd)] =
                        Append(@, [request |-> cmd.request, verdict |-> v])]
    BY DEF Execute
  <1>1. effects \in [CommandIds -> Seq([request : Requests, verdict : Verdicts])]
    BY DEF IInv, Typed, TypeOK
  <1>2. ledger[k].status = "running" /\ ledger[k].request = cmd.request /\ effects[k] = <<>>
    BY DEF IInv, HandlerOwns, Execute
  <1>3. ledger' = ledger /\ answers' = answers
    BY DEF Execute
  <1>4. effects' = [effects EXCEPT ![k] = <<[request |-> cmd.request, verdict |-> v]>>]
    BY <1>1, <1>2
  <1>5. Once!Perform(k, v)
    BY <1>1, <1>2, <1>3, <1>4 DEF Once!Perform
  <1> QED
    BY <1>5

\* complete() records the verdict of the execution.
LEMMA CompleteRecords ==
    ASSUME IInv, Complete
    PROVE  \E k \in CommandIds : Once!Succeed(k) \/ Once!Fail({k})
  <1> PICK k \in CommandIds : k = Key(cmd)
    BY DEF IInv, Typed, HandlerBusy, Complete
  <1>1. ledger \in [CommandIds -> Rows]
    BY DEF IInv, Typed, TypeOK
  <1>2. ledger[k].status = "running" /\ ledger[k].request = cmd.request
    BY DEF IInv, HandlerOwns, Complete
  <1>3. PICK v \in Verdicts : /\ effects[k] = <<[request |-> cmd.request, verdict |-> v]>>
                              /\ reply = OutcomeOf(v)
    BY DEF IInv, HandlerOwns, Complete
  <1>4. effects' = effects /\ answers' = answers
    BY DEF Complete
  <1>5. \A i \in CommandIds :
            /\ ledger'[i].status = IF i = k THEN reply.status ELSE ledger[i].status
            /\ ledger'[i].request = ledger[i].request
    BY <1>1 DEF Complete, Rows
  <1>6. CASE reply.status = "succeeded"
    <2>1. v = "ok"
      BY <1>3, <1>6, OutcomeFields
    <2>2. Once!Succeed(k)
      BY <1>1, <1>2, <1>3, <1>4, <1>5, <1>6, <2>1 DEF Once!Succeed
    <2> QED
      BY <2>2
  <1>7. CASE reply.status = "failed"
    <2>1. Once!Fail({k})
      BY <1>1, <1>2, <1>4, <1>5, <1>7 DEF Once!Fail
    <2> QED
      BY <2>1
  <1> QED
    BY <1>3, <1>6, <1>7, OutcomeFields

\* Opening the table gives up what was running.
LEMMA RestartFails ==
    ASSUME IInv, Restart
    PROVE  \E K \in SUBSET CommandIds : Once!Fail(K)
  <1> PICK K \in SUBSET CommandIds : K = {k \in CommandIds : ledger[k].status = "running"}
    OBVIOUS
  <1>1. ledger \in [CommandIds -> Rows]
    BY DEF IInv, Typed, TypeOK
  <1>2. effects' = effects /\ answers' = answers
    BY DEF Restart
  <1>3. \A k \in CommandIds :
            /\ ledger'[k].status = IF k \in K THEN "failed" ELSE ledger[k].status
            /\ ledger'[k].request = ledger[k].request
    BY <1>1 DEF Restart, Reopened, GivenUp, Rows
  <1>4. Once!Fail(K)
    BY <1>2, <1>3 DEF Once!Fail
  <1> QED
    BY <1>4

\* A result that reaches the hypervisor is a truthful answer.
LEMMA TransmitAnswers ==
    ASSUME IInv, Transmit
    PROVE  \E k \in CommandIds, r \in Requests, s \in {"running", "succeeded", "failed"} :
                Once!Answer(k, r, s)
  <1>1. outbound \in Seq(Results) /\ outbound # <<>>
    BY DEF IInv, Typed, TypeOK, Transmit
  <1> PICK a \in Results : a = Head(outbound)
    BY <1>1
  <1>2. a = outbound[1] /\ 1 \in 1..Len(outbound)
    BY <1>1
  <1>3. Backed(ledger, a, a)
    BY <1>2 DEF IInv, QueueBacked
  <1>4. answers' = answers \cup {a} /\ ledger' = ledger /\ effects' = effects
    BY DEF Transmit
  <1>5. Trim[a.id] \in CommandIds /\ a.request \in Requests /\ a.status \in Statuses
    BY <1>2, <1>3 DEF Backed, Key, Results
  <1>6. Once!Truthful(Trim[a.id], a.request, a.status)
    BY <1>3, <1>5 DEF Backed, Key, Once!Truthful
  <1>7. Once!Answer(Trim[a.id], a.request, a.status)
    BY <1>4, <1>6 DEF Once!Answer
  <1> QED
    BY <1>5, <1>7 DEF Statuses

\* Every step of the ledger is a step of the promise or none.
LEMMA StepRefines == IInv /\ [Next]_vars => [Once!OnceNext]_(Once!onceVars)
  <1> SUFFICES ASSUME IInv, [Next]_vars PROVE [Once!OnceNext]_(Once!onceVars)
    OBVIOUS
  <1>0. Receive /\ Key(Frame) # Blank => Frame \in Commands /\ Key(Frame) \in CommandIds
    BY FrameIsCommand DEF IInv, Typed, TypeOK, Receive
  <1>2. CASE BeginNew
    <2> PICK c \in Commands : c = Frame
      BY <1>0, <1>2 DEF BeginNew
    <2>1. /\ Key(c) \in CommandIds /\ IsNew(ledger[Key(c)]) /\ ledger' = Claimed(c)
          /\ UNCHANGED <<effects, answers>>
      BY <1>0, <1>2 DEF BeginNew, Row
    <2> QED
      BY <2>1, InsertClaims DEF Once!OnceNext
  <1>3. CASE BeginFault
    <2>1. CASE ledger' = ledger
      <3>1. UNCHANGED Seen
        BY <1>3, <2>1 DEF BeginFault, Seen
      <3> QED
        BY <3>1, UnseenStutters
    <2>2. CASE IsNew(Row) /\ ledger' = Claimed(Frame)
      <3> PICK c \in Commands : c = Frame
        BY <1>0, <1>3 DEF BeginFault
      <3>1. /\ Key(c) \in CommandIds /\ IsNew(ledger[Key(c)]) /\ ledger' = Claimed(c)
            /\ UNCHANGED <<effects, answers>>
        BY <1>0, <1>3, <2>2 DEF BeginFault, Row
      <3> QED
        BY <3>1, InsertClaims DEF Once!OnceNext
    <2> QED
      BY <1>3, <2>1, <2>2 DEF BeginFault
  <1>4. CASE Execute
    BY <1>4, ExecutePerforms DEF Once!OnceNext
  <1>5. CASE Complete
    <2>1. PICK k \in CommandIds : Once!Succeed(k) \/ Once!Fail({k})
      BY <1>5, CompleteRecords
    <2>2. {k} \in SUBSET CommandIds
      OBVIOUS
    <2> QED
      BY <2>1, <2>2 DEF Once!OnceNext
  <1>6. CASE Transmit
    BY <1>6, TransmitAnswers DEF Once!OnceNext
  <1>7. CASE Restart
    BY <1>7, RestartFails DEF Once!OnceNext
  <1>8. CASE \/ \E w \in WireIds, r \in Requests : Deliver(w, r)
             \/ BeginExisting \/ BeginMismatch \/ BeginRejected \/ CompleteFault
             \/ SendReply \/ SendFails \/ Break \/ Connect \/ Crash \/ UNCHANGED vars
    <2>1. UNCHANGED Seen
      BY <1>8 DEF Deliver, BeginExisting, BeginMismatch, BeginRejected, CompleteFault,
                  SendReply, SendFails, Break, Connect, Crash, vars, Seen
    <2> QED
      BY <2>1, UnseenStutters
  <1> QED
    BY <1>2, <1>3, <1>4, <1>5, <1>6, <1>7, <1>8 DEF Next

\* At the start nothing is bound, performed or answered.
LEMMA InitRefines == Init => Once!OnceInit
  <1> SUFFICES ASSUME Init PROVE Once!OnceInit
    OBVIOUS
  <1>1. \A k \in CommandIds : ledger[k].status = "absent" /\ ledger[k].request = NoRequest
    BY DEF Init, NoRow
  <1>2. effects = [k \in CommandIds |-> <<>>] /\ answers = {}
    BY DEF Init
  <1> QED
    BY <1>1, <1>2 DEF Once!OnceInit

\* The promise is kept: with any ids, requests and bounds, over redeliveries, broken
\* streams, failed statements, crashes and restarts, begin_or_get, complete and
\* CommandLedger::open bind an id once, perform it at most once, record one verdict
\* and answer by it.
THEOREM LedgerImplementsOnce == Spec => RefinesCommandOnce
  <1>1. Init => Once!OnceInit
    BY InitRefines
  <1>2. IInv /\ [Next]_vars => [Once!OnceNext]_(Once!onceVars)
    BY StepRefines
  <1> QED
    BY <1>1, <1>2, Invariance, PTL DEF Spec, RefinesCommandOnce, Once!OnceSpec
================================================================================
