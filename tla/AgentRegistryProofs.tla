-------------------------- MODULE AgentRegistryProofs --------------------------
(***************************************************************************)
(* Rotation through the candidates is complete and without repeats, for    *)
(* any assignments and any number of failures: in a round the positions    *)
(* that failed are exactly those before the selector's, so that the one    *)
(* that exhausts them completes the set.                                   *)
(***************************************************************************)
EXTENDS AgentRegistry, WellFoundedInduction, TLAPS

RegistryInv == TypeOK /\ NoRetryWithinRound

\* A back-off that is doubled stays between the base and the maximum.
LEMMA DoubledInBounds ==
    ASSUME NEW b \in BaseBackoff..MaxBackoff
    PROVE  Doubled(b) \in BaseBackoff..MaxBackoff
  BY BackoffAssumption DEF Doubled, Lower

\* So does the base itself.
LEMMA BaseInBounds == BaseBackoff \in BaseBackoff..MaxBackoff
  BY BackoffAssumption

\* An assignment in use has at least one candidate.
LEMMA SomeCandidate ==
    ASSUME NEW a \in Assignments
    PROVE  Len(a.candidates) \in Nat \ {0}
  <1>1. a.candidates \in Seq(Targets) /\ a.candidates # <<>>
    BY AssignmentAssumption
  <1> QED
    BY <1>1

\* Before the last candidate, the rotation goes on to the next position.
LEMMA NextIsSuccessor ==
    ASSUME NEW n \in Nat, NEW i \in 1..n, i # n
    PROVE  (i % n) + 1 = i + 1
  <1>1. i \in Nat /\ n \in Nat \ {0} /\ i < n
    OBVIOUS
  <1> QED
    BY <1>1, Z3

\* A lost round is counted up to the bound.
LEMMA LossesInBounds ==
    ASSUME TypeOK, LostRound
    PROVE  losses' \in 0..MaxLosses
  BY RegistryBounds DEF TypeOK, LostRound, Lower

\* The initial state satisfies the invariant.
LEMMA RegistryInit == Init => RegistryInv
  <1> SUFFICES ASSUME Init PROVE RegistryInv
    OBVIOUS
  <1>1. TypeOK
    <2>1. {selBackoff, backoff} \subseteq BaseBackoff..MaxBackoff
      BY BaseInBounds DEF Init
    <2>2. faults \in 0..MaxFaults /\ changes \in 0..MaxChanges /\ losses \in 0..MaxLosses
      BY RegistryBounds DEF Init
    <2>3. {expired, changed, shutdown, paused} \subseteq BOOLEAN
      BY DEF Init
    <2> QED
      BY <2>1, <2>2, <2>3 DEF Init, TypeOK, Kinds
  <1>2. NoRetryWithinRound
    BY DEF Init, NoRetryWithinRound, InRound
  <1> QED
    BY <1>1, <1>2 DEF RegistryInv

\* The rotation after a failure.
LEMMA RotateInv ==
    ASSUME RegistryInv, pc \in {"attempt", "session"}, Rotate, faults' \in 0..MaxFaults
    PROVE  RegistryInv' /\ (cache' = NoAssignment => failed' = 1..Len(cache.candidates))
  <1>1. cache \in Assignments /\ index \in 1..Len(cache.candidates) /\ failed = 1..(index - 1)
    BY DEF RegistryInv, TypeOK, NoRetryWithinRound, InRound
  <1>2. Len(cache.candidates) \in Nat \ {0} /\ index \in Nat
    BY <1>1, SomeCandidate
  <1>3. failed' = 1..index /\ UNCHANGED <<expired, changed, shutdown, directory, changes>>
    BY <1>1, <1>2 DEF Rotate, envVars
  <1>4. paused' = FALSE /\ lastError' = "transient"
    BY DEF Rotate
  <1>5. CASE Exhausted
    <2>1. cache' = NoAssignment /\ backoff' = Doubled(backoff) /\ LostRound /\ pc' = "top" /\ UNCHANGED <<index, selBackoff>>
      BY <1>5 DEF Rotate, selVars
    <2>2. TypeOK'
      <3>1. backoff' \in BaseBackoff..MaxBackoff /\ losses' \in 0..MaxLosses
        BY <2>1, DoubledInBounds, LossesInBounds DEF RegistryInv, TypeOK
      <3>2. failed' \subseteq Nat
        BY <1>2, <1>3
      <3> QED
        BY <1>3, <1>4, <2>1, <3>1, <3>2 DEF RegistryInv, TypeOK, Kinds
    <2>3. NoRetryWithinRound'
      BY <2>1 DEF NoRetryWithinRound, InRound
    <2> QED
      BY <1>3, <1>5, <2>2, <2>3 DEF RegistryInv, Exhausted
  <1>6. CASE ~Exhausted
    <2>1. index' = NextIndex /\ selBackoff' = Doubled(selBackoff) /\ pc' = "pause" /\ UNCHANGED <<cache, backoff, losses>>
      BY <1>6 DEF Rotate
    <2>2. index' = index + 1
      BY <1>1, <1>2, <1>6, <2>1, NextIsSuccessor DEF NextIndex, Exhausted
    <2>3. TypeOK'
      <3>1. selBackoff' \in BaseBackoff..MaxBackoff
        BY <2>1, DoubledInBounds DEF RegistryInv, TypeOK
      <3>2. failed' \subseteq Nat /\ index' \in Nat \ {0}
        BY <1>2, <1>3, <2>2
      <3> QED
        BY <1>3, <1>4, <2>1, <3>1, <3>2 DEF RegistryInv, TypeOK, Kinds
    <2>4. NoRetryWithinRound'
      BY <1>1, <1>2, <1>3, <1>6, <2>1, <2>2, AssignmentAssumption DEF NoRetryWithinRound, Exhausted
    <2> QED
      BY <1>1, <2>1, <2>3, <2>4, AssignmentAssumption DEF RegistryInv
  <1> QED
    BY <1>5, <1>6

\* A round begins with the assignment it is given.
LEMMA StartRoundInv ==
    ASSUME RegistryInv, StartRound, cache' \in Assignments, expired' \in BOOLEAN,
           faults' \in 0..MaxFaults
    PROVE  RegistryInv'
  <1>1. /\ pc' = "attempt" /\ index' = 1 /\ selBackoff' = BaseBackoff /\ failed' = {}
        /\ UNCHANGED <<backoff, changed, shutdown, directory, changes, paused, losses, lastError>>
    BY DEF StartRound, envVars
  <1>2. TypeOK'
    BY <1>1, BaseInBounds DEF RegistryInv, TypeOK
  <1>3. NoRetryWithinRound'
    <2>1. Len(cache'.candidates) \in Nat \ {0} /\ cache' # NoAssignment
      BY SomeCandidate, AssignmentAssumption
    <2> QED
      BY <1>1, <2>1 DEF NoRetryWithinRound
  <1> QED
    BY <1>2, <1>3 DEF RegistryInv

\* Steps that leave the selector and the assignment alone, and enter no round.
LEMMA SelectorAlone ==
    ASSUME RegistryInv, TypeOK', UNCHANGED <<cache, index, failed>>,
           pc' \in InRound => pc \in InRound
    PROVE  RegistryInv'
  BY DEF RegistryInv, NoRetryWithinRound

\* A failure that is counted.
LEMMA StrikeInBounds ==
    ASSUME TypeOK, Strike
    PROVE  faults' \in 0..MaxFaults
  BY RegistryBounds DEF TypeOK, Strike

\* Every step preserves the invariant, and one that gives the cached assignment up
\* has seen the last of its candidates fail.
LEMMA RegistryStep ==
    RegistryInv /\ [Next]_vars =>
        /\ RegistryInv'
        /\ cache # NoAssignment /\ cache' = NoAssignment => failed' = 1..Len(cache.candidates)
  <1> SUFFICES ASSUME RegistryInv, [Next]_vars
               PROVE  /\ RegistryInv'
                      /\ cache # NoAssignment /\ cache' = NoAssignment
                           => failed' = 1..Len(cache.candidates)
    OBVIOUS
  <1>0. TypeOK
    BY DEF RegistryInv
  <1>1. CASE LoopTop \/ IdentityReady \/ SessionOpens \/ PauseEnds \/ PauseShutdown \/ Expire \/ Shutdown
    <2>1. TypeOK'
      BY <1>0, <1>1 DEF TypeOK, LoopTop, IdentityReady, SessionOpens, PauseEnds, PauseShutdown, Expire,
         Shutdown, selVars, envVars
    <2>2. UNCHANGED <<cache, index, failed>> /\ (pc' \in InRound => pc \in InRound)
      BY <1>1 DEF LoopTop, IdentityReady, SessionOpens, PauseEnds, PauseShutdown, Expire,
         Shutdown, selVars, envVars, InRound
    <2> QED
      BY <2>1, <2>2, SelectorAlone
  <1>2. CASE (\E kind \in Kinds : IdentityFails(kind)) \/ SessionFatal
    <2>1. faults' \in 0..MaxFaults
      BY <1>0, <1>2, StrikeInBounds DEF IdentityFails, SessionFatal
    <2>2. TypeOK'
      BY <1>0, <1>2, <2>1 DEF TypeOK, IdentityFails, SessionFatal, selVars, envVars, Kinds
    <2>3. UNCHANGED <<cache, index, failed>> /\ pc' \notin InRound
      BY <1>2 DEF IdentityFails, SessionFatal, selVars, InRound
    <2> QED
      BY <2>2, <2>3, SelectorAlone
  <1>3. CASE Resolve
    <2>1. cache' \in Assignments /\ cache' # NoAssignment /\ faults' \in 0..MaxFaults /\ expired' \in BOOLEAN
      BY <1>0, <1>3, AssignmentAssumption DEF Resolve, TypeOK
    <2> QED
      BY <1>3, <2>1, StartRoundInv DEF Resolve
  <1>4. CASE ResolveFromCache
    <2>1. cache' \in Assignments /\ cache' # NoAssignment /\ faults' \in 0..MaxFaults /\ expired' \in BOOLEAN
      BY <1>0, <1>4, StrikeInBounds DEF ResolveFromCache, CacheUsable, TypeOK
    <2> QED
      BY <1>4, <2>1, StartRoundInv DEF ResolveFromCache
  <1>5. CASE ResolveFails
    <2>1. TypeOK'
      BY <1>0, <1>5, StrikeInBounds DEF TypeOK, ResolveFails, selVars, envVars
    <2> QED
      BY <1>5, <2>1, SelectorAlone DEF ResolveFails, selVars, InRound
  <1>6. CASE ResolvePauseEnds
    <2>1. TypeOK'
      BY <1>0, <1>6, DoubledInBounds, LossesInBounds DEF TypeOK, ResolvePauseEnds, selVars, envVars
    <2> QED
      BY <1>6, <2>1, SelectorAlone DEF ResolvePauseEnds, selVars, InRound
  <1>7. CASE SessionFails \/ SessionReassigned
    <2>1. faults' \in 0..MaxFaults
      BY <1>0, <1>7, StrikeInBounds DEF SessionFails, SessionReassigned, TypeOK
    <2> QED
      BY <1>7, <2>1, RotateInv DEF SessionFails, SessionReassigned
  <1>8. CASE RefreshSees
    <2>1. TypeOK'
      BY <1>0, <1>8 DEF TypeOK, RefreshSees, selVars, envVars
    <2> QED
      BY <1>8, <2>1, SelectorAlone DEF RefreshSees, selVars
  <1>9. CASE ServerCloses \/ SessionShutdown
    <2>1. faults' \in 0..MaxFaults /\ EndWell
      BY <1>0, <1>9, StrikeInBounds DEF ServerCloses, SessionShutdown, TypeOK
    <2>2. TypeOK'
      BY <1>0, <2>1, BaseInBounds, RegistryBounds DEF TypeOK, EndWell, ResetTo, envVars
    <2> QED
      BY <2>1, <2>2, SelectorAlone DEF EndWell, InRound
  <1>10. CASE \E a \in Assignments : Reassign(a)
    <2>1. PICK a \in Assignments : Reassign(a)
      BY <1>10
    <2>2. changes' \in 0..MaxChanges
      BY <1>0, <2>1, RegistryBounds DEF TypeOK, Reassign
    <2>3. TypeOK'
      BY <1>0, <2>1, <2>2 DEF TypeOK, Reassign, selVars
    <2> QED
      BY <2>1, <2>3, SelectorAlone DEF Reassign, selVars
  <1>11. CASE Ended \/ UNCHANGED vars
    <2>1. UNCHANGED vars
      BY <1>11 DEF Ended
    <2>2. TypeOK'
      BY <1>0, <2>1 DEF TypeOK, vars
    <2> QED
      BY <2>1, <2>2, SelectorAlone DEF vars
  <1> QED
    BY <1>1, <1>2, <1>3, <1>4, <1>5, <1>6, <1>7, <1>8, <1>9, <1>10, <1>11 DEF Next
--------------------------------------------------------------------------------
\* The invariant holds in every reachable state.
THEOREM RegistryInvariance == Spec => []RegistryInv
  <1> QED
    BY RegistryInit, RegistryStep, PTL DEF Spec

\* Types; both back-offs stay between the configured base and maximum.
THEOREM RegistryTyped == Spec => []TypeOK
  <1>1. RegistryInv => TypeOK
    BY DEF RegistryInv
  <1> QED
    BY <1>1, RegistryInvariance, PTL

\* In one round no candidate is tried again after it failed, and none is skipped
\* (RuntimeTargetSelector::advance).
THEOREM RotationIsComplete == Spec => []NoRetryWithinRound
  <1>1. RegistryInv => NoRetryWithinRound
    BY DEF RegistryInv
  <1> QED
    BY <1>1, RegistryInvariance, PTL

\* connect_hypervisor gives a cached assignment up only when every one of its
\* candidates has failed since it was taken up.
THEOREM CacheKeptUntilExhausted == Spec => CacheDroppedWhenExhausted
  <1>1. RegistryInv /\ [Next]_vars =>
          [cache # NoAssignment /\ cache' = NoAssignment
             => failed' = 1..Len(cache.candidates)]_vars
    BY RegistryStep
  <1> QED
    BY <1>1, RegistryInvariance, PTL DEF Spec, CacheDroppedWhenExhausted
--------------------------------------------------------------------------------
\* The powers of two up to n, as a function of its own.
Powers(p, n) == p = [i \in 0..n |-> IF i = 0 THEN 1 ELSE 2 * p[i - 1]]

\* A nonempty set of numbers has a least one.
LEMMA LeastNumber ==
    ASSUME NEW T, T \subseteq Nat, T # {}
    PROVE  \E n \in T : \A m \in T : ~(m < n)
  <1>1. IsWellFoundedOn(OpToRel(<, Nat), Nat)
    BY NatLessThanWellFounded
  <1>2. PICK n \in T : \A m \in T : <<m, n>> \notin OpToRel(<, Nat)
    BY <1>1, WFMin
  <1>3. ASSUME NEW m \in T, m < n PROVE FALSE
    <2>1. <<m, n>> \in Nat \X Nat
      OBVIOUS
    <2>2. <<m, n>> \in OpToRel(<, Nat)
      BY <1>3, <2>1 DEF OpToRel
    <2> QED
      BY <1>2, <2>2
  <1> QED
    BY <1>3

\* There are powers of two up to every number: the least one up to which there
\* are none would have a predecessor, and its powers one more.
LEMMA PowersExist == \A n \in Nat : \E p : Powers(p, n)
  <1> DEFINE None == {n \in Nat : ~ \E p : Powers(p, n)}
  <1> SUFFICES ASSUME None # {} PROVE FALSE
    OBVIOUS
  <1>1. PICK n \in None : \A m \in None : ~(m < n)
    BY LeastNumber
  <1>2. CASE n = 0
    <2>1. Powers([i \in 0..0 |-> 1], 0)
      BY DEF Powers
    <2> QED
      BY <1>2, <2>1
  <1>3. CASE n # 0
    <2>1. n - 1 \in Nat /\ n - 1 \notin None
      BY <1>1, <1>3
    <2>2. PICK p : Powers(p, n - 1)
      BY <2>1
    <2> DEFINE q == [i \in 0..n |-> IF i = 0 THEN 1 ELSE 2 * p[i - 1]]
    <2>3. \A i \in 0..(n - 1) : q[i] = p[i]
      <3>1. p = [i \in 0..(n - 1) |-> IF i = 0 THEN 1 ELSE 2 * p[i - 1]]
        BY <2>2 DEF Powers
      <3>2. \A i \in 0..(n - 1) : i \in 0..n
        BY <2>1
      <3>3. \A i \in 0..(n - 1) : p[i] = IF i = 0 THEN 1 ELSE 2 * p[i - 1]
        BY <3>1, Zenon
      <3> QED
        BY <3>2, <3>3, Zenon
    <2>4. \A i \in 0..n : i # 0 => i - 1 \in 0..(n - 1)
      BY <2>1
    <2>5. \A i \in 0..n : (IF i = 0 THEN 1 ELSE 2 * p[i - 1]) = IF i = 0 THEN 1 ELSE 2 * q[i - 1]
      BY <2>3, <2>4, Zenon
    <2>6. q = [i \in 0..n |-> IF i = 0 THEN 1 ELSE 2 * q[i - 1]]
      BY <2>5, Zenon
    <2>7. Powers(q, n)
      BY <2>6 DEF Powers
    <2> QED
      BY <2>7
  <1> QED
    BY <1>2, <1>3

\* So PowerOfTwo is what its equation says.
LEMMA PowerOfTwoDef ==
    /\ PowerOfTwo[0] = 1
    /\ \A n \in 1..MaxLosses : PowerOfTwo[n] = 2 * PowerOfTwo[n - 1]
  <1>1. PICK p : Powers(p, MaxLosses)
    BY PowersExist, RegistryBounds
  <1>2. Powers(PowerOfTwo, MaxLosses)
    BY <1>1 DEF Powers, PowerOfTwo
  <1>3. \A n \in 0..MaxLosses :
            PowerOfTwo[n] = IF n = 0 THEN 1 ELSE 2 * PowerOfTwo[n - 1]
    <2>1. PowerOfTwo = [i \in 0..MaxLosses |-> IF i = 0 THEN 1 ELSE 2 * PowerOfTwo[i - 1]]
      BY <1>2 DEF Powers
    <2> HIDE DEF PowerOfTwo
    <2> QED
      BY <2>1, Zenon
  <1> QED
    BY <1>3, RegistryBounds

\* Powers of two are numbers.
LEMMA PowerOfTwoTyped == \A n \in 0..MaxLosses : PowerOfTwo[n] \in Nat
  <1> DEFINE Untyped == {n \in 0..MaxLosses : PowerOfTwo[n] \notin Nat}
  <1> SUFFICES ASSUME Untyped # {} PROVE FALSE
    OBVIOUS
  <1>1. PICK n \in Untyped : \A m \in Untyped : ~(m < n)
    <2>1. Untyped \subseteq Nat
      BY RegistryBounds
    <2> HIDE DEF Untyped
    <2> QED
      BY <2>1, LeastNumber
  <1>2. n # 0
    BY PowerOfTwoDef
  <1>3. n \in 1..MaxLosses /\ n - 1 \in 0..MaxLosses /\ n - 1 < n
    BY <1>2, RegistryBounds
  <1>4. PowerOfTwo[n - 1] \in Nat
    BY <1>1, <1>3
  <1> QED
    BY <1>3, <1>4, PowerOfTwoDef

\* Doubling the back-off that n lost rounds have led to gives that of n + 1, also
\* when the maximum cuts either of them.
LEMMA DoubledCounts ==
    ASSUME NEW n \in 0..MaxLosses
    PROVE  Doubled(Lower(BaseBackoff * PowerOfTwo[n], MaxBackoff))
               = Lower(BaseBackoff * PowerOfTwo[Lower(n + 1, MaxLosses)], MaxBackoff)
  <1> DEFINE b == BaseBackoff * PowerOfTwo[n]
  <1>1. PowerOfTwo[n] \in Nat /\ BaseBackoff \in Nat /\ MaxBackoff \in Nat
    BY PowerOfTwoTyped, BackoffAssumption
  <1>2. b \in Nat
    BY <1>1
  <1>3. CASE n < MaxLosses
    <2>1. n + 1 \in 1..MaxLosses /\ Lower(n + 1, MaxLosses) = n + 1
      BY <1>3, RegistryBounds DEF Lower
    <2>2. PowerOfTwo[n + 1] = 2 * PowerOfTwo[n]
      BY <2>1, PowerOfTwoDef
    <2>3. BaseBackoff * PowerOfTwo[n + 1] = b * 2
      BY <1>1, <2>2
    <2> HIDE DEF b
    <2>4. Doubled(Lower(b, MaxBackoff)) = Lower(b * 2, MaxBackoff)
      BY <1>1, <1>2 DEF Doubled, Lower
    <2> QED
      BY <2>1, <2>3, <2>4 DEF b
  <1>4. CASE n = MaxLosses
    <2>1. Lower(n + 1, MaxLosses) = n /\ b >= MaxBackoff
      BY <1>4, RegistryBounds, LossesAssumption DEF Lower
    <2> HIDE DEF b
    <2>2. Doubled(Lower(b, MaxBackoff)) = Lower(b, MaxBackoff)
      BY <1>1, <1>2, <2>1 DEF Doubled, Lower
    <2> QED
      BY <2>1, <2>2 DEF b
  <1> QED
    BY <1>3, <1>4, RegistryBounds

\* No lost round leaves the base.
LEMMA BaseCounts == BaseBackoff = Lower(BaseBackoff * PowerOfTwo[0], MaxBackoff)
  <1>1. BaseBackoff * PowerOfTwo[0] = BaseBackoff
    BY PowerOfTwoDef, BackoffAssumption
  <1> QED
    BY <1>1, BackoffAssumption DEF Lower

\* A step keeps the back-off and the count, or doubles the one and counts a round,
\* or resets both.
LEMMA BackoffSteps ==
    ASSUME [Next]_vars
    PROVE  \/ UNCHANGED <<backoff, losses>>
           \/ backoff' = Doubled(backoff) /\ LostRound
           \/ backoff' = BaseBackoff /\ losses' = 0
  <1>1. CASE LoopTop \/ IdentityReady \/ SessionOpens \/ PauseEnds \/ PauseShutdown \/ Expire
               \/ Shutdown \/ RefreshSees \/ ResolveFails \/ SessionFatal
    BY <1>1 DEF LoopTop, IdentityReady, SessionOpens, PauseEnds, PauseShutdown, Expire, Shutdown,
                RefreshSees, ResolveFails, SessionFatal
  <1>2. CASE Resolve \/ ResolveFromCache
    BY <1>2 DEF Resolve, ResolveFromCache, StartRound
  <1>3. CASE ResolvePauseEnds
    BY <1>3 DEF ResolvePauseEnds
  <1>4. CASE SessionFails \/ SessionReassigned
    BY <1>4 DEF SessionFails, SessionReassigned, Rotate
  <1>5. CASE ServerCloses \/ SessionShutdown
    BY <1>5 DEF ServerCloses, SessionShutdown, EndWell, ResetTo
  <1>6. CASE (\E kind \in Kinds : IdentityFails(kind)) \/ (\E a \in Assignments : Reassign(a))
    BY <1>6 DEF IdentityFails, Reassign
  <1>7. CASE Ended \/ UNCHANGED vars
    BY <1>7 DEF Ended, vars
  <1> QED
    BY <1>1, <1>2, <1>3, <1>4, <1>5, <1>6, <1>7 DEF Next

\* The loop's back-off is the base doubled for each round lost in a row, up to the
\* maximum (connect_hypervisor, its resets included).
THEOREM BackoffIsExact == Spec => []BackoffCountsLosses
  <1>1. Init => BackoffCountsLosses
    BY BaseCounts DEF Init, BackoffCountsLosses
  <1>2. TypeOK /\ BackoffCountsLosses /\ [Next]_vars => BackoffCountsLosses'
    <2> SUFFICES ASSUME TypeOK, BackoffCountsLosses, [Next]_vars
                 PROVE  BackoffCountsLosses'
      OBVIOUS
    <2>1. losses \in 0..MaxLosses
      BY DEF TypeOK
    <2>2. CASE UNCHANGED <<backoff, losses>>
      BY <2>2 DEF BackoffCountsLosses
    <2>3. CASE backoff' = Doubled(backoff) /\ LostRound
      BY <2>1, <2>3, DoubledCounts DEF BackoffCountsLosses, LostRound
    <2>4. CASE backoff' = BaseBackoff /\ losses' = 0
      BY <2>4, BaseCounts DEF BackoffCountsLosses
    <2> QED
      BY <2>2, <2>3, <2>4, BackoffSteps
  <1> QED
    BY <1>1, <1>2, RegistryTyped, PTL DEF Spec
\* What holds of PausesBeforeRetry, the log's promise that a failed session is
\* retried after a time: within a round it is kept, and only the first attempt of a
\* round may follow the failure of the round before at once.
THEOREM PausedWithinRound == Spec => [](pc = "attempt" /\ failed # {} => paused)
  <1> DEFINE Rested == pc = "attempt" /\ failed # {} => paused
  <1>1. Init => Rested
    BY DEF Init
  <1>2. Rested /\ [Next]_vars => Rested'
    BY DEF Next, vars, LoopTop, IdentityReady, Resolve, ResolveFromCache, ResolveFails,
           StartRound, ResolvePauseEnds, SessionOpens, SessionFails, SessionFatal, RefreshSees,
           SessionReassigned, Rotate, ServerCloses, SessionShutdown, EndWell, PauseEnds,
           PauseShutdown, Expire, Shutdown, Ended, IdentityFails, Reassign
  <1> QED
    BY <1>1, <1>2, PTL DEF Spec
--------------------------------------------------------------------------------
\* How much of the way to the end of the loop is left, once it is told to stop:
\* whether a round is still to begin, and then how far there is to go.
Before == IF pc \in {"identity", "resolve"} THEN 1 ELSE 0

\* Each candidate left in the round is worth a pause, an attempt and a session.
InRoundLeft ==
    4 * (Len(cache.candidates) - index)
        + CASE pc = "pause" -> 4
            [] pc = "attempt" -> 3
            [] OTHER -> IF changed THEN 1 ELSE 2

Left ==
    CASE pc \in InRound -> InRoundLeft + 2
      [] pc \in {"identity", "resolve_pause"} -> 2
      [] pc \in {"resolve", "top"} -> 1
      [] OTHER -> 0

Nearer == Before' < Before \/ (Before' = Before /\ Left' < Left)

\* Told to stop, the loop gets nearer to its end with every step it takes, whatever
\* fails on the way, and the environment cannot throw it back.
StopsInFinitelyMany ==
    /\ [](Left \in Nat)
    /\ [][shutdown => shutdown' /\ (Nearer \/ UNCHANGED <<pc, cache, index, changed>>)]_vars

\* Within a round there is a candidate, and the ones after it are counted.
LEMMA RoundLeft ==
    ASSUME RegistryInv, pc \in InRound
    PROVE  /\ Len(cache.candidates) - index \in Nat
           /\ InRoundLeft \in Nat \ {0}
           /\ Left = InRoundLeft + 2 /\ Before = 0
  <1>1. cache \in Assignments /\ index \in 1..Len(cache.candidates)
    BY DEF RegistryInv, TypeOK, NoRetryWithinRound
  <1>2. Len(cache.candidates) - index \in Nat
    BY <1>1, SomeCandidate
  <1> DEFINE k == Len(cache.candidates) - index
  <1>3. InRoundLeft \in {4 * k + 4, 4 * k + 3, 4 * k + 2, 4 * k + 1}
    BY DEF InRoundLeft
  <1>4. InRoundLeft \in Nat \ {0}
    <2> HIDE DEF k
    <2>1. k \in Nat
      BY <1>2 DEF k
    <2> QED
      BY <1>3, <2>1
  <1>5. Left = InRoundLeft + 2 /\ Before = 0
    BY DEF Left, Before, InRound
  <1> QED
    BY <1>2, <1>4, <1>5

\* So there is always a number of steps left.
LEMMA LeftTyped == RegistryInv => Left \in Nat
  BY RoundLeft DEF Left

\* Rotating away from a candidate is nearer to the end, after the last one as well.
LEMMA RotateNearer ==
    ASSUME RegistryInv, pc \in {"attempt", "session"}, Rotate
    PROVE  Nearer
  <1>1. /\ Len(cache.candidates) - index \in Nat /\ InRoundLeft \in Nat \ {0}
        /\ Left = InRoundLeft + 2 /\ Before = 0
    BY RoundLeft DEF InRound
  <1>2. CASE Exhausted
    <2>1. Left' = 1 /\ Before' = 0
      BY <1>2 DEF Rotate, Left, Before, InRound
    <2> QED
      BY <1>1, <2>1 DEF Nearer
  <1>3. CASE ~Exhausted
    <2>1. pc' = "pause" /\ cache' = cache /\ index' = NextIndex
      BY <1>3 DEF Rotate
    <2>2. index' = index + 1
      <3>1. Len(cache.candidates) \in Nat /\ index \in 1..Len(cache.candidates)
        BY SomeCandidate DEF RegistryInv, TypeOK, NoRetryWithinRound, InRound
      <3> QED
        BY <1>3, <2>1, <3>1, NextIsSuccessor DEF NextIndex, Exhausted
    <2> DEFINE k == Len(cache.candidates) - index
    <2>3. Len(cache'.candidates) - index' = k - 1
      <3>1. Len(cache.candidates) \in Nat /\ index \in Nat
        BY SomeCandidate DEF RegistryInv, TypeOK, NoRetryWithinRound, InRound
      <3> QED
        BY <2>1, <2>2, <3>1
    <2>4. Left' = (4 * (k - 1) + 4) + 2 /\ Before' = 0
      BY <2>1, <2>3 DEF Left, InRoundLeft, Before, InRound
    <2>5. InRoundLeft \in {4 * k + 3, 4 * k + 2, 4 * k + 1}
      BY DEF InRoundLeft
    <2> QED
      <3> HIDE DEF k
      <3>1. k \in Nat
        BY <1>1 DEF k
      <3> QED
        BY <1>1, <2>4, <2>5, <3>1 DEF Nearer
  <1> QED
    BY <1>2, <1>3

\* Every step after the token was cancelled.
LEMMA StoppingStep ==
    ASSUME RegistryInv, [Next]_vars, shutdown
    PROVE  shutdown' /\ (Nearer \/ UNCHANGED <<pc, cache, index, changed>>)
  <1>1. shutdown'
    BY DEF Next, vars, LoopTop, IdentityReady, Resolve, ResolveFromCache, ResolveFails, StartRound,
           ResolvePauseEnds, SessionOpens, SessionFails, SessionFatal, RefreshSees,
           SessionReassigned, Rotate, ServerCloses, SessionShutdown, EndWell, PauseEnds,
           PauseShutdown, Expire, Shutdown, Ended, IdentityFails, Reassign
  <1>2. CASE LoopTop \/ IdentityReady \/ ResolveFails \/ ResolvePauseEnds
               \/ (\E kind \in Kinds : IdentityFails(kind))
    BY <1>1, <1>2 DEF LoopTop, Stopping, IdentityReady, ResolveFails, ResolvePauseEnds,
                      IdentityFails, Nearer, Before, Left, InRound
  <1>3. CASE Resolve \/ ResolveFromCache
    <2>1. Before' = 0 /\ Before = 1
      BY <1>3 DEF Resolve, ResolveFromCache, StartRound, Before
    <2> QED
      BY <1>1, <2>1 DEF Nearer
  <1>4. CASE SessionOpens \/ RefreshSees \/ PauseEnds
    <2>1. pc \in InRound /\ pc' \in InRound /\ UNCHANGED <<cache, index>>
      BY <1>4 DEF SessionOpens, RefreshSees, PauseEnds, selVars, InRound
    <2>2. /\ Len(cache.candidates) - index \in Nat
          /\ Left = InRoundLeft + 2 /\ Before = 0
      BY <2>1, RoundLeft
    <2>3. Left' = InRoundLeft' + 2 /\ Before' = 0
      BY <2>1 DEF Left, Before, InRound
    <2>4. InRoundLeft' = InRoundLeft - 1
      <3> DEFINE k == Len(cache.candidates) - index
      <3>1. InRoundLeft = 4 * k + (CASE pc = "pause" -> 4 [] pc = "attempt" -> 3
                                     [] OTHER -> IF changed THEN 1 ELSE 2)
        BY DEF InRoundLeft
      <3>2. InRoundLeft' = 4 * k + (CASE pc' = "pause" -> 4 [] pc' = "attempt" -> 3
                                      [] OTHER -> IF changed' THEN 1 ELSE 2)
        BY <2>1 DEF InRoundLeft
      <3> HIDE DEF k
      <3>3. k \in Nat
        BY <2>2 DEF k
      <3>4. CASE SessionOpens
        <4>1. InRoundLeft = 4 * k + 3 /\ InRoundLeft' = 4 * k + 2
          BY <3>1, <3>2, <3>4 DEF SessionOpens
        <4> QED
          BY <3>3, <4>1
      <3>5. CASE RefreshSees
        <4>1. InRoundLeft = 4 * k + 2 /\ InRoundLeft' = 4 * k + 1
          BY <3>1, <3>2, <3>5 DEF RefreshSees
        <4> QED
          BY <3>3, <4>1
      <3>6. CASE PauseEnds
        <4>1. InRoundLeft = 4 * k + 4 /\ InRoundLeft' = 4 * k + 3
          BY <3>1, <3>2, <3>6 DEF PauseEnds
        <4> QED
          BY <3>3, <4>1
      <3> QED
        BY <1>4, <3>4, <3>5, <3>6
    <2>5. InRoundLeft \in Nat
      BY <2>1, RoundLeft
    <2> QED
      BY <1>1, <2>2, <2>3, <2>4, <2>5 DEF Nearer
  <1>5. CASE SessionFails \/ SessionReassigned
    BY <1>1, <1>5, RotateNearer DEF SessionFails, SessionReassigned
  <1>6. CASE SessionFatal \/ ServerCloses \/ SessionShutdown \/ PauseShutdown
    <2>1. pc \in InRound /\ pc' \in {"top", "failed", "stopped"}
      BY <1>6 DEF SessionFatal, ServerCloses, SessionShutdown, EndWell, PauseShutdown, InRound
    <2>2. Left' <= 1 /\ Before' = 0
      BY <2>1 DEF Left, Before, InRound
    <2>3. Left' \in Nat
      BY <2>1 DEF Left, InRound
    <2> QED
      BY <1>1, <2>1, <2>2, <2>3, RoundLeft DEF Nearer
  <1>7. CASE Expire \/ Shutdown \/ (\E a \in Assignments : Reassign(a)) \/ Ended \/ UNCHANGED vars
    BY <1>1, <1>7 DEF Expire, Shutdown, Reassign, Ended, vars, selVars
  <1> QED
    BY <1>2, <1>3, <1>4, <1>5, <1>6, <1>7 DEF Next

\* After the token is cancelled, connect_hypervisor can take only finitely many
\* steps, for any candidates and any failures: what StopsAfterShutdown needs besides
\* a task that is polled and calls that end.
THEOREM StoppingIsFinite == Spec => StopsInFinitelyMany
  <1>1. RegistryInv => Left \in Nat
    BY LeftTyped
  <1>2. RegistryInv /\ [Next]_vars =>
          [shutdown => shutdown' /\ (Nearer \/ UNCHANGED <<pc, cache, index, changed>>)]_vars
    BY StoppingStep
  <1> QED
    BY <1>1, <1>2, RegistryInvariance, PTL DEF Spec, StopsInFinitelyMany
================================================================================
