--------------------------- MODULE AgentSessionProofs ---------------------------
(***************************************************************************)
(* The numbers of the frames are accounted for, for any number of          *)
(* sessions, frames and broken streams.  Sessions share nothing but the    *)
(* token, so the invariant is one of a single session's record: what it    *)
(* holds, what it has sent and what its counter says belong together, the  *)
(* numbers are all different, and of two that wait for room at a time one  *)
(* is the last that was taken.                                             *)
(***************************************************************************)
EXTENDS AgentSession, FiniteSetTheorems, TLAPS

Phases == {"none", "registering", "streaming", "open", "ended"}
Shape == [phase : Phases, next : Nat \ {0}, chan : Seq(Nat), rx : {"open", "dropped"},
          sent : SUBSET Nat, tasks : SUBSET Tasks, aborted : SUBSET Tasks, blocked : BOOLEAN,
          beat : Nat, attempt : 0..MaxAttempts, answer : Nat]

Elems(q) == {q[i] : i \in 1..Len(q)}
AllDifferent(q) == \A i, j \in 1..Len(q) : q[i] = q[j] => i = j

\* Numbers that were taken; the channel has its capacity.
Taken(r) ==
    /\ Len(r.chan) <= Capacity
    /\ Elems(r.chan) \subseteq 1..(r.next - 1)
    /\ r.sent \subseteq 1..(r.next - 1)
    /\ r.beat \in 0..(r.next - 1) /\ r.answer \in 0..(r.next - 1)

\* Who can be waiting for room, phase by phase, and who has been aborted.
WhoWaits(r) ==
    /\ r.phase = "none" => r.next = 1 /\ r.rx = "open"
    /\ r.phase # "open" => r.answer = 0
    /\ r.phase \in {"none", "registering"} => r.tasks = {}
    /\ "heartbeat" \notin r.tasks => r.beat = 0
    /\ r.attempt = 0 <=> r.answer = 0
    /\ r.aborted \subseteq r.tasks /\ (r.phase # "ended" => r.aborted = {})

\* No two frames have one number.
Different(r) ==
    /\ AllDifferent(r.chan)
    /\ r.sent \cap Elems(r.chan) = {}
    /\ ({r.beat, r.answer} \ {0}) \cap (r.sent \cup Elems(r.chan)) = {}
    /\ r.beat = r.answer => r.beat = 0

\* No number is lost while a task that takes them lives.
NoneLost(r) ==
    r.rx = "open" /\ r.phase # "none" /\ (r.phase # "ended" \/ "heartbeat" \in r.tasks) =>
        1..(r.next - 1) \subseteq r.sent \cup Elems(r.chan) \cup {r.beat, r.answer}

\* A session that is over has lost one at most.
OneLost(r) ==
    r.rx = "open" /\ r.phase = "ended" =>
        \E k \in Nat : 1..(r.next - 1) \subseteq r.sent \cup Elems(r.chan) \cup {k}

\* Both wait: one of them took the last number.
LastTaken(r) == r.beat # 0 /\ r.answer # 0 => r.next - 1 \in {r.beat, r.answer}

One(n) == IF n = 0 THEN 0 ELSE 1

\* The counter counts.
Counted(r) ==
    r.rx = "open" /\ r.phase \notin {"none", "ended"} =>
        Cardinality(r.sent) + Len(r.chan) + One(r.beat) + One(r.answer) = r.next - 1

SessionOK(r) ==
    /\ r \in Shape
    /\ Taken(r) /\ WhoWaits(r) /\ Different(r) /\ NoneLost(r) /\ OneLost(r)
    /\ LastTaken(r) /\ Counted(r)

SessionInv ==
    /\ cur \in 0..MaxSessions /\ shutdown \in BOOLEAN /\ breaks \in 0..MaxBreaks
    /\ session \in [Sessions -> Shape]
    /\ \A s \in Sessions : SessionOK(session[s])
--------------------------------------------------------------------------------
\* A frame enters the channel at its end ...
LEMMA FrameEnters ==
    ASSUME NEW q \in Seq(Nat), NEW n \in Nat, n \notin Elems(q), AllDifferent(q)
    PROVE  /\ Append(q, n) \in Seq(Nat) /\ Len(Append(q, n)) = Len(q) + 1
           /\ Elems(Append(q, n)) = Elems(q) \cup {n}
           /\ AllDifferent(Append(q, n))
  <1>1. /\ Append(q, n) \in Seq(Nat) /\ Len(q) \in Nat /\ Len(Append(q, n)) = Len(q) + 1
        /\ \A i \in 1..Len(q) : Append(q, n)[i] = q[i]
        /\ Append(q, n)[Len(q) + 1] = n
    OBVIOUS
  <1>2. 1..(Len(q) + 1) = 1..Len(q) \cup {Len(q) + 1} /\ Len(q) + 1 \notin 1..Len(q)
    BY <1>1
  <1>3. Elems(Append(q, n)) = Elems(q) \cup {n}
    BY <1>1, <1>2 DEF Elems
  <1>4. AllDifferent(Append(q, n))
    <2> SUFFICES ASSUME NEW i \in 1..(Len(q) + 1), NEW j \in 1..(Len(q) + 1),
                        Append(q, n)[i] = Append(q, n)[j]
                 PROVE  i = j
      BY <1>1 DEF AllDifferent
    <2>1. \A k \in 1..Len(q) : q[k] # n
      BY DEF Elems
    <2> QED
      BY <1>1, <1>2, <2>1 DEF AllDifferent
  <1> QED
    BY <1>1, <1>3, <1>4

\* ... and leaves it at its head.
LEMMA FrameLeaves ==
    ASSUME NEW q \in Seq(Nat), q # <<>>, AllDifferent(q)
    PROVE  /\ Tail(q) \in Seq(Nat) /\ Len(Tail(q)) = Len(q) - 1 /\ Len(q) \in Nat
           /\ Elems(q) = Elems(Tail(q)) \cup {Head(q)}
           /\ Head(q) \notin Elems(Tail(q)) /\ Head(q) \in Nat
           /\ AllDifferent(Tail(q))
  <1>1. /\ Tail(q) \in Seq(Nat) /\ Len(q) \in Nat \ {0} /\ Len(Tail(q)) = Len(q) - 1
        /\ \A i \in 1..(Len(q) - 1) : Tail(q)[i] = q[i + 1]
        /\ Head(q) = q[1] /\ Head(q) \in Nat
    OBVIOUS
  <1>2. Elems(q) = Elems(Tail(q)) \cup {Head(q)}
    <2>1. ASSUME NEW i \in 1..Len(q) PROVE q[i] \in Elems(Tail(q)) \cup {Head(q)}
      <3>1. CASE i = 1
        BY <1>1, <3>1
      <3>2. CASE i # 1
        <4>1. i - 1 \in 1..(Len(q) - 1) /\ (i - 1) + 1 = i
          BY <1>1, <3>2
        <4>2. Tail(q)[i - 1] = q[i]
          BY <1>1, <4>1
        <4> QED
          BY <1>1, <4>1, <4>2 DEF Elems
      <3> QED
        BY <3>1, <3>2
    <2>2. ASSUME NEW i \in 1..Len(Tail(q)) PROVE Tail(q)[i] \in Elems(q)
      <3>1. i + 1 \in 1..Len(q) /\ Tail(q)[i] = q[i + 1]
        BY <1>1
      <3> QED
        BY <3>1 DEF Elems
    <2>3. Head(q) \in Elems(q)
      BY <1>1 DEF Elems
    <2> QED
      BY <2>1, <2>2, <2>3 DEF Elems
  <1>3. Head(q) \notin Elems(Tail(q))
    <2> SUFFICES ASSUME NEW i \in 1..Len(Tail(q)), Tail(q)[i] = Head(q) PROVE FALSE
      BY DEF Elems
    <2>1. i + 1 \in 1..Len(q) /\ 1 \in 1..Len(q) /\ q[i + 1] = q[1] /\ i + 1 # 1
      BY <1>1
    <2> QED
      BY <2>1 DEF AllDifferent
  <1>4. AllDifferent(Tail(q))
    <2> SUFFICES ASSUME NEW i \in 1..Len(Tail(q)), NEW j \in 1..Len(Tail(q)), Tail(q)[i] = Tail(q)[j]
                 PROVE  i = j
      BY DEF AllDifferent
    <2>1. i + 1 \in 1..Len(q) /\ j + 1 \in 1..Len(q) /\ q[i + 1] = q[j + 1]
      BY <1>1
    <2>2. i + 1 = j + 1
      BY <2>1 DEF AllDifferent
    <2> QED
      BY <2>2
  <1> QED
    BY <1>1, <1>2, <1>3, <1>4

\* What has been sent is finite, and one number more is one more.
LEMMA OneMoreSent ==
    ASSUME NEW r, SessionOK(r), NEW n \in Nat, n \notin r.sent
    PROVE  /\ Cardinality(r.sent) \in Nat
           /\ Cardinality(r.sent \cup {n}) = Cardinality(r.sent) + 1
  <1>1. r.sent \subseteq 1..(r.next - 1) /\ r.next - 1 \in Nat
    BY DEF SessionOK, Taken, Shape
  <1>2. IsFiniteSet(r.sent)
    <2>1. \A m \in Int : IsFiniteSet(1..m)
      BY FS_Interval
    <2>2. r.next - 1 \in Int
      BY <1>1
    <2> QED
      BY <1>1, <2>1, <2>2, FS_Subset
  <1> QED
    BY <1>2, FS_CardinalityType, FS_AddElement

\* A number just taken is after every number taken before it.
LEMMA NewNumber ==
    ASSUME NEW r, SessionOK(r)
    PROVE  /\ r.next \in Nat /\ r.next # 0 /\ r.next + 1 \in Nat \ {0} /\ (r.next + 1) - 1 = r.next
           /\ r.next \in 0..r.next /\ r.next \in 1..r.next /\ 0 \in 0..r.next
           /\ 1..r.next = 1..(r.next - 1) \cup {r.next}
           /\ 0..(r.next - 1) \subseteq 0..r.next
           /\ r.next \notin r.sent \cup Elems(r.chan)
           /\ r.next # r.beat /\ r.next # r.answer
           /\ 0 \notin 1..(r.next - 1) /\ 0 \notin 1..r.next
  <1>1. r.next \in Nat /\ r.next # 0
    BY DEF SessionOK, Shape
  <1>2. \A i \in r.sent \cup Elems(r.chan) : i \in 1..(r.next - 1)
    BY DEF SessionOK, Taken
  <1>3. r.next \notin 0..(r.next - 1) /\ r.next \notin 1..(r.next - 1)
    BY <1>1
  <1>4. r.beat \in 0..(r.next - 1) /\ r.answer \in 0..(r.next - 1)
    BY DEF SessionOK, Taken
  <1> QED
    BY <1>1, <1>2, <1>3, <1>4

\* What a session's fields are.
LEMMA Fields ==
    ASSUME NEW r, SessionOK(r)
    PROVE  /\ r.phase \in Phases /\ r.next \in Nat \ {0} /\ r.chan \in Seq(Nat)
           /\ r.rx \in {"open", "dropped"} /\ r.sent \subseteq Nat /\ r.tasks \subseteq Tasks
           /\ r.beat \in Nat /\ r.attempt \in 0..MaxAttempts /\ r.answer \in Nat
           /\ Cardinality(r.sent) \in Nat /\ Len(r.chan) \in Nat
           /\ MaxAttempts \in Nat \ {0} /\ 0 \in 0..MaxAttempts
           /\ \A a \in {1, MaxAttempts} : a \in 0..MaxAttempts /\ a # 0
  <1>1. MaxAttempts \in Nat \ {0}
    BY SessionConstants
  <1>2. \E m \in Nat : m \notin r.sent
    <2>1. r.next \notin r.sent /\ r.next \in Nat
      BY NewNumber
    <2> QED
      BY <2>1
  <1>3. Cardinality(r.sent) \in Nat
    BY <1>2, OneMoreSent
  <1> QED
    BY <1>1, <1>3 DEF SessionOK, Shape

\* An empty channel.
LEMMA NoFrames == <<>> \in Seq(Nat) /\ Len(<<>>) = 0 /\ Elems(<<>>) = {} /\ AllDifferent(<<>>)
  BY DEF Elems, AllDifferent
--------------------------------------------------------------------------------
\* A session that has not begun.
LEMMA FreshOK == SessionOK(Fresh)
  <1>1. /\ Fresh.phase = "none" /\ Fresh.next = 1 /\ Fresh.chan = <<>> /\ Fresh.rx = "open" /\ Fresh.sent = {}
        /\ Fresh.tasks = {} /\ Fresh.beat = 0 /\ Fresh.attempt = 0 /\ Fresh.answer = 0
        /\ Fresh.aborted = {} /\ Fresh.blocked = FALSE
    BY DEF Fresh
  <1>2. Fresh \in Shape
    BY NoFrames, SessionConstants DEF Fresh, Shape, Phases
  <1>3. Taken(Fresh) /\ WhoWaits(Fresh) /\ Different(Fresh)
    BY <1>1, NoFrames, SessionConstants DEF Taken, WhoWaits, Different
  <1>4. NoneLost(Fresh) /\ OneLost(Fresh) /\ LastTaken(Fresh) /\ Counted(Fresh)
    BY <1>1 DEF NoneLost, OneLost, LastTaken, Counted
  <1> QED
    BY <1>2, <1>3, <1>4 DEF SessionOK

\* The registration is the first frame.
LEMMA OpenOK ==
    SessionOK([Fresh EXCEPT !.phase = "registering", !.next = Advanced(@), !.chan = <<1>>])
  <1> DEFINE n == [Fresh EXCEPT !.phase = "registering", !.next = Advanced(@), !.chan = <<1>>]
  <1>1. /\ n.phase = "registering" /\ n.next = 2 /\ n.chan = <<1>> /\ n.rx = "open" /\ n.sent = {}
        /\ n.tasks = {} /\ n.beat = 0 /\ n.attempt = 0 /\ n.answer = 0
        /\ n.aborted = {} /\ n.blocked = FALSE
    BY DEF Fresh, Advanced
  <1>2. <<1>> \in Seq(Nat) /\ Len(<<1>>) = 1 /\ Elems(<<1>>) = {1} /\ AllDifferent(<<1>>)
    BY DEF Elems, AllDifferent
  <1>3. n \in Shape
    <2>1. Fresh \in Shape
      BY FreshOK DEF SessionOK
    <2>2. Advanced(Fresh.next) \in Nat \ {0}
      BY DEF Fresh, Advanced
    <2> QED
      BY <1>2, <2>1, <2>2 DEF Shape, Phases
  <1> HIDE DEF n
  <1>4. Taken(n)
    BY <1>1, <1>2, SessionConstants DEF Taken
  <1>7. WhoWaits(n)
    BY <1>1 DEF WhoWaits
  <1>8. Different(n)
    <2>1. AllDifferent(n.chan)
      BY <1>1, <1>2
    <2>2. {n.beat, n.answer} \ {0} = {}
      BY <1>1
    <2> QED
      BY <1>1, <2>1, <2>2 DEF Different
  <1>5. NoneLost(n) /\ OneLost(n) /\ LastTaken(n)
    BY <1>1, <1>2 DEF NoneLost, OneLost, LastTaken
  <1>6. Counted(n)
    BY <1>1, <1>2, FS_EmptySet DEF Counted, One
  <1> QED
    BY <1>3, <1>4, <1>5, <1>6, <1>7, <1>8 DEF SessionOK, n
--------------------------------------------------------------------------------
\* The heartbeat task starts, with nothing in its hands.
LEMMA StreamOpensOK ==
    ASSUME NEW r, SessionOK(r), r.phase = "registering"
    PROVE  SessionOK([r EXCEPT !.phase = "streaming", !.tasks = {"heartbeat"}])
  <1> DEFINE n == [r EXCEPT !.phase = "streaming", !.tasks = {"heartbeat"}]
  <1>1. /\ n.phase = "streaming" /\ n.next = r.next /\ n.chan = r.chan /\ n.rx = r.rx /\ n.sent = r.sent
        /\ n.tasks = {"heartbeat"} /\ n.beat = r.beat /\ n.attempt = r.attempt /\ n.answer = r.answer
        /\ n.aborted = r.aborted /\ n.blocked = r.blocked
    BY DEF SessionOK, Shape, Advanced
  <1>2. n \in Shape
    BY SessionConstants DEF SessionOK, Shape, Phases, Tasks
  <1> HIDE DEF n
  <1> USE DEF SessionOK, Shape
  <1>3. Taken(n)
    BY <1>1 DEF Taken
  <1>4. WhoWaits(n)
    BY <1>1 DEF WhoWaits
  <1>5. Different(n)
    BY <1>1 DEF Different
  <1>6. NoneLost(n)
    BY <1>1 DEF NoneLost
  <1>7. OneLost(n)
    BY <1>1 DEF OneLost
  <1>8. LastTaken(n)
    BY <1>1 DEF LastTaken
  <1>9. Counted(n)
    BY <1>1 DEF Counted, One
  <1> QED
    BY <1>2, <1>3, <1>4, <1>5, <1>6, <1>7, <1>8, <1>9 DEF n

\* A session that ends before its stream has opened.
LEMMA StreamFailsOK ==
    ASSUME NEW r, SessionOK(r), r.phase = "registering"
    PROVE  SessionOK([r EXCEPT !.phase = "ended"])
  <1> DEFINE n == [r EXCEPT !.phase = "ended"]
  <1>1. /\ n.phase = "ended" /\ n.next = r.next /\ n.chan = r.chan /\ n.rx = r.rx /\ n.sent = r.sent
        /\ n.tasks = r.tasks /\ n.beat = r.beat /\ n.attempt = r.attempt /\ n.answer = r.answer
        /\ n.aborted = r.aborted /\ n.blocked = r.blocked
    BY DEF SessionOK, Shape, Advanced
  <1>2. n \in Shape
    BY SessionConstants DEF SessionOK, Shape, Phases, Tasks
  <1> HIDE DEF n
  <1> USE DEF SessionOK, Shape
  <1>3. Taken(n)
    BY <1>1 DEF Taken
  <1>4. WhoWaits(n)
    BY <1>1 DEF WhoWaits
  <1>5. Different(n)
    BY <1>1 DEF Different
  <1>6. NoneLost(n)
    BY <1>1 DEF NoneLost
  <1>7. OneLost(n)
    <2>1. NoneLost(r) /\ r.beat \in Nat
      BY Fields
    <2> QED
      BY <2>1, <1>1 DEF NoneLost, OneLost, WhoWaits
  <1>8. LastTaken(n)
    BY <1>1 DEF LastTaken
  <1>9. Counted(n)
    BY <1>1 DEF Counted, One
  <1> QED
    BY <1>2, <1>3, <1>4, <1>5, <1>6, <1>7, <1>8, <1>9 DEF n

\* The other two tasks take no numbers.
LEMMA TelemetryOpensOK ==
    ASSUME NEW r, SessionOK(r), r.phase = "streaming"
    PROVE  SessionOK([r EXCEPT !.phase = "open", !.tasks = @ \cup {"telemetry", "refresh"}])
  <1> DEFINE n == [r EXCEPT !.phase = "open", !.tasks = @ \cup {"telemetry", "refresh"}]
  <1>1. /\ n.phase = "open" /\ n.next = r.next /\ n.chan = r.chan /\ n.rx = r.rx /\ n.sent = r.sent
        /\ n.tasks = r.tasks \cup {"telemetry", "refresh"} /\ n.beat = r.beat /\ n.attempt = r.attempt /\ n.answer = r.answer
        /\ n.aborted = r.aborted /\ n.blocked = r.blocked
    BY DEF SessionOK, Shape, Advanced
  <1>2. n \in Shape
    BY SessionConstants DEF SessionOK, Shape, Phases, Tasks
  <1> HIDE DEF n
  <1> USE DEF SessionOK, Shape
  <1>3. Taken(n)
    BY <1>1 DEF Taken
  <1>4. WhoWaits(n)
    BY <1>1 DEF WhoWaits
  <1>5. Different(n)
    BY <1>1 DEF Different
  <1>6. NoneLost(n)
    BY <1>1 DEF NoneLost
  <1>7. OneLost(n)
    BY <1>1 DEF OneLost
  <1>8. LastTaken(n)
    BY <1>1 DEF LastTaken
  <1>9. Counted(n)
    BY <1>1 DEF Counted, One
  <1> QED
    BY <1>2, <1>3, <1>4, <1>5, <1>6, <1>7, <1>8, <1>9 DEF n

\* The session ends and its heartbeat goes on, with at most one number in its hands.
LEMMA TelemetryFailsOK ==
    ASSUME NEW r, SessionOK(r), r.phase = "streaming"
    PROVE  SessionOK([r EXCEPT !.phase = "ended"])
  <1> DEFINE n == [r EXCEPT !.phase = "ended"]
  <1>1. /\ n.phase = "ended" /\ n.next = r.next /\ n.chan = r.chan /\ n.rx = r.rx /\ n.sent = r.sent
        /\ n.tasks = r.tasks /\ n.beat = r.beat /\ n.attempt = r.attempt /\ n.answer = r.answer
        /\ n.aborted = r.aborted /\ n.blocked = r.blocked
    BY DEF SessionOK, Shape, Advanced
  <1>2. n \in Shape
    BY SessionConstants DEF SessionOK, Shape, Phases, Tasks
  <1> HIDE DEF n
  <1> USE DEF SessionOK, Shape
  <1>3. Taken(n)
    BY <1>1 DEF Taken
  <1>4. WhoWaits(n)
    BY <1>1 DEF WhoWaits
  <1>5. Different(n)
    BY <1>1 DEF Different
  <1>6. NoneLost(n)
    BY <1>1 DEF NoneLost
  <1>7. OneLost(n)
    <2>1. NoneLost(r) /\ r.beat \in Nat
      BY Fields
    <2> QED
      BY <2>1, <1>1 DEF NoneLost, OneLost, WhoWaits
  <1>8. LastTaken(n)
    BY <1>1 DEF LastTaken
  <1>9. Counted(n)
    BY <1>1 DEF Counted, One
  <1> QED
    BY <1>2, <1>3, <1>4, <1>5, <1>6, <1>7, <1>8, <1>9 DEF n

\* The handler takes a number, and has none yet.
LEMMA HandleOK ==
    ASSUME NEW r, SessionOK(r), r.phase = "open", r.attempt = 0, NEW first \in {1, MaxAttempts}
    PROVE  SessionOK([r EXCEPT !.attempt = first, !.answer = r.next, !.next = Advanced(@)])
  <1> DEFINE n == [r EXCEPT !.attempt = first, !.answer = r.next, !.next = Advanced(@)]
  <1>1. /\ n.phase = r.phase /\ n.next = r.next + 1 /\ n.chan = r.chan /\ n.rx = r.rx /\ n.sent = r.sent
        /\ n.tasks = r.tasks /\ n.beat = r.beat /\ n.attempt = first /\ n.answer = r.next
        /\ n.aborted = r.aborted /\ n.blocked = r.blocked
    BY DEF SessionOK, Shape, Advanced
  <1>2. n \in Shape
    <2>1. Advanced(r.next) \in Nat \ {0} /\ r.next \in Nat /\ first \in 0..MaxAttempts
      BY Fields, NewNumber DEF Advanced
    <2> QED
      BY <2>1 DEF SessionOK, Shape
  <1> HIDE DEF n
  <1> USE DEF SessionOK, Shape
  <1>3. Taken(n)
    BY <1>1, NewNumber DEF Taken
  <1>4. WhoWaits(n)
    <2>1. n.answer # 0 /\ n.attempt # 0 /\ n.phase = "open"
      BY <1>1, NewNumber, Fields
    <2> QED
      BY <1>1, <2>1 DEF WhoWaits
  <1>5. Different(n)
    <2>1. ({n.beat, n.answer} \ {0}) \cap (r.sent \cup Elems(r.chan)) = {}
      BY <1>1, NewNumber DEF Different
    <2>2. n.beat # n.answer
      BY <1>1, NewNumber
    <2> QED
      BY <1>1, <2>1, <2>2 DEF Different
  <1>6. NoneLost(n)
    <2>1. r.answer = 0 /\ r.rx = n.rx
      BY <1>1 DEF WhoWaits
    <2> QED
      BY <1>1, <2>1, NewNumber DEF NoneLost
  <1>7. OneLost(n)
    BY <1>1 DEF OneLost
  <1>8. LastTaken(n)
    BY <1>1, NewNumber DEF LastTaken
  <1>9. Counted(n)
    BY <1>1, NewNumber, Fields DEF Counted, One, WhoWaits
  <1> QED
    BY <1>2, <1>3, <1>4, <1>5, <1>6, <1>7, <1>8, <1>9 DEF n

\* It takes another once the channel is closed, where nothing is counted any more.
LEMMA HandlerRetriesOK ==
    ASSUME NEW r, SessionOK(r), r.answer # 0, r.rx = "dropped", r.attempt < MaxAttempts
    PROVE  SessionOK([r EXCEPT !.attempt = @ + 1, !.answer = r.next, !.next = Advanced(@)])
  <1> DEFINE n == [r EXCEPT !.attempt = @ + 1, !.answer = r.next, !.next = Advanced(@)]
  <1>1. /\ n.phase = r.phase /\ n.next = r.next + 1 /\ n.chan = r.chan /\ n.rx = r.rx /\ n.sent = r.sent
        /\ n.tasks = r.tasks /\ n.beat = r.beat /\ n.attempt = r.attempt + 1 /\ n.answer = r.next
        /\ n.aborted = r.aborted /\ n.blocked = r.blocked
    BY DEF SessionOK, Shape, Advanced
  <1>2. n \in Shape
    <2>1. Advanced(r.next) \in Nat \ {0} /\ r.next \in Nat /\ r.attempt + 1 \in 0..MaxAttempts
      BY Fields, NewNumber DEF Advanced
    <2> QED
      BY <2>1 DEF SessionOK, Shape
  <1> HIDE DEF n
  <1> USE DEF SessionOK, Shape
  <1>3. Taken(n)
    BY <1>1, NewNumber DEF Taken
  <1>4. WhoWaits(n)
    BY <1>1, NewNumber, Fields DEF WhoWaits
  <1>5. Different(n)
    BY <1>1, NewNumber DEF Different
  <1>6. NoneLost(n)
    BY <1>1, NewNumber DEF NoneLost
  <1>7. OneLost(n)
    BY <1>1 DEF OneLost
  <1>8. LastTaken(n)
    BY <1>1, NewNumber DEF LastTaken
  <1>9. Counted(n)
    BY <1>1, NewNumber, Fields DEF Counted, One, WhoWaits
  <1> QED
    BY <1>2, <1>3, <1>4, <1>5, <1>6, <1>7, <1>8, <1>9 DEF n

\* The heartbeat takes a number, and has none yet.
LEMMA TickOK ==
    ASSUME NEW r, SessionOK(r), "heartbeat" \in r.tasks, r.beat = 0
    PROVE  SessionOK([r EXCEPT !.beat = r.next, !.next = Advanced(@)])
  <1> DEFINE n == [r EXCEPT !.beat = r.next, !.next = Advanced(@)]
  <1>1. /\ n.phase = r.phase /\ n.next = r.next + 1 /\ n.chan = r.chan /\ n.rx = r.rx /\ n.sent = r.sent
        /\ n.tasks = r.tasks /\ n.beat = r.next /\ n.attempt = r.attempt /\ n.answer = r.answer
        /\ n.aborted = r.aborted /\ n.blocked = r.blocked
    BY DEF SessionOK, Shape, Advanced
  <1>2. n \in Shape
    <2>1. Advanced(r.next) \in Nat \ {0} /\ r.next \in Nat
      BY Fields, NewNumber DEF Advanced
    <2> QED
      BY <2>1 DEF SessionOK, Shape
  <1> HIDE DEF n
  <1> USE DEF SessionOK, Shape
  <1>3. Taken(n)
    BY <1>1, NewNumber DEF Taken
  <1>4. WhoWaits(n)
    <2>1. r.phase \notin {"none", "registering"}
      BY DEF WhoWaits
    <2> QED
      BY <1>1, <2>1, NewNumber DEF WhoWaits
  <1>5. Different(n)
    <2>1. ({n.beat, n.answer} \ {0}) \cap (r.sent \cup Elems(r.chan)) = {}
      BY <1>1, NewNumber DEF Different
    <2>2. n.beat # n.answer
      BY <1>1, NewNumber
    <2> QED
      BY <1>1, <2>1, <2>2 DEF Different
  <1>6. NoneLost(n)
    BY <1>1, NewNumber DEF NoneLost
  <1>7. OneLost(n)
    <2>1. NoneLost(n) /\ n.beat \in Nat
      BY <1>1, <1>6, Fields
    <2> QED
      BY <2>1, <1>1 DEF NoneLost, OneLost, WhoWaits
  <1>8. LastTaken(n)
    BY <1>1, NewNumber DEF LastTaken
  <1>9. Counted(n)
    BY <1>1, NewNumber, Fields DEF Counted, One, WhoWaits
  <1> QED
    BY <1>2, <1>3, <1>4, <1>5, <1>6, <1>7, <1>8, <1>9 DEF n

\* The handler's frame enters the channel.
LEMMA HandlerSendsOK ==
    ASSUME NEW r, SessionOK(r), r.answer # 0, Len(r.chan) < Capacity
    PROVE  SessionOK([r EXCEPT !.chan = Append(@, r.answer), !.attempt = 0, !.answer = 0])
  <1> DEFINE n == [r EXCEPT !.chan = Append(@, r.answer), !.attempt = 0, !.answer = 0]
  <1>1. /\ n.phase = r.phase /\ n.next = r.next /\ n.chan = Append(r.chan, r.answer) /\ n.rx = r.rx /\ n.sent = r.sent
        /\ n.tasks = r.tasks /\ n.beat = r.beat /\ n.attempt = 0 /\ n.answer = 0
        /\ n.aborted = r.aborted /\ n.blocked = r.blocked
    BY DEF SessionOK, Shape, Advanced
  <1>0. /\ Append(r.chan, r.answer) \in Seq(Nat) /\ Len(Append(r.chan, r.answer)) = Len(r.chan) + 1
        /\ Elems(Append(r.chan, r.answer)) = Elems(r.chan) \cup {r.answer} /\ AllDifferent(Append(r.chan, r.answer))
    BY FrameEnters DEF SessionOK, Shape, Different
  <1>2. n \in Shape
    <2>1. 0 \in 0..MaxAttempts
      BY Fields
    <2> QED
      BY <1>0, <2>1 DEF SessionOK, Shape
  <1> HIDE DEF n
  <1> USE DEF SessionOK, Shape
  <1>3. Taken(n)
    <2>1. r.answer \in 1..(r.next - 1)
      BY Fields DEF Taken
    <2>2. Len(r.chan) + 1 <= Capacity
      BY Fields, SessionConstants
    <2>3. n.beat \in 0..(r.next - 1) /\ n.answer \in 0..(r.next - 1)
      BY <1>1, Fields DEF Taken
    <2> QED
      BY <1>1, <1>0, <2>1, <2>2, <2>3 DEF Taken
  <1>4. WhoWaits(n)
    BY <1>1, <1>0 DEF WhoWaits
  <1>5. Different(n)
    BY <1>1, <1>0 DEF Different
  <1>6. NoneLost(n)
    BY <1>1, <1>0 DEF NoneLost
  <1>7. OneLost(n)
    BY <1>1, <1>0 DEF OneLost
  <1>8. LastTaken(n)
    BY <1>1, <1>0 DEF LastTaken
  <1>9. Counted(n)
    <2>1. Len(n.chan) = Len(r.chan) + 1 /\ One(r.answer) = 1 /\ One(n.answer) = 0 /\ One(n.beat) = One(r.beat)
      BY <1>1, <1>0 DEF One
    <2>2. One(r.beat) \in Nat /\ Cardinality(r.sent) \in Nat /\ Len(r.chan) \in Nat
      BY Fields DEF One
    <2> QED
      BY <1>1, <2>1, <2>2, Fields DEF Counted
  <1> QED
    BY <1>2, <1>3, <1>4, <1>5, <1>6, <1>7, <1>8, <1>9 DEF n

\* The heartbeat's does.
LEMMA HeartbeatSendsOK ==
    ASSUME NEW r, SessionOK(r), r.beat # 0, Len(r.chan) < Capacity
    PROVE  SessionOK([r EXCEPT !.chan = Append(@, r.beat), !.beat = 0])
  <1> DEFINE n == [r EXCEPT !.chan = Append(@, r.beat), !.beat = 0]
  <1>1. /\ n.phase = r.phase /\ n.next = r.next /\ n.chan = Append(r.chan, r.beat) /\ n.rx = r.rx /\ n.sent = r.sent
        /\ n.tasks = r.tasks /\ n.beat = 0 /\ n.attempt = r.attempt /\ n.answer = r.answer
        /\ n.aborted = r.aborted /\ n.blocked = r.blocked
    BY DEF SessionOK, Shape, Advanced
  <1>0. /\ Append(r.chan, r.beat) \in Seq(Nat) /\ Len(Append(r.chan, r.beat)) = Len(r.chan) + 1
        /\ Elems(Append(r.chan, r.beat)) = Elems(r.chan) \cup {r.beat} /\ AllDifferent(Append(r.chan, r.beat))
    BY FrameEnters DEF SessionOK, Shape, Different
  <1>2. n \in Shape
    BY <1>0, SessionConstants DEF SessionOK, Shape, Phases
  <1> HIDE DEF n
  <1> USE DEF SessionOK, Shape
  <1>3. Taken(n)
    <2>1. r.beat \in 1..(r.next - 1)
      BY Fields DEF Taken
    <2>2. Len(r.chan) + 1 <= Capacity
      BY Fields, SessionConstants
    <2>3. n.beat \in 0..(r.next - 1) /\ n.answer \in 0..(r.next - 1)
      BY <1>1, Fields DEF Taken
    <2> QED
      BY <1>1, <1>0, <2>1, <2>2, <2>3 DEF Taken
  <1>4. WhoWaits(n)
    BY <1>1, <1>0 DEF WhoWaits
  <1>5. Different(n)
    BY <1>1, <1>0 DEF Different
  <1>6. NoneLost(n)
    BY <1>1, <1>0 DEF NoneLost
  <1>7. OneLost(n)
    BY <1>1, <1>0 DEF OneLost
  <1>8. LastTaken(n)
    BY <1>1, <1>0 DEF LastTaken
  <1>9. Counted(n)
    <2>1. Len(n.chan) = Len(r.chan) + 1 /\ One(r.beat) = 1 /\ One(n.beat) = 0 /\ One(n.answer) = One(r.answer)
      BY <1>1, <1>0 DEF One
    <2>2. One(r.answer) \in Nat /\ Cardinality(r.sent) \in Nat /\ Len(r.chan) \in Nat
      BY Fields DEF One
    <2> QED
      BY <1>1, <2>1, <2>2, Fields DEF Counted
  <1> QED
    BY <1>2, <1>3, <1>4, <1>5, <1>6, <1>7, <1>8, <1>9 DEF n

\* A frame leaves the channel for the stream.
LEMMA TransmitOK ==
    ASSUME NEW r, SessionOK(r), r.chan # <<>>
    PROVE  SessionOK([r EXCEPT !.chan = Tail(@), !.sent = @ \cup {Head(r.chan)}])
  <1> DEFINE n == [r EXCEPT !.chan = Tail(@), !.sent = @ \cup {Head(r.chan)}]
  <1>1. /\ n.phase = r.phase /\ n.next = r.next /\ n.chan = Tail(r.chan) /\ n.rx = r.rx /\ n.sent = r.sent \cup {Head(r.chan)}
        /\ n.tasks = r.tasks /\ n.beat = r.beat /\ n.attempt = r.attempt /\ n.answer = r.answer
        /\ n.aborted = r.aborted /\ n.blocked = r.blocked
    BY DEF SessionOK, Shape, Advanced
  <1>0. /\ Tail(r.chan) \in Seq(Nat) /\ Len(Tail(r.chan)) = Len(r.chan) - 1 /\ Len(r.chan) \in Nat
        /\ Elems(r.chan) = Elems(Tail(r.chan)) \cup {Head(r.chan)}
        /\ Head(r.chan) \notin Elems(Tail(r.chan)) /\ Head(r.chan) \in Nat
        /\ AllDifferent(Tail(r.chan))
    BY FrameLeaves DEF SessionOK, Shape, Different
  <1>2. n \in Shape
    BY <1>0 DEF SessionOK, Shape
  <1> HIDE DEF n
  <1> USE DEF SessionOK, Shape
  <1>3. Taken(n)
    <2>1. Len(Tail(r.chan)) <= Capacity
      BY <1>0, SessionConstants DEF Taken
    <2> QED
      BY <1>1, <1>0, <2>1 DEF Taken
  <1>4. WhoWaits(n)
    BY <1>1, <1>0 DEF WhoWaits
  <1>5. Different(n)
    BY <1>1, <1>0 DEF Different
  <1>6. NoneLost(n)
    BY <1>1, <1>0 DEF NoneLost
  <1>7. OneLost(n)
    BY <1>1, <1>0 DEF OneLost
  <1>8. LastTaken(n)
    BY <1>1, <1>0 DEF LastTaken
  <1>9. Counted(n)
    <2>1. Head(r.chan) \notin r.sent
      BY <1>0 DEF Different
    <2>2. Cardinality(n.sent) = Cardinality(r.sent) + 1 /\ Cardinality(r.sent) \in Nat
      BY <1>0, <1>1, <2>1, OneMoreSent
    <2>3. Len(n.chan) = Len(r.chan) - 1
      BY <1>0, <1>1
    <2> QED
      BY <1>0, <1>1, <2>2, <2>3, Fields DEF Counted, One
  <1> QED
    BY <1>2, <1>3, <1>4, <1>5, <1>6, <1>7, <1>8, <1>9 DEF n

\* The session ends and aborts its tasks; the heartbeat may still hold a number.
LEMMA EndedOK ==
    ASSUME NEW r, SessionOK(r), r.phase = "open", r.attempt = 0 \/ r.rx = "dropped"
    PROVE  SessionOK(Ended(r))
  <1> DEFINE n == Ended(r)
  <1>1. /\ n.phase = "ended" /\ n.next = r.next /\ n.chan = r.chan /\ n.rx = r.rx /\ n.sent = r.sent
        /\ n.tasks = r.tasks /\ n.beat = r.beat /\ n.attempt = 0 /\ n.answer = 0
        /\ n.aborted = r.tasks /\ n.blocked = r.blocked
    BY DEF SessionOK, Shape, Ended, Aborted
  <1>2. n \in Shape
    <2>1. 0 \in 0..MaxAttempts
      BY Fields
    <2> QED
      BY <2>1 DEF SessionOK, Shape, Phases, Ended, Aborted
  <1> HIDE DEF n
  <1> USE DEF SessionOK, Shape
  <1>3. Taken(n)
    BY <1>1 DEF Taken
  <1>4. WhoWaits(n)
    BY <1>1 DEF WhoWaits
  <1>5. Different(n)
    BY <1>1 DEF Different
  <1>6. NoneLost(n)
    <2>1. r.rx = "open" => r.answer = 0
      BY DEF WhoWaits
    <2> QED
      BY <1>1, <2>1 DEF NoneLost
  <1>7. OneLost(n)
    <2>1. NoneLost(r) /\ r.beat \in Nat
      BY Fields
    <2> QED
      BY <2>1, <1>1 DEF NoneLost, OneLost, WhoWaits
  <1>8. LastTaken(n)
    BY <1>1 DEF LastTaken
  <1>9. Counted(n)
    BY <1>1 DEF Counted, One
  <1> QED
    BY <1>2, <1>3, <1>4, <1>5, <1>6, <1>7, <1>8, <1>9 DEF n

\* A task is gone: one that held nothing, one that found the channel closed, or
\* one aborted after the session's end, whose number is then the one that is lost.
LEMMA GoneOK ==
    ASSUME NEW r, SessionOK(r), NEW t \in r.tasks,
           (t = "heartbeat" => r.beat = 0) \/ r.rx = "dropped" \/ r.phase = "ended"
    PROVE  SessionOK(Gone(r, t))
  <1> DEFINE n == Gone(r, t)
  <1>1. /\ n.phase = r.phase /\ n.next = r.next /\ n.chan = r.chan /\ n.rx = r.rx /\ n.sent = r.sent
        /\ n.tasks = r.tasks \ {t} /\ n.attempt = r.attempt /\ n.answer = r.answer
        /\ n.beat = (IF t = "heartbeat" THEN 0 ELSE r.beat)
        /\ n.aborted = r.aborted \ {t} /\ n.blocked = r.blocked
    BY DEF SessionOK, Shape, Gone
  <1>2. n \in Shape
    BY DEF SessionOK, Shape, Gone
  <1> HIDE DEF n
  <1> USE DEF SessionOK, Shape
  <1>3. Taken(n)
    <2>1. 0 \in 0..(r.next - 1)
      BY Fields
    <2> QED
      BY <1>1, <2>1 DEF Taken
  <1>4. WhoWaits(n)
    BY <1>1 DEF WhoWaits
  <1>5. Different(n)
    BY <1>1 DEF Different
  <1>6. NoneLost(n)
    <2>1. CASE t = "heartbeat"
      BY <1>1, <2>1 DEF NoneLost
    <2>2. CASE t # "heartbeat"
      BY <1>1, <2>2 DEF NoneLost
    <2> QED
      BY <2>1, <2>2
  <1>7. OneLost(n)
    <2>1. CASE "heartbeat" \in r.tasks /\ r.phase = "ended"
      <3>1. NoneLost(r) /\ r.beat \in Nat /\ r.answer = 0
        BY <2>1, Fields DEF WhoWaits
      <3>2. r.rx = "open" => 1..(r.next - 1) \subseteq r.sent \cup Elems(r.chan) \cup {r.beat}
        BY <2>1, <3>1, NewNumber DEF NoneLost
      <3> QED
        BY <1>1, <3>1, <3>2 DEF OneLost
    <2>2. CASE ~("heartbeat" \in r.tasks /\ r.phase = "ended")
      BY <1>1, <2>2 DEF OneLost
    <2> QED
      BY <2>1, <2>2
  <1>8. LastTaken(n)
    BY <1>1 DEF LastTaken
  <1>9. Counted(n)
    <2>1. CASE n.beat = r.beat
      BY <1>1, <2>1 DEF Counted, One
    <2>2. CASE n.beat # r.beat
      BY <1>1, <2>2 DEF Counted
    <2> QED
      BY <2>1, <2>2
  <1> QED
    BY <1>2, <1>3, <1>4, <1>5, <1>6, <1>7, <1>8, <1>9 DEF n

\* Telemetry goes into a virsh command, or comes out of it.
LEMMA VirshOK ==
    ASSUME NEW r, SessionOK(r), NEW b \in BOOLEAN
    PROVE  SessionOK([r EXCEPT !.blocked = b])
  <1> DEFINE n == [r EXCEPT !.blocked = b]
  <1>1. /\ n.phase = r.phase /\ n.next = r.next /\ n.chan = r.chan /\ n.rx = r.rx /\ n.sent = r.sent
        /\ n.tasks = r.tasks /\ n.beat = r.beat /\ n.attempt = r.attempt /\ n.answer = r.answer
        /\ n.aborted = r.aborted
    BY DEF SessionOK, Shape
  <1>2. n \in Shape
    BY DEF SessionOK, Shape
  <1> HIDE DEF n
  <1>3. Taken(n) /\ WhoWaits(n)
    BY <1>1 DEF SessionOK, Taken, WhoWaits
  <1>4. Different(n) /\ NoneLost(n) /\ OneLost(n) /\ LastTaken(n) /\ Counted(n)
    BY <1>1 DEF SessionOK, Different, NoneLost, OneLost, LastTaken, Counted
  <1> QED
    BY <1>2, <1>3, <1>4 DEF SessionOK, n

\* The transport lets go of the channel.
LEMMA DropOK ==
    ASSUME NEW r, SessionOK(r), r.phase # "none"
    PROVE  SessionOK([r EXCEPT !.rx = "dropped", !.chan = <<>>])
  <1> DEFINE n == [r EXCEPT !.rx = "dropped", !.chan = <<>>]
  <1>1. /\ n.phase = r.phase /\ n.next = r.next /\ n.chan = <<>> /\ n.rx = "dropped" /\ n.sent = r.sent
        /\ n.tasks = r.tasks /\ n.beat = r.beat /\ n.attempt = r.attempt /\ n.answer = r.answer
        /\ n.aborted = r.aborted /\ n.blocked = r.blocked
    BY DEF SessionOK, Shape, Advanced
  <1>2. n \in Shape
    BY NoFrames DEF SessionOK, Shape
  <1> HIDE DEF n
  <1> USE DEF SessionOK, Shape
  <1>3. Taken(n)
    BY <1>1, NoFrames, SessionConstants DEF Taken
  <1>4. WhoWaits(n)
    BY <1>1, NoFrames, SessionConstants DEF WhoWaits
  <1>5. Different(n)
    BY <1>1, NoFrames, SessionConstants DEF Different
  <1>6. NoneLost(n)
    BY <1>1, NoFrames, SessionConstants DEF NoneLost
  <1>7. OneLost(n)
    BY <1>1, NoFrames, SessionConstants DEF OneLost
  <1>8. LastTaken(n)
    BY <1>1, NoFrames, SessionConstants DEF LastTaken
  <1>9. Counted(n)
    BY <1>1, NoFrames, SessionConstants DEF Counted, One
  <1> QED
    BY <1>2, <1>3, <1>4, <1>5, <1>6, <1>7, <1>8, <1>9 DEF n
--------------------------------------------------------------------------------
\* Initially no session has begun.
LEMMA InitSessions == Init => SessionInv
  <1> SUFFICES ASSUME Init PROVE SessionInv
    OBVIOUS
  <1>1. SessionOK(Fresh) /\ Fresh \in Shape
    BY FreshOK DEF SessionOK
  <1>2. \A s \in Sessions : session[s] = Fresh
    BY DEF Init
  <1>3. session \in [Sessions -> Shape]
    BY <1>1 DEF Init
  <1>4. 0 \in 0..MaxSessions /\ 0 \in 0..MaxBreaks
    BY SessionConstants
  <1> QED
    BY <1>1, <1>2, <1>3, <1>4 DEF Init, SessionInv

\* A step that leaves one session as it should be leaves all of them so.
LEMMA OneChanges ==
    ASSUME SessionInv, NEW s \in Sessions, NEW new, SessionOK(new), Changes(s, new),
           cur' \in 0..MaxSessions, shutdown' \in BOOLEAN, breaks' \in 0..MaxBreaks
    PROVE  SessionInv'
  <1>1. new \in Shape
    BY DEF SessionOK
  <1>2. session' \in [Sessions -> Shape]
    BY <1>1 DEF SessionInv, Changes
  <1>3. ASSUME NEW e \in Sessions PROVE SessionOK(session'[e])
    <2>1. CASE e = s
      BY <2>1 DEF SessionInv, Changes
    <2>2. CASE e # s
      <3>1. session'[e] = session[e]
        BY <2>2 DEF SessionInv, Changes
      <3> QED
        BY <3>1 DEF SessionInv
    <2> QED
      BY <2>1, <2>2
  <1> QED
    BY <1>2, <1>3 DEF SessionInv

\* Every step of a session keeps its record as it should be.
LEMMA SessionStep == SessionInv /\ [Next]_vars => SessionInv'
  <1> SUFFICES ASSUME SessionInv, [Next]_vars PROVE SessionInv'
    OBVIOUS
  <1>0. /\ cur \in 0..MaxSessions /\ shutdown \in BOOLEAN /\ breaks \in 0..MaxBreaks
        /\ \A s \in Sessions : SessionOK(session[s])
    BY DEF SessionInv
  <1>1. CASE Shutdown
    BY <1>1 DEF Shutdown, SessionInv
  <1>2. CASE UNCHANGED vars
    BY <1>2 DEF vars, SessionInv
  <1>3. ASSUME NEW s \in Sessions, Open(s) PROVE SessionInv'
    BY <1>0, <1>3, OpenOK, OneChanges DEF Open, Sessions
  <1>4. ASSUME NEW s \in Sessions, StreamOpens(s) PROVE SessionInv'
    BY <1>0, <1>4, StreamOpensOK, OneChanges DEF StreamOpens
  <1>5. ASSUME NEW s \in Sessions, StreamFails(s) PROVE SessionInv'
    BY <1>0, <1>5, StreamFailsOK, OneChanges DEF StreamFails
  <1>6. ASSUME NEW s \in Sessions, TelemetryOpens(s) PROVE SessionInv'
    BY <1>0, <1>6, TelemetryOpensOK, OneChanges DEF TelemetryOpens
  <1>7. ASSUME NEW s \in Sessions, TelemetryFails(s) PROVE SessionInv'
    BY <1>0, <1>7, TelemetryFailsOK, OneChanges DEF TelemetryFails
  <1>8. ASSUME NEW s \in Sessions, Handle(s) PROVE SessionInv'
    <2> PICK first \in {1, MaxAttempts} :
            Changes(s, [session[s] EXCEPT !.attempt = first, !.answer = session[s].next,
                                          !.next = Advanced(@)])
      BY <1>8 DEF Handle
    <2>1. SessionOK([session[s] EXCEPT !.attempt = first, !.answer = session[s].next,
                                       !.next = Advanced(@)])
      BY <1>0, <1>8, HandleOK DEF Handle, InLoop
    <2> QED
      BY <1>0, <1>8, <2>1, OneChanges DEF Handle
  <1>9. ASSUME NEW s \in Sessions, HandlerSends(s) PROVE SessionInv'
    BY <1>0, <1>9, HandlerSendsOK, OneChanges DEF HandlerSends, Room
  <1>10. ASSUME NEW s \in Sessions, HandlerRetries(s) PROVE SessionInv'
    BY <1>0, <1>10, HandlerRetriesOK, OneChanges DEF HandlerRetries
  <1>11. ASSUME NEW s \in Sessions, HandlerGivesUp(s) PROVE SessionInv'
    <2>1. session[s].phase = "open"
      BY <1>0, <1>11 DEF HandlerGivesUp, SessionOK, WhoWaits
    <2>2. SessionOK(Ended(session[s]))
      BY <1>0, <1>11, <2>1, EndedOK DEF HandlerGivesUp
    <2> QED
      BY <1>0, <1>11, <2>2, OneChanges DEF HandlerGivesUp
  <1>12. ASSUME NEW s \in Sessions, SessionEnds(s) PROVE SessionInv'
    BY <1>0, <1>12, EndedOK, OneChanges DEF SessionEnds, InLoop
  <1>13. ASSUME NEW s \in Sessions, SessionStops(s) PROVE SessionInv'
    BY <1>0, <1>13, EndedOK, OneChanges DEF SessionStops, InLoop
  <1>14. ASSUME NEW s \in Sessions, Tick(s) PROVE SessionInv'
    BY <1>0, <1>14, TickOK, OneChanges DEF Tick, Ticking
  <1>15. ASSUME NEW s \in Sessions, HeartbeatSends(s) PROVE SessionInv'
    BY <1>0, <1>15, HeartbeatSendsOK, OneChanges DEF HeartbeatSends, Room
  <1>16. ASSUME NEW s \in Sessions, HeartbeatClosed(s) PROVE SessionInv'
    <2>1. "heartbeat" \in session[s].tasks /\ session[s].rx = "dropped"
      BY <1>0, <1>16 DEF HeartbeatClosed, SessionOK, WhoWaits
    <2>2. SessionOK(Gone(session[s], "heartbeat"))
      BY <1>0, <2>1, GoneOK
    <2> QED
      BY <1>0, <1>16, <2>2, OneChanges DEF HeartbeatClosed
  <1>17. ASSUME NEW s \in Sessions, NEW t \in Tasks, TaskStops(s, t) PROVE SessionInv'
    <2>1. SessionOK(Gone(session[s], t))
      BY <1>0, <1>17, GoneOK DEF TaskStops, Yields
    <2> QED
      BY <1>0, <1>17, <2>1, OneChanges DEF TaskStops
  <1>21. ASSUME NEW s \in Sessions, NEW t \in Tasks, AbortLands(s, t) PROVE SessionInv'
    <2>1. session[s].phase = "ended" /\ t \in session[s].tasks
      BY <1>0, <1>21 DEF AbortLands, Yields, SessionOK, WhoWaits
    <2>2. SessionOK(Gone(session[s], t))
      BY <1>0, <2>1, GoneOK
    <2> QED
      BY <1>0, <1>21, <2>2, OneChanges DEF AbortLands
  <1>22. ASSUME NEW s \in Sessions, VirshRuns(s) \/ VirshEnds(s) PROVE SessionInv'
    <2> PICK b \in BOOLEAN : Changes(s, [session[s] EXCEPT !.blocked = b])
      BY <1>22 DEF VirshRuns, VirshEnds
    <2>1. SessionOK([session[s] EXCEPT !.blocked = b])
      BY <1>0, VirshOK
    <2> QED
      BY <1>0, <1>22, <2>1, OneChanges DEF VirshRuns, VirshEnds
  <1>18. ASSUME NEW s \in Sessions, Transmit(s) PROVE SessionInv'
    BY <1>0, <1>18, TransmitOK, OneChanges DEF Transmit
  <1>19. ASSUME NEW s \in Sessions, Break(s) PROVE SessionInv'
    <2>1. breaks' \in 0..MaxBreaks
      BY <1>0, <1>19, SessionConstants DEF Break
    <2>2. SessionOK([session[s] EXCEPT !.rx = "dropped", !.chan = <<>>])
      BY <1>0, <1>19, DropOK DEF Break
    <2> QED
      BY <1>0, <1>19, <2>1, <2>2, OneChanges DEF Break, Drop
  <1>20. ASSUME NEW s \in Sessions, Release(s) PROVE SessionInv'
    <2>1. SessionOK([session[s] EXCEPT !.rx = "dropped", !.chan = <<>>])
      BY <1>0, <1>20, DropOK DEF Release
    <2> QED
      BY <1>0, <1>20, <2>1, OneChanges DEF Release, Drop
  <1> QED
    BY <1>1, <1>2, <1>3, <1>4, <1>5, <1>6, <1>7, <1>8, <1>9, <1>10, <1>11, <1>12, <1>13,
       <1>14, <1>15, <1>16, <1>17, <1>18, <1>19, <1>20, <1>21, <1>22 DEF Next

\* The invariant holds in every state of every behaviour.
THEOREM SessionInvariance == Spec => []SessionInv
  BY InitSessions, SessionStep, PTL DEF Spec
--------------------------------------------------------------------------------
\* A sequence of elements of S is one.
LEMMA OfNumbers ==
    ASSUME NEW S, NEW q \in Seq(Nat), \A i \in 1..Len(q) : q[i] \in S
    PROVE  q \in Seq(S)
  OBVIOUS

\* The channel as the properties see it.
LEMMA ChannelHolds ==
    ASSUME SessionInv, NEW s \in Sessions
    PROVE  /\ InChannel(s) = Elems(session[s].chan)
           /\ session[s].chan \in Seq(1..(session[s].next - 1))
  <1> DEFINE q == session[s].chan
  <1>1. SessionOK(session[s])
    BY DEF SessionInv
  <1>2. q \in Seq(Nat) /\ Elems(q) \subseteq 1..(session[s].next - 1)
    BY <1>1 DEF SessionOK, Shape, Taken
  <1>3. DOMAIN q = 1..Len(q) /\ Len(q) \in Nat
    BY <1>2
  <1>4. \A i \in 1..Len(q) : q[i] \in 1..(session[s].next - 1)
    BY <1>2 DEF Elems
  <1>5. q \in Seq(1..(session[s].next - 1))
    BY <1>2, <1>4, OfNumbers
  <1> QED
    BY <1>3, <1>5 DEF InChannel, Elems

\* Frame numbers, channel and tasks have the types the session's code gives them,
\* and the channel never holds more than its capacity.
THEOREM SessionTyped == Spec => []TypeOK
  <1>1. SessionInv => TypeOK
    <2> SUFFICES ASSUME SessionInv PROVE TypeOK
      OBVIOUS
    <2>1. ASSUME NEW s \in Sessions PROVE SessionOK(session[s])
      BY DEF SessionInv
    <2>2. ASSUME NEW s \in Sessions
          PROVE  session[s].aborted \subseteq session[s].tasks /\ session[s].blocked \in BOOLEAN
      BY <2>1 DEF SessionOK, Shape, WhoWaits
    <2> QED
      BY <2>1, <2>2, ChannelHolds DEF TypeOK, SessionInv, SessionOK, Shape, Phases, Taken
  <1> QED
    BY <1>1, SessionInvariance, PTL

\* What waits for room, counted.
LEMMA WaitingCounted ==
    ASSUME NEW a \in Nat, NEW b \in Nat, a = b => a = 0
    PROVE  Cardinality({a, b} \ {0}) = One(a) + One(b)
  <1>1. CASE a = 0 /\ b = 0
    <2>1. {a, b} \ {0} = {}
      BY <1>1
    <2> QED
      BY <1>1, <2>1, FS_EmptySet DEF One
  <1>2. CASE a = 0 /\ b # 0
    <2>1. {a, b} \ {0} = {b}
      BY <1>2
    <2>2. Cardinality({b}) = 1
      BY FS_Singleton
    <2>3. One(a) + One(b) = 1
      BY <1>2 DEF One
    <2> QED
      BY <2>1, <2>2, <2>3
  <1>3. CASE a # 0 /\ b = 0
    <2>1. {a, b} \ {0} = {a}
      BY <1>3
    <2>2. Cardinality({a}) = 1
      BY FS_Singleton
    <2>3. One(a) + One(b) = 1
      BY <1>3 DEF One
    <2> QED
      BY <2>1, <2>2, <2>3
  <1>4. CASE a # 0 /\ b # 0
    <2>1. {a, b} \ {0} = {a} \cup {b} /\ b \notin {a}
      BY <1>4
    <2>2. IsFiniteSet({a}) /\ Cardinality({a}) = 1
      BY FS_Singleton
    <2>3. Cardinality({a} \cup {b}) = Cardinality({a}) + 1
      BY <2>1, <2>2, FS_AddElement
    <2> QED
      BY <1>4, <2>1, <2>2, <2>3 DEF One
  <1> QED
    BY <1>1, <1>2, <1>3, <1>4

\* While a session and its stream live, every number its tasks have taken is in
\* one place and one only: sent, in the channel, or waiting for room in it.
THEOREM NumbersAreAccounted == Spec => []NumbersAccounted
  <1>1. SessionInv => NumbersAccounted
    <2> SUFFICES ASSUME SessionInv, NEW s \in Sessions,
                        session[s].phase \notin {"none", "ended"}, session[s].rx = "open"
                 PROVE  /\ session[s].sent \cup InChannel(s) \cup Held(s)
                            = 1..(session[s].next - 1)
                        /\ Cardinality(session[s].sent) + Len(session[s].chan)
                            + Cardinality(Held(s)) = session[s].next - 1
      BY DEF NumbersAccounted
    <2> DEFINE r == session[s]
    <2>1. SessionOK(r)
      BY DEF SessionInv
    <2> HIDE DEF r
    <2>2. InChannel(s) = Elems(r.chan) /\ Held(s) = {r.beat, r.answer} \ {0}
      BY ChannelHolds DEF Held, r
    <2>3. r.phase \notin {"none", "ended"} /\ r.rx = "open"
      BY DEF r
    <2>4. r.sent \cup Elems(r.chan) \cup ({r.beat, r.answer} \ {0}) = 1..(r.next - 1)
      <3>1. 1..(r.next - 1) \subseteq r.sent \cup Elems(r.chan) \cup {r.beat, r.answer}
        BY <2>1, <2>3 DEF SessionOK, NoneLost
      <3>2. 0 \notin 1..(r.next - 1)
        BY <2>1, NewNumber
      <3>3. {r.beat, r.answer} \ {0} \subseteq 1..(r.next - 1)
        BY <2>1, Fields DEF SessionOK, Taken
      <3>4. r.sent \subseteq 1..(r.next - 1) /\ Elems(r.chan) \subseteq 1..(r.next - 1)
        BY <2>1 DEF SessionOK, Taken
      <3> QED
        BY <3>1, <3>2, <3>3, <3>4
    <2>5. Cardinality({r.beat, r.answer} \ {0}) = One(r.beat) + One(r.answer)
      BY <2>1, Fields, WaitingCounted DEF SessionOK, Different
    <2>6. Cardinality(r.sent) + Len(r.chan) + One(r.beat) + One(r.answer) = r.next - 1
      BY <2>1, <2>3 DEF SessionOK, Counted
    <2>7. One(r.beat) \in Nat /\ One(r.answer) \in Nat /\ Cardinality(r.sent) \in Nat /\ Len(r.chan) \in Nat
      BY <2>1, Fields DEF One
    <2>8. Cardinality(r.sent) + Len(r.chan) + Cardinality({r.beat, r.answer} \ {0}) = r.next - 1
      BY <2>5, <2>6, <2>7
    <2> QED
      BY <2>2, <2>4, <2>8 DEF r
  <1> QED
    BY <1>1, SessionInvariance, PTL

\* A set with no more than one element in it.
LEMMA AtMostOne ==
    ASSUME NEW x, NEW S \in SUBSET {x}
    PROVE  Cardinality(S) <= 1
  <1>1. S = {} \/ S = {x}
    OBVIOUS
  <1>2. Cardinality({x}) = 1 /\ Cardinality({}) = 0
    BY FS_EmptySet, FS_Singleton
  <1>3. Cardinality(S) = 1 \/ Cardinality(S) = 0
    BY <1>1, <1>2
  <1> QED
    BY <1>3

\* Two tasks send the frames and each holds one number at a time, so the stream
\* has at most one number still to come below the highest it carries.
THEOREM OneBehind == Spec => []AtMostOneBehind
  <1>1. SessionInv => AtMostOneBehind
    <2> SUFFICES ASSUME SessionInv, NEW s \in Sessions, session[s].rx = "open"
                 PROVE  LET out == session[s].sent \cup InChannel(s)
                        IN  Cardinality({n \in 1..session[s].next :
                                            n \notin out /\ \E m \in out : m > n}) <= 1
      BY DEF AtMostOneBehind
    <2> DEFINE r == session[s]
               out == r.sent \cup Elems(r.chan)
               B == {n \in 1..r.next : n \notin out /\ \E m \in out : m > n}
    <2>1. SessionOK(r) /\ InChannel(s) = Elems(r.chan) /\ r.rx = "open"
      BY ChannelHolds DEF SessionInv
    <2> HIDE DEF r
    <2>2. r.next \in Nat /\ \A m \in out : m \in 1..(r.next - 1)
      BY <2>1, Fields DEF SessionOK, Taken
    <2>3. \A n \in B : n \in 1..(r.next - 1) /\ n # 0 /\ n # r.next - 1 /\ n \notin out
      BY <2>2
    <2>4. \E x : B \subseteq {x}
      <3>1. CASE r.phase = "none"
        <4>1. r.next = 1
          BY <2>1, <3>1 DEF SessionOK, WhoWaits
        <4>2. B = {}
          BY <2>3, <4>1
        <4> QED
          BY <4>2
      <3>2. CASE r.phase = "ended"
        BY <2>1, <2>3, <3>2 DEF SessionOK, OneLost
      <3>3. CASE r.phase \notin {"none", "ended"}
        <4>1. \A n \in B : n \in {r.beat, r.answer}
          BY <2>1, <2>3, <3>3 DEF SessionOK, NoneLost
        <4>2. CASE r.beat = 0 \/ r.beat = r.next - 1
          BY <2>3, <4>1, <4>2
        <4>3. CASE r.answer = 0 \/ r.answer = r.next - 1
          BY <2>3, <4>1, <4>3
        <4> QED
          BY <2>1, <4>2, <4>3 DEF SessionOK, LastTaken
      <3> QED
        BY <3>1, <3>2, <3>3
    <2>5. Cardinality(B) <= 1
      BY <2>4, AtMostOne
    <2> QED
      BY <2>1, <2>5 DEF r
  <1> QED
    BY <1>1, SessionInvariance, PTL
================================================================================
