---------------------------- MODULE TelemetryProofs ----------------------------
(***************************************************************************)
(* What the telemetry loop reports is what the kernel has counted, for any *)
(* counters, numbers of loops and settings of the clock.  The loop knows   *)
(* two readings; what has moved between them is known to the histories     *)
(* alone, and the invariant ties the three together: a counter is the last *)
(* reading and what has moved since, less what has left with its device.   *)
(***************************************************************************)
EXTENDS Telemetry, TLAPS

\* What is left of the bounds, so that what has struck is never forgotten.
BudgetWithin ==
    /\ budget \in [{"misreads", "leaves", "settings"} -> Nat]
    /\ budget["misreads"] <= MaxMisreads /\ budget["leaves"] <= MaxLeaves

\* A counter has gained at most what has moved since it was read, and exactly
\* that as long as no device has left.
GainsMoved ==
    \A f \in Files \ missed :
        /\ counter[f] <= last.io[f] + since[f]
        /\ NoDeviceLeft => counter[f] = last.io[f] + since[f]

\* Each byte has added at most as much as entries count it.
CountedInLayers == \A f \in Files : since[f] <= Layers[f] * bytes[f]

MissedIsMisread == missed # {} => ~NoMisread

\* The wall clock is not behind unless it was set back.
ClockAhead == ~setBack => gap >= real

\* The CPU time since a reading is what was spent since.
CpuSpent ==
    last.cpu # NoReading =>
        /\ Total(cpu) = last.cpu.total + Total(spent)
        /\ cpu["idle"] = last.cpu.idle + spent["idle"]

TelemetryInv ==
    /\ TypeOK /\ BudgetWithin /\ GainsMoved /\ MissedIsMisread /\ ClockAhead /\ CpuSpent
    /\ CountedInLayers /\ EveryCountOnce
--------------------------------------------------------------------------------
\* saturating_sub, between two readings with c in between.
LEMMA SubGains ==
    ASSUME NEW a \in Nat, NEW b \in Nat
    PROVE  /\ Sub(a, b) \in Nat /\ Sub(a, b) <= a
           /\ \A c \in Nat : /\ a <= b + c => Sub(a, b) <= c
                             /\ a = b + c => Sub(a, b) = c
  BY DEF Sub

\* What one byte adds is within its share of the layers.
LEMMA OneMoreByte ==
    ASSUME NEW l \in Nat \ {0}, NEW b \in Nat, NEW c \in Nat, NEW n \in 1..l, c <= l * b
    PROVE  c + n <= l * (b + 1)
  <1>1. l * (b + 1) = l * b + l
    OBVIOUS
  <1> QED
    BY <1>1

\* Sums of times.
LEMMA TotalTyped ==
    ASSUME NEW time \in [Kinds -> Nat]
    PROVE  Total(time) \in Nat /\ time["idle"] \in Nat /\ time["busy"] \in Nat
           /\ time["guest"] \in Nat
  BY DEF Total, Kinds

LEMMA NoTimeTotal == NoTime \in [Kinds -> Nat] /\ Total(NoTime) = 0 /\ NoTime["idle"] = 0
  BY DEF NoTime, Total, Kinds

\* A reading has a number for every file, and the right one for those it could read.
LEMMA ReadIoTyped ==
    ASSUME counter \in [Files -> Nat], NEW unread
    PROVE  /\ ReadIo(unread) \in [Files -> Nat]
           /\ \A f \in Files : f \notin unread => ReadIo(unread)[f] = counter[f]
  BY DEF ReadIo

\* A failed reading is not forgotten.
LEMMA ReadingKept ==
    ASSUME BudgetWithin, NEW unread, Reading(unread)
    PROVE  /\ BudgetWithin'
           /\ NoMisread' => NoMisread /\ unread = {}
           /\ NoDeviceLeft' <=> NoDeviceLeft
  <1>1. CASE unread = {} /\ UNCHANGED budget
    BY <1>1 DEF BudgetWithin, NoMisread, NoDeviceLeft
  <1>2. CASE Spend("misreads")
    <2>1. budget["misreads"] \in Nat \ {0} /\ budget' = [budget EXCEPT !["misreads"] = @ - 1]
      BY <1>2 DEF Spend, BudgetWithin
    <2> QED
      BY <2>1, TelemetryBounds DEF BudgetWithin, NoMisread, NoDeviceLeft
  <1> QED
    BY <1>1, <1>2 DEF Reading

\* What a reading of the CPU gives.
Readings == [total : Nat, idle : Nat] \cup {NoReading}

LEMMA ReadCpuTyped ==
    ASSUME cpu \in [Kinds -> Nat], NEW unread
    PROVE  /\ ReadCpu(unread) \in Readings
           /\ ReadCpu(unread) # NoReading =>
                ReadCpu(unread).total = Total(cpu) /\ ReadCpu(unread).idle = cpu["idle"]
  BY TotalTyped DEF ReadCpu, Readings

\* The share of the CPU that two readings give.
LEMMA ShareTyped ==
    ASSUME NEW p \in Readings, NEW q \in Readings
    PROVE  /\ Share(p, q).used \in 0..Share(p, q).of
           /\ NoReading \in {p, q} => Share(p, q).of = 0
           /\ NoReading \notin {p, q} => \A t, i \in Nat :
                q.total = p.total + t /\ q.idle = p.idle + i /\ i <= t
                    => Share(p, q) = [used |-> t - i, of |-> t]
  <1>1. CASE NoReading \in {p, q}
    BY <1>1 DEF Share
  <1>2. CASE NoReading \notin {p, q}
    <2>1. p.total \in Nat /\ p.idle \in Nat /\ q.total \in Nat /\ q.idle \in Nat
      BY <1>2 DEF Readings
    <2> DEFINE total == Sub(q.total, p.total)
               idle == Sub(q.idle, p.idle)
    <2>2. Share(p, q) = [used |-> Sub(total, idle), of |-> total]
      BY <1>2 DEF Share
    <2>3. total \in Nat /\ idle \in Nat
      BY <2>1, SubGains
    <2>4. Sub(total, idle) \in 0..total
      BY <2>3, SubGains
    <2>5. ASSUME NEW t \in Nat, NEW i \in Nat, q.total = p.total + t, q.idle = p.idle + i, i <= t
          PROVE  total = t /\ Sub(total, idle) = t - i
      <3>1. total = t /\ idle = i
        BY <2>1, <2>5, SubGains
      <3>2. Sub(t, i) = t - i
        BY <2>5 DEF Sub
      <3> QED
        BY <3>1, <3>2
    <2> QED
      BY <1>2, <2>2, <2>4, <2>5
  <1> QED
    BY <1>1, <1>2
--------------------------------------------------------------------------------
\* At the start nothing has moved, and nothing was read.
LEMMA TelemetryInit == Init => TelemetryInv
  <1> SUFFICES ASSUME Init PROVE TelemetryInv
    OBVIOUS
  <1>1. NoTime \in [Kinds -> Nat] /\ Zero \in [Files -> Nat]
    BY DEF NoTime, Kinds, Zero
  <1>2. TypeOK
    <2>1. report.bytes \in [Files -> Nat] /\ report.elapsed \in Nat \ {0}
          /\ report.cpu.used \in 0..report.cpu.of
      BY <1>1 DEF Init, NoReport
    <2>2. last.io \in [Files -> Nat] /\ last.cpu \in Readings
      BY <1>1 DEF Init, Readings
    <2>3. {counter, bytes, since, moved, reported, skipped} \subseteq [Files -> Nat]
      BY <1>1 DEF Init
    <2>4. {cpu, spent} \subseteq [Kinds -> Nat]
      BY <1>1 DEF Init, Kinds
    <2>5. {ticked, session, shutdown, setBack} \subseteq BOOLEAN /\ missed \subseteq Files
      BY DEF Init
    <2>6. task \in {"off", "idle", "pushing"} /\ gap \in Int /\ real \in Nat
      BY DEF Init
    <2> QED
      BY <2>1, <2>2, <2>3, <2>4, <2>5, <2>6 DEF TypeOK, Readings
  <1>3. BudgetWithin
    BY TelemetryBounds DEF Init, BudgetWithin
  <1>4. GainsMoved /\ MissedIsMisread /\ ClockAhead /\ CpuSpent
    BY DEF Init, GainsMoved, MissedIsMisread, ClockAhead, CpuSpent, Zero
  <1>5. CountedInLayers
    <2> SUFFICES ASSUME NEW f \in Files PROVE since[f] <= Layers[f] * bytes[f]
      BY DEF CountedInLayers
    <2>1. since[f] = 0 /\ bytes[f] = 0 /\ Layers[f] \in Nat
      BY LayersAssumption DEF Init, Zero
    <2> QED
      BY <2>1
  <1>6. EveryCountOnce
    BY DEF Init, EveryCountOnce, Zero
  <1> QED
    BY <1>2, <1>3, <1>4, <1>5, <1>6 DEF TelemetryInv

\* A window that begins has nothing in it.
LEMMA NewWindowInLayers ==
    ASSUME bytes' = Zero, since' = Zero
    PROVE  CountedInLayers'
  <1> SUFFICES ASSUME NEW f \in Files PROVE since'[f] <= Layers[f] * bytes'[f]
    BY DEF CountedInLayers
  <1>1. since'[f] = 0 /\ bytes'[f] = 0 /\ Layers[f] \in Nat
    BY LayersAssumption DEF Zero
  <1> QED
    BY <1>1

\* A loop's first reading: what has moved since the last one of the loop before
\* falls between the two.
LEMMA BeginKeeps == TelemetryInv /\ Begin => TelemetryInv'
  <1> SUFFICES ASSUME TelemetryInv, Begin PROVE TelemetryInv'
    OBVIOUS
  <1> USE DEF TelemetryInv
  <1> PICK unread \in Unread :
        /\ Reading(unread)
        /\ last' = [io |-> ReadIo(unread), cpu |-> ReadCpu(unread)]
        /\ NewWindow(unread)
    BY DEF Begin
  <1>0. /\ counter \in [Files -> Nat] /\ cpu \in [Kinds -> Nat] /\ since \in [Files -> Nat]
        /\ skipped \in [Files -> Nat] /\ moved \in [Files -> Nat] /\ reported \in [Files -> Nat]
    BY DEF TypeOK, Readings
  <1>1. /\ ReadIo(unread) \in [Files -> Nat]
        /\ \A f \in Files : f \notin unread => ReadIo(unread)[f] = counter[f]
    BY <1>0, ReadIoTyped
  <1>2. BudgetWithin' /\ (NoMisread' => NoMisread /\ unread = {}) /\ (NoDeviceLeft' <=> NoDeviceLeft)
    BY ReadingKept
  <1>3. /\ bytes' = Zero /\ since' = Zero /\ spent' = NoTime /\ gap' = 0 /\ real' = 0 /\ setBack' = FALSE
        /\ missed' = unread \cap Files
    BY DEF NewWindow
  <1>4. /\ task' = "idle" /\ ticked' = FALSE /\ skipped' = [f \in Files |-> skipped[f] + since[f]]
        /\ session' = FALSE /\ UNCHANGED <<report, shutdown, counter, cpu, moved, reported>>
    BY DEF Begin, kernelVars
  <1>5. Zero \in [Files -> Nat] /\ NoTime \in [Kinds -> Nat] /\ \A f \in Files : Zero[f] = 0
    BY DEF Zero, NoTime, Kinds
  <1>6. /\ ReadCpu(unread) \in Readings
        /\ ReadCpu(unread) # NoReading =>
                ReadCpu(unread).total = Total(cpu) /\ ReadCpu(unread).idle = cpu["idle"]
    BY <1>0, ReadCpuTyped
  <1>7. last'.io = ReadIo(unread) /\ last'.cpu = ReadCpu(unread)
    OBVIOUS
  <1>8. TypeOK'
    <2>1. skipped' \in [Files -> Nat]
      BY <1>0, <1>4
    <2>2. last'.cpu \in Readings
      BY <1>0, <1>6, <1>7
    <2>3. {counter, bytes, since, moved, reported, skipped}' \subseteq [Files -> Nat]
      BY <1>0, <1>3, <1>4, <1>5, <2>1
    <2>4. {cpu, spent}' \subseteq [Kinds -> Nat]
      BY <1>0, <1>3, <1>4, <1>5 DEF Kinds
    <2>5. {ticked, session, shutdown, setBack}' \subseteq BOOLEAN /\ missed' \subseteq Files
      BY <1>3, <1>4 DEF TypeOK, Readings
    <2>6. gap' \in Int /\ real' \in Nat /\ task' \in {"off", "idle", "pushing"}
      BY <1>3, <1>4
    <2>7. /\ report'.bytes \in [Files -> Nat] /\ report'.elapsed \in Nat \ {0}
          /\ report'.cpu.used \in 0..report'.cpu.of /\ last'.io \in [Files -> Nat]
      BY <1>1, <1>4, <1>7 DEF TypeOK, Readings
    <2> QED
      BY <2>2, <2>3, <2>4, <2>5, <2>6, <2>7 DEF TypeOK, Readings
  <1>9. GainsMoved'
    BY <1>0, <1>1, <1>3, <1>4, <1>5, <1>7 DEF GainsMoved
  <1>10. MissedIsMisread' /\ ClockAhead'
    BY <1>2, <1>3 DEF MissedIsMisread, ClockAhead
  <1>11. CpuSpent'
    <2>1. Total(cpu) \in Nat /\ cpu["idle"] \in Nat
      BY <1>0, TotalTyped
    <2>2. Total(cpu') = Total(cpu) /\ Total(spent') = 0 /\ spent'["idle"] = 0
      BY <1>3, <1>4, NoTimeTotal
    <2> QED
      BY <1>4, <1>6, <1>7, <2>1, <2>2 DEF CpuSpent
  <1>12. EveryCountOnce'
    <2> SUFFICES ASSUME NoMisread', NEW f \in Files
                 PROVE  /\ (reported[f] + skipped[f] + since[f])' <= moved'[f]
                        /\ NoDeviceLeft' => (reported[f] + skipped[f] + since[f])' = moved'[f]
      BY DEF EveryCountOnce
    <2>1. /\ reported[f] + skipped[f] + since[f] <= moved[f]
          /\ NoDeviceLeft => reported[f] + skipped[f] + since[f] = moved[f]
      BY <1>2 DEF EveryCountOnce
    <2>2. reported[f] \in Nat /\ skipped[f] \in Nat /\ since[f] \in Nat /\ moved[f] \in Nat
      BY <1>0
    <2>3. skipped'[f] = skipped[f] + since[f] /\ since'[f] = 0 /\ reported'[f] = reported[f]
          /\ moved'[f] = moved[f]
      BY <1>3, <1>4, <1>5
    <2> QED
      BY <1>2, <2>1, <2>2, <2>3
  <1> QED
    BY <1>2, <1>3, <1>8, <1>9, <1>10, <1>11, <1>12, NewWindowInLayers

\* A tick reports what has been gained since the last reading.
LEMMA SampleReports ==
    ASSUME TelemetryInv, Sample
    PROVE  \E unread \in Unread :
            /\ Reading(unread) /\ NewWindow(unread)
            /\ last'.io = ReadIo(unread) /\ last'.cpu = ReadCpu(unread)
            /\ last'.cpu \in Readings
            /\ report'.cpu = Share(last.cpu, last'.cpu)
            /\ report'.elapsed = Elapsed(gap)
            /\ report'.bytes \in [Files -> Nat]
            /\ \A f \in Files : report'.bytes[f] = Sub(ReadIo(unread)[f], last.io[f])
            /\ reported' = [f \in Files |-> reported[f] + report'.bytes[f]]
  <1> PICK unread \in Unread :
        LET io == ReadIo(unread)
            gained == [f \in Files |-> Sub(io[f], last.io[f])]
        IN  /\ Reading(unread)
            /\ report' = [bytes |-> gained, elapsed |-> Elapsed(gap),
                          cpu |-> Share(last.cpu, ReadCpu(unread))]
            /\ last' = [io |-> NextIo(last.io, io), cpu |-> NextCpu(last.cpu, ReadCpu(unread))]
            /\ reported' = [f \in Files |-> reported[f] + gained[f]]
            /\ NewWindow(unread)
    BY DEF Sample
  <1> DEFINE gained == [f \in Files |-> Sub(ReadIo(unread)[f], last.io[f])]
  <1>1. ReadIo(unread) \in [Files -> Nat] /\ last.io \in [Files -> Nat]
    BY ReadIoTyped DEF TelemetryInv, TypeOK
  <1>2. gained \in [Files -> Nat]
    BY <1>1, SubGains
  <1>3. report'.bytes = gained /\ report'.elapsed = Elapsed(gap)
        /\ report'.cpu = Share(last.cpu, ReadCpu(unread))
    OBVIOUS
  <1>4. last'.io = ReadIo(unread) /\ last'.cpu = ReadCpu(unread)
    BY DEF NextIo, NextCpu
  <1>5. ReadCpu(unread) \in Readings
    BY ReadCpuTyped DEF TelemetryInv, TypeOK
  <1>6. reported' = [f \in Files |-> reported[f] + gained[f]]
    OBVIOUS
  <1> HIDE DEF gained
  <1>7. \A f \in Files : gained[f] = Sub(ReadIo(unread)[f], last.io[f])
    BY DEF gained
  <1> QED
    BY <1>2, <1>3, <1>4, <1>5, <1>6, <1>7

\* The next window begins with that reading.
LEMMA SampleKeeps == TelemetryInv /\ Sample => TelemetryInv'
  <1> SUFFICES ASSUME TelemetryInv, Sample PROVE TelemetryInv'
    OBVIOUS
  <1> PICK unread \in Unread :
        /\ Reading(unread) /\ NewWindow(unread)
        /\ last'.io = ReadIo(unread) /\ last'.cpu = ReadCpu(unread)
        /\ last'.cpu \in Readings
        /\ report'.cpu = Share(last.cpu, last'.cpu)
        /\ report'.elapsed = Elapsed(gap)
        /\ report'.bytes \in [Files -> Nat]
        /\ \A f \in Files : report'.bytes[f] = Sub(ReadIo(unread)[f], last.io[f])
        /\ reported' = [f \in Files |-> reported[f] + report'.bytes[f]]
    BY SampleReports
  <1> USE DEF TelemetryInv
  <1>0. /\ counter \in [Files -> Nat] /\ cpu \in [Kinds -> Nat] /\ since \in [Files -> Nat]
        /\ skipped \in [Files -> Nat] /\ moved \in [Files -> Nat] /\ reported \in [Files -> Nat]
        /\ last.io \in [Files -> Nat] /\ last.cpu \in Readings /\ gap \in Int
    BY DEF TypeOK, Readings
  <1>1. /\ ReadIo(unread) \in [Files -> Nat]
        /\ \A f \in Files : f \notin unread => ReadIo(unread)[f] = counter[f]
    BY <1>0, ReadIoTyped
  <1>2. BudgetWithin' /\ (NoMisread' => NoMisread /\ unread = {}) /\ (NoDeviceLeft' <=> NoDeviceLeft)
    BY ReadingKept
  <1>3. /\ bytes' = Zero /\ since' = Zero /\ spent' = NoTime /\ gap' = 0 /\ real' = 0 /\ setBack' = FALSE
        /\ missed' = unread \cap Files
    BY DEF NewWindow
  <1>4. /\ task' = "pushing" /\ ticked' = TRUE
        /\ UNCHANGED <<session, shutdown, counter, cpu, moved, skipped>>
    BY DEF Sample, kernelVars
  <1>5. Zero \in [Files -> Nat] /\ NoTime \in [Kinds -> Nat] /\ \A f \in Files : Zero[f] = 0
    BY DEF Zero, NoTime, Kinds
  <1>6. /\ ReadCpu(unread) \in Readings
        /\ ReadCpu(unread) # NoReading =>
                ReadCpu(unread).total = Total(cpu) /\ ReadCpu(unread).idle = cpu["idle"]
    BY <1>0, ReadCpuTyped
  <1>8. TypeOK'
    <2>1. reported' \in [Files -> Nat]
      BY <1>0
    <2>2. report'.elapsed \in Nat \ {0}
      BY <1>0 DEF Elapsed
    <2>3. {counter, bytes, since, moved, reported, skipped}' \subseteq [Files -> Nat]
      BY <1>0, <1>3, <1>4, <1>5, <2>1
    <2>4. {cpu, spent}' \subseteq [Kinds -> Nat]
      BY <1>0, <1>3, <1>4, <1>5 DEF Kinds
    <2>5. {ticked, session, shutdown, setBack}' \subseteq BOOLEAN /\ missed' \subseteq Files
      BY <1>3, <1>4 DEF TypeOK, Readings
    <2>6. gap' \in Int /\ real' \in Nat /\ task' \in {"off", "idle", "pushing"}
      BY <1>3, <1>4
    <2>7. report'.cpu.used \in 0..report'.cpu.of
      BY <1>0, ShareTyped
    <2>8. last'.io \in [Files -> Nat] /\ last'.cpu \in Readings
      BY <1>1 DEF Kinds
    <2> QED
      BY <2>2, <2>3, <2>4, <2>5, <2>6, <2>7, <2>8 DEF TypeOK, Readings
  <1>9. GainsMoved'
    BY <1>0, <1>1, <1>3, <1>4, <1>5 DEF GainsMoved
  <1>10. MissedIsMisread' /\ ClockAhead'
    BY <1>2, <1>3 DEF MissedIsMisread, ClockAhead
  <1>11. CpuSpent'
    <2>1. Total(cpu) \in Nat /\ cpu["idle"] \in Nat
      BY <1>0, TotalTyped
    <2>2. Total(cpu') = Total(cpu) /\ Total(spent') = 0 /\ spent'["idle"] = 0
      BY <1>3, <1>4, NoTimeTotal
    <2> QED
      BY <1>4, <1>6, <2>1, <2>2 DEF CpuSpent
  <1>12. EveryCountOnce'
    <2> SUFFICES ASSUME NoMisread', NEW f \in Files
                 PROVE  /\ (reported[f] + skipped[f] + since[f])' <= moved'[f]
                        /\ NoDeviceLeft' => (reported[f] + skipped[f] + since[f])' = moved'[f]
      BY DEF EveryCountOnce
    <2>1. /\ reported[f] + skipped[f] + since[f] <= moved[f]
          /\ NoDeviceLeft => reported[f] + skipped[f] + since[f] = moved[f]
      BY <1>2 DEF EveryCountOnce
    <2>2. /\ reported[f] \in Nat /\ skipped[f] \in Nat /\ since[f] \in Nat /\ moved[f] \in Nat
          /\ counter[f] \in Nat /\ last.io[f] \in Nat /\ report'.bytes[f] \in Nat
      BY <1>0
    <2>3. report'.bytes[f] = Sub(counter[f], last.io[f]) /\ f \notin missed
      BY <1>1, <1>2 DEF MissedIsMisread
    <2>4. /\ report'.bytes[f] <= since[f]
          /\ NoDeviceLeft => report'.bytes[f] = since[f]
      <3>1. /\ counter[f] <= last.io[f] + since[f]
            /\ NoDeviceLeft => counter[f] = last.io[f] + since[f]
        BY <2>3 DEF GainsMoved
      <3>2. /\ Sub(counter[f], last.io[f]) <= since[f]
            /\ NoDeviceLeft => Sub(counter[f], last.io[f]) = since[f]
        BY <2>2, <3>1 DEF Sub
      <3> QED
        BY <2>3, <3>2
    <2>5. /\ reported'[f] = reported[f] + report'.bytes[f] /\ since'[f] = 0
          /\ skipped'[f] = skipped[f] /\ moved'[f] = moved[f]
      BY <1>3, <1>4, <1>5
    <2> QED
      BY <1>2, <2>1, <2>2, <2>4, <2>5
  <1> QED
    BY <1>2, <1>3, <1>8, <1>9, <1>10, <1>11, <1>12, NewWindowInLayers

\* The loop's other steps read nothing.
LEMMA TaskKeeps ==
    ASSUME TelemetryInv,
           UNCHANGED <<last, kernelVars, windowVars, moved, reported, missed, skipped, budget>>,
           task' \in {"off", "idle", "pushing"}, report' \in {report, NoReport},
           {ticked', session', shutdown'} \subseteq BOOLEAN
    PROVE  TelemetryInv'
  <1> USE DEF TelemetryInv, kernelVars, windowVars
  <1>1. TypeOK'
    <2>1. NoReport.bytes \in [Files -> Nat] /\ NoReport.elapsed \in Nat \ {0}
          /\ NoReport.cpu.used \in 0..NoReport.cpu.of
      BY DEF NoReport, Zero
    <2>2. report'.bytes \in [Files -> Nat] /\ report'.elapsed \in Nat \ {0}
          /\ report'.cpu.used \in 0..report'.cpu.of
      BY <2>1 DEF TypeOK, Readings
    <2>3. {ticked, session, shutdown, setBack}' \subseteq BOOLEAN
      BY DEF TypeOK, Readings
    <2>4. {counter, bytes, since, moved, reported, skipped}' \subseteq [Files -> Nat]
      BY DEF TypeOK, Readings
    <2>5. {cpu, spent}' \subseteq [Kinds -> Nat] /\ missed' \subseteq Files
      BY DEF TypeOK, Readings
    <2>6. gap' \in Int /\ real' \in Nat /\ task' \in {"off", "idle", "pushing"}
      BY DEF TypeOK, Readings
    <2>7. last'.io \in [Files -> Nat] /\ last'.cpu \in Readings
      BY DEF TypeOK, Readings
    <2> QED
      BY <2>2, <2>3, <2>4, <2>5, <2>6, <2>7 DEF TypeOK, Readings
  <1>2. BudgetWithin' /\ MissedIsMisread' /\ ClockAhead' /\ CpuSpent' /\ CountedInLayers'
        /\ EveryCountOnce'
    BY DEF BudgetWithin, MissedIsMisread, ClockAhead, CpuSpent, CountedInLayers, EveryCountOnce,
           NoMisread, NoDeviceLeft
  <1>3. GainsMoved'
    BY DEF GainsMoved, NoDeviceLeft
  <1> QED
    BY <1>1, <1>2, <1>3

\* Traffic is counted, and is known to have moved.
LEMMA MoveKeeps == ASSUME TelemetryInv, NEW f \in Files, Move(f) PROVE TelemetryInv'
  <1> USE DEF TelemetryInv
  <1>0. /\ counter \in [Files -> Nat] /\ since \in [Files -> Nat] /\ moved \in [Files -> Nat]
        /\ reported \in [Files -> Nat] /\ skipped \in [Files -> Nat] /\ last.io \in [Files -> Nat]
        /\ bytes \in [Files -> Nat] /\ Layers \in [Files -> Nat \ {0}]
    BY LayersAssumption DEF TypeOK
  <1> PICK n \in 1..Layers[f] :
        /\ counter' = [counter EXCEPT ![f] = @ + n]
        /\ since' = [since EXCEPT ![f] = @ + n]
        /\ moved' = [moved EXCEPT ![f] = @ + n]
    BY DEF Move
  <1>1. /\ bytes' = [bytes EXCEPT ![f] = @ + 1]
        /\ UNCHANGED <<task, ticked, last, report, session, shutdown, cpu, gap, real, spent,
                       setBack, reported, missed, skipped, budget>>
    BY DEF Move, taskVars
  <1>2. n \in Nat /\ \A g \in Files : \E m \in {0, n} :
            counter'[g] = counter[g] + m /\ since'[g] = since[g] + m /\ moved'[g] = moved[g] + m
    BY <1>0
  <1>3. TypeOK'
    <2>1. {counter, bytes, since, moved, reported, skipped}' \subseteq [Files -> Nat]
      BY <1>0, <1>1, <1>2
    <2> QED
      BY <1>1, <2>1 DEF TypeOK
  <1>4. BudgetWithin' /\ MissedIsMisread' /\ ClockAhead' /\ CpuSpent'
    BY <1>1 DEF BudgetWithin, MissedIsMisread, ClockAhead, CpuSpent, NoMisread
  <1>5. GainsMoved'
    BY <1>0, <1>1, <1>2 DEF GainsMoved, NoDeviceLeft
  <1>6. EveryCountOnce'
    BY <1>0, <1>1, <1>2 DEF EveryCountOnce, NoMisread, NoDeviceLeft
  <1>7. CountedInLayers'
    <2> SUFFICES ASSUME NEW g \in Files PROVE since'[g] <= Layers[g] * bytes'[g]
      BY DEF CountedInLayers
    <2>1. since[g] <= Layers[g] * bytes[g]
      BY DEF CountedInLayers
    <2>2. CASE g # f
      BY <1>0, <1>1, <2>1, <2>2
    <2>3. CASE g = f
      <3>1. /\ Layers[f] \in Nat \ {0} /\ bytes[f] \in Nat /\ since[f] \in Nat
            /\ since[f] <= Layers[f] * bytes[f]
        BY <1>0, <2>1, <2>3
      <3>2. since[f] + n <= Layers[f] * (bytes[f] + 1)
        BY <3>1, OneMoreByte
      <3>3. since'[g] = since[f] + n /\ bytes'[g] = bytes[f] + 1
        BY <1>0, <1>1, <2>3
      <3> QED
        BY <2>3, <3>2, <3>3
    <2> QED
      BY <2>2, <2>3
  <1> QED
    BY <1>3, <1>4, <1>5, <1>6, <1>7

\* A tick of any kind adds alike to the sum of the times and to the idle time.
LEMMA TicksAdds ==
    ASSUME NEW kind \in Kinds, NEW time \in [Kinds -> Nat]
    PROVE  /\ Ticks(time, kind) \in [Kinds -> Nat]
           /\ Total(Ticks(time, kind)) = Total(time) + (IF kind = "guest" THEN 2 ELSE 1)
           /\ Ticks(time, kind)["idle"] = time["idle"] + (IF kind = "idle" THEN 1 ELSE 0)
  <1>1. /\ time["busy"] \in Nat /\ time["idle"] \in Nat /\ time["guest"] \in Nat
    BY DEF Kinds
  <1>2. /\ Ticks(time, kind)["busy"] = time["busy"] + (IF kind \in {"busy", "guest"} THEN 1 ELSE 0)
        /\ Ticks(time, kind)["idle"] = time["idle"] + (IF kind = "idle" THEN 1 ELSE 0)
        /\ Ticks(time, kind)["guest"] = time["guest"] + (IF kind = "guest" THEN 1 ELSE 0)
    BY <1>1 DEF Ticks, Kinds
  <1>3. Ticks(time, kind) \in [Kinds -> Nat]
    BY DEF Ticks
  <1>4. kind \in {"busy", "idle", "guest"}
    BY DEF Kinds
  <1> QED
    BY <1>1, <1>2, <1>3, <1>4 DEF Total

\* CPU time is counted, and is known to have been spent.
LEMMA SpinKeeps == ASSUME TelemetryInv, NEW kind \in Kinds, Spin(kind) PROVE TelemetryInv'
  <1> USE DEF TelemetryInv
  <1>0. cpu \in [Kinds -> Nat] /\ spent \in [Kinds -> Nat] /\ last.cpu \in Readings
    BY DEF TypeOK, Readings
  <1>1. /\ cpu' = Ticks(cpu, kind)
        /\ spent' = Ticks(spent, kind)
        /\ UNCHANGED <<task, ticked, last, report, session, shutdown, counter, gap, real, bytes,
                       since, setBack, moved, reported, missed, skipped, budget>>
    BY DEF Spin, taskVars
  <1>2. {cpu, spent}' \subseteq [Kinds -> Nat]
    BY <1>0, <1>1, TicksAdds
  <1>3. TypeOK'
    BY <1>1, <1>2 DEF TypeOK
  <1>4. BudgetWithin' /\ MissedIsMisread' /\ ClockAhead' /\ GainsMoved' /\ CountedInLayers'
        /\ EveryCountOnce'
    BY <1>1 DEF BudgetWithin, MissedIsMisread, ClockAhead, GainsMoved, CountedInLayers,
                EveryCountOnce, NoMisread, NoDeviceLeft
  <1>5. CpuSpent'
    <2> SUFFICES ASSUME last.cpu # NoReading
                 PROVE  /\ Total(cpu') = last.cpu.total + Total(spent')
                        /\ cpu'["idle"] = last.cpu.idle + spent'["idle"]
      BY <1>1 DEF CpuSpent
    <2>1. Total(cpu) = last.cpu.total + Total(spent) /\ cpu["idle"] = last.cpu.idle + spent["idle"]
      BY DEF CpuSpent
    <2>2. last.cpu.total \in Nat /\ last.cpu.idle \in Nat
      BY <1>0 DEF Readings
    <2>3. Total(spent) \in Nat /\ spent["idle"] \in Nat
      BY <1>0, TotalTyped
    <2>4. /\ Total(cpu') = Total(cpu) + (IF kind = "guest" THEN 2 ELSE 1)
          /\ Total(spent') = Total(spent) + (IF kind = "guest" THEN 2 ELSE 1)
          /\ cpu'["idle"] = cpu["idle"] + (IF kind = "idle" THEN 1 ELSE 0)
          /\ spent'["idle"] = spent["idle"] + (IF kind = "idle" THEN 1 ELSE 0)
      BY <1>0, <1>1, TicksAdds
    <2> QED
      BY <2>1, <2>2, <2>3, <2>4
  <1> QED
    BY <1>3, <1>4, <1>5

\* A device takes its counts with it, so that from now on a counter may be lower.
LEMMA DeviceKeeps == ASSUME TelemetryInv, NEW f \in Files, DeviceLeaves(f) PROVE TelemetryInv'
  <1> USE DEF TelemetryInv
  <1>0. /\ counter \in [Files -> Nat] /\ since \in [Files -> Nat] /\ moved \in [Files -> Nat]
        /\ reported \in [Files -> Nat] /\ skipped \in [Files -> Nat] /\ last.io \in [Files -> Nat]
        /\ bytes \in [Files -> Nat]
    BY DEF TypeOK, Readings
  <1>1. PICK n \in 0..(counter[f] - 1) : counter' = [counter EXCEPT ![f] = n]
    BY DEF DeviceLeaves
  <1>2. UNCHANGED <<task, ticked, last, report, session, shutdown, cpu, gap, real, bytes, since, spent,
                    setBack, moved, reported, missed, skipped>>
    BY DEF DeviceLeaves, taskVars, windowVars
  <1>3. counter' \in [Files -> Nat] /\ \A g \in Files : counter'[g] <= counter[g]
    BY <1>0, <1>1
  <1>4. BudgetWithin' /\ ~NoDeviceLeft' /\ (NoMisread' <=> NoMisread)
    <2>1. budget["leaves"] \in Nat \ {0} /\ budget' = [budget EXCEPT !["leaves"] = @ - 1]
      BY DEF DeviceLeaves, Spend, BudgetWithin
    <2> QED
      BY <2>1, TelemetryBounds DEF BudgetWithin, NoMisread, NoDeviceLeft
  <1>5. TypeOK'
    <2>1. {counter, bytes, since, moved, reported, skipped}' \subseteq [Files -> Nat]
      BY <1>0, <1>2, <1>3
    <2> QED
      BY <1>2, <2>1 DEF TypeOK, Readings
  <1>6. MissedIsMisread' /\ ClockAhead' /\ CpuSpent' /\ CountedInLayers'
    BY <1>2, <1>4 DEF MissedIsMisread, ClockAhead, CpuSpent, CountedInLayers
  <1>7. GainsMoved'
    BY <1>0, <1>2, <1>3, <1>4 DEF GainsMoved
  <1>8. EveryCountOnce'
    BY <1>2, <1>4 DEF EveryCountOnce
  <1> QED
    BY <1>4, <1>5, <1>6, <1>7, <1>8

\* Both clocks advance alike, and a clock that is set back is remembered.
LEMMA ClockKeeps ==
    ASSUME TelemetryInv, Elapse \/ \E d \in ClockSteps : SetClock(d)
    PROVE  TelemetryInv'
  <1> USE DEF TelemetryInv
  <1>0. gap \in Int /\ real \in Nat /\ setBack \in BOOLEAN
    BY DEF TypeOK, Readings
  <1>1. UNCHANGED <<task, ticked, last, report, session, shutdown, counter, cpu, bytes, since,
                    spent, moved, reported, missed, skipped>>
    BY DEF Elapse, SetClock, taskVars, kernelVars
  <1>2. gap' \in Int /\ real' \in Nat /\ setBack' \in BOOLEAN /\ ClockAhead'
    <2>1. CASE Elapse
      BY <1>0, <2>1, IntervalAssumption DEF Elapse, ClockAhead
    <2>2. ASSUME NEW d \in ClockSteps, SetClock(d)
          PROVE  gap' \in Int /\ real' \in Nat /\ setBack' \in BOOLEAN /\ ClockAhead'
      <3>1. d \in Int
        BY ClockAssumption
      <3>2. gap' = gap + d /\ real' = real /\ setBack' \in BOOLEAN
        BY <2>2 DEF SetClock
      <3>3. ~setBack' => ~setBack /\ ~(d < 0)
        BY <2>2 DEF SetClock
      <3> QED
        BY <1>0, <3>1, <3>2, <3>3 DEF ClockAhead
    <2> QED
      BY <2>1, <2>2
  <1>3. BudgetWithin' /\ (NoMisread' <=> NoMisread) /\ (NoDeviceLeft' <=> NoDeviceLeft)
    <2>1. CASE UNCHANGED budget
      BY <2>1 DEF BudgetWithin, NoMisread, NoDeviceLeft
    <2>2. CASE Spend("settings")
      <3>1. budget["settings"] \in Nat \ {0} /\ budget' = [budget EXCEPT !["settings"] = @ - 1]
        BY <2>2 DEF Spend, BudgetWithin
      <3> QED
        BY <3>1 DEF BudgetWithin, NoMisread, NoDeviceLeft
    <2> QED
      BY <2>1, <2>2 DEF Elapse, SetClock
  <1>4. TypeOK'
    <2>1. {ticked, session, shutdown, setBack}' \subseteq BOOLEAN
      BY <1>1, <1>2 DEF TypeOK, Readings
    <2> QED
      BY <1>1, <1>2, <2>1 DEF TypeOK, Readings
  <1>5. MissedIsMisread' /\ CpuSpent' /\ GainsMoved' /\ CountedInLayers'
        /\ EveryCountOnce'
    BY <1>1, <1>3 DEF MissedIsMisread, CpuSpent, GainsMoved, CountedInLayers, EveryCountOnce
  <1> QED
    BY <1>2, <1>3, <1>4, <1>5

\* Every step preserves the invariant.
LEMMA TelemetryStep == TelemetryInv /\ [Next]_vars => TelemetryInv'
  <1> SUFFICES ASSUME TelemetryInv, [Next]_vars PROVE TelemetryInv'
    OBVIOUS
  <1>0. {ticked, session, shutdown} \subseteq BOOLEAN /\ task \in {"off", "idle", "pushing"}
    BY DEF TelemetryInv, TypeOK
  <1>1. CASE PushEnds
    BY <1>0, <1>1, TaskKeeps DEF PushEnds
  <1>2. CASE Stop \/ Abort
    BY <1>0, <1>2, TaskKeeps DEF Stop, Abort, TaskOff
  <1>3. CASE Shutdown
    BY <1>0, <1>3, TaskKeeps DEF Shutdown, taskVars
  <1>4. CASE SessionOpens \/ SessionFails
    BY <1>0, <1>4, TaskKeeps DEF SessionOpens, SessionFails, taskVars
  <1>5. CASE UNCHANGED vars
    BY <1>0, <1>5, TaskKeeps DEF vars, taskVars
  <1> QED
    BY <1>1, <1>2, <1>3, <1>4, <1>5, BeginKeeps, SampleKeeps, MoveKeeps, SpinKeeps, DeviceKeeps,
       ClockKeeps DEF Next
--------------------------------------------------------------------------------
\* The invariant holds of every reachable state.
THEOREM TelemetryInvariance == Spec => []TelemetryInv
  BY TelemetryInit, TelemetryStep, PTL DEF Spec

\* Types; in particular no rate is taken over a time of nothing (build_snapshot).
THEOREM TelemetryTyped == Spec => []TypeOK
  <1>1. TelemetryInv => TypeOK
    BY DEF TelemetryInv
  <1> QED
    BY <1>1, TelemetryInvariance, PTL

\* Nothing counted is in two reports, and while no device leaves none of it is
\* forgotten: the readings are kept before the push, whatever becomes of it.
THEOREM CountsOnce == Spec => []EveryCountOnce
  <1>1. TelemetryInv => EveryCountOnce
    BY DEF TelemetryInv
  <1> QED
    BY <1>1, TelemetryInvariance, PTL

\* A tick takes no rate above what the entries of its file count of the traffic.
LEMMA SampleInflatesNot ==
    ASSUME TelemetryInv, Sample
    PROVE  /\ \A f \in Files \ missed : report'.bytes[f] <= Layers[f] * bytes[f]
           /\ ~setBack => report'.elapsed >= real
  <1> PICK unread \in Unread :
        /\ report'.elapsed = Elapsed(gap)
        /\ \A f \in Files : report'.bytes[f] = Sub(ReadIo(unread)[f], last.io[f])
    BY SampleReports
  <1> USE DEF TelemetryInv
  <1>1. /\ counter \in [Files -> Nat] /\ since \in [Files -> Nat] /\ last.io \in [Files -> Nat]
        /\ bytes \in [Files -> Nat] /\ gap \in Int /\ real \in Nat
    BY DEF TypeOK, Readings
  <1>2. ASSUME NEW f \in Files \ missed
        PROVE  report'.bytes[f] <= Layers[f] * bytes[f]
    <2>1. counter[f] \in Nat /\ since[f] \in Nat /\ last.io[f] \in Nat
          /\ counter[f] <= last.io[f] + since[f]
      BY <1>1, <1>2 DEF GainsMoved
    <2>2. ReadIo(unread)[f] \in {0, counter[f]}
      BY DEF ReadIo
    <2>3. Sub(0, last.io[f]) <= since[f] /\ Sub(counter[f], last.io[f]) <= since[f]
      BY <2>1 DEF Sub
    <2>4. report'.bytes[f] \in Nat /\ report'.bytes[f] <= since[f]
      <3>1. report'.bytes[f] = Sub(ReadIo(unread)[f], last.io[f])
        BY <1>2
      <3>2. 0 \in Nat /\ Sub(0, last.io[f]) \in Nat /\ Sub(counter[f], last.io[f]) \in Nat
        BY <2>1, SubGains
      <3> QED
        BY <2>2, <2>3, <3>1, <3>2
    <2>5. Layers[f] * bytes[f] \in Nat /\ since[f] <= Layers[f] * bytes[f]
      BY <1>1, <1>2, LayersAssumption DEF CountedInLayers
    <2> QED
      BY <2>1, <2>4, <2>5
  <1>3. ~setBack => report'.elapsed >= real
    BY <1>1 DEF Elapsed, ClockAhead
  <1> QED
    BY <1>2, <1>3

\* No reported rate is above what the entries of its file count of the traffic of its
\* window over the time that has passed, unless the reading before it failed or the
\* clock was set back (read_io_stats, build_snapshot).
THEOREM RatesAreBounded == Spec => RatesBounded
  <1>1. TelemetryInv /\ [Next]_vars =>
            [Sample => /\ \A f \in Files \ missed : report'.bytes[f] <= Layers[f] * bytes[f]
                       /\ ~setBack => report'.elapsed >= real]_vars
    BY SampleInflatesNot
  <1> QED
    BY <1>1, TelemetryInvariance, PTL DEF Spec, RatesBounded

\* A tick reports the share of the CPU that was used since the last reading.
LEMMA SampleShares ==
    ASSUME TelemetryInv, Sample
    PROVE  \/ report'.cpu = [used |-> spent["busy"] + spent["guest"], of |-> Total(spent)]
           \/ report'.cpu.of = 0 /\ NoReading \in {last.cpu, last'.cpu}
  <1> PICK unread \in Unread :
        /\ last'.cpu = ReadCpu(unread)
        /\ last'.cpu \in Readings
        /\ report'.cpu = Share(last.cpu, last'.cpu)
    BY SampleReports
  <1> USE DEF TelemetryInv
  <1>1. /\ spent \in [Kinds -> Nat] /\ cpu \in [Kinds -> Nat] /\ last.cpu \in Readings
    BY DEF TypeOK, Readings
  <1>2. CASE NoReading \in {last.cpu, last'.cpu}
    BY <1>1, <1>2, ShareTyped
  <1>3. CASE NoReading \notin {last.cpu, last'.cpu}
    <2>1. /\ spent["busy"] \in Nat /\ spent["idle"] \in Nat /\ spent["guest"] \in Nat
          /\ Total(spent) \in Nat
      BY <1>1, TotalTyped
    <2>2. /\ last'.cpu.total = last.cpu.total + Total(spent)
          /\ last'.cpu.idle = last.cpu.idle + spent["idle"]
      BY <1>1, <1>3, ReadCpuTyped DEF CpuSpent
    <2>3. /\ spent["idle"] <= Total(spent)
          /\ Total(spent) - spent["idle"] = spent["busy"] + spent["guest"]
      BY <2>1 DEF Total
    <2>4. Share(last.cpu, last'.cpu) = [used |-> Total(spent) - spent["idle"], of |-> Total(spent)]
      BY <1>1, <1>3, <2>1, <2>2, <2>3, ShareTyped
    <2> QED
      BY <2>3, <2>4
  <1> QED
    BY <1>2, <1>3

\* The CPU share of a report is that of its own window, never of one before it that
\* a failed reading has left open (read_cpu_stats, calculate_cpu_percent).
THEOREM ShareIsTrue == Spec => ShareIsOfTheWindow
  <1>1. TelemetryInv /\ [Next]_vars =>
            [Sample =>
                \/ report'.cpu = [used |-> spent["busy"] + spent["guest"], of |-> Total(spent)]
                \/ report'.cpu.of = 0 /\ NoReading \in {last.cpu, last'.cpu}]_vars
    BY SampleShares
  <1> QED
    BY <1>1, TelemetryInvariance, PTL DEF Spec, ShareIsOfTheWindow
================================================================================
