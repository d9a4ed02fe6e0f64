---------------------------- MODULE EnrollmentProofs ----------------------------
(***************************************************************************)
(* The files of the identity belong together, for any number of faults,    *)
(* expiries and visits of the installer.  The argument is that a key is    *)
(* only made where there is none: as long as no read has failed and no     *)
(* file was lost, all enrolments there have been were for one key.         *)
(***************************************************************************)
EXTENDS Enrollment, TLAPS

\* The bounds leave at most what they started with, so that a fault that has
\* happened is never forgotten.
BudgetsWithin ==
    budget["misreads"] <= MaxMisreads /\ budget["powerlosses"] <= MaxPowerLosses

\* A certificate is issued to a key that was made before it; there is a good key
\* wherever the code goes on to use one.
KeysMadeBefore ==
    /\ \A i \in 1..Latest : issuedTo[i] <= made
    /\ disk["cert"] # 0 /\ synced["cert"] # 0
    /\ pc \in {"calling", "saving"} => key \in Nat
    /\ pc = "saving" => Latest >= 1

\* Only a power loss garbles.
NoneGarbled == NoPowerLoss => key # Garbled /\ \A f \in Files : disk[f] # Garbled

\* Every enrolment there has been was for the one key.
OneKey == NoMisread /\ NoPowerLoss => \A i \in 1..Latest : issuedTo[i] = key

\* What save_identity has replaced so far is from the latest enrolment; only the
\* installer may have put its own CA bundle in place of the one received.
SavedSoFar ==
    pc = "saving" =>
        /\ saved >= 1 => disk["cert"] = Latest
        /\ saved >= 2 => disk["ca"] # NoFile /\ (transport = "plain" => disk["ca"] = Latest)

\* A TLS bootstrap begins with a CA bundle, and only a power loss takes it away.
CaProvisioned == transport = "tls" /\ NoPowerLoss => disk["ca"] # NoFile

\* On the way to the controlplane there is no live identity.
InNeed ==
    /\ pc \in {"keying", "calling"}
    /\ NoMisread /\ (NoPowerLoss \/ transport = "plain")
    => ~LiveIdentity

EnrollmentInv ==
    /\ TypeOK /\ BudgetsWithin /\ KeysMadeBefore /\ NoneGarbled /\ OneKey /\ SavedSoFar
    /\ CaProvisioned /\ TargetMarksCompletion /\ InNeed
--------------------------------------------------------------------------------
\* A new enrolment leaves the earlier ones where they are.
LEMMA AppendKey ==
    ASSUME NEW s \in Seq(Nat), NEW k \in Nat
    PROVE  /\ Append(s, k) \in Seq(Nat)
           /\ Len(s) \in Nat /\ Len(Append(s, k)) = Len(s) + 1
           /\ \A i \in 1..Len(s) : s[i] \in Nat /\ Append(s, k)[i] = s[i]
           /\ Append(s, k)[Len(s) + 1] = k
  OBVIOUS

\* The order of save_identity, file by file.
LEMMA SaveOrderIs ==
    Len(SaveOrder) = 3 /\ SaveOrder[1] = "cert" /\ SaveOrder[2] = "ca" /\ SaveOrder[3] = "target"
  BY DEF SaveOrder

\* Spending a budget lowers it, and no other.
LEMMA Spent ==
    ASSUME BudgetsWithin, TypeOK, NEW kind \in DOMAIN budget, Spend(kind)
    PROVE  /\ budget' \in [{"expiries", "faults", "misreads", "installs", "powerlosses"} -> Nat]
           /\ BudgetsWithin'
           /\ NoMisread' => NoMisread
           /\ NoPowerLoss' => NoPowerLoss
           /\ kind = "misreads" => ~NoMisread'
           /\ kind = "powerlosses" => ~NoPowerLoss'
  BY EnrollmentBounds DEF BudgetsWithin, TypeOK, Spend, NoMisread, NoPowerLoss

\* The initial state satisfies the invariant.
LEMMA EnrollmentInit == Init => EnrollmentInv
  <1> SUFFICES ASSUME Init PROVE EnrollmentInv
    OBVIOUS
  <1>1. TypeOK
    BY SaveOrderIs, EnrollmentBounds DEF Init, TypeOK, Latest, Files, Content
  <1>2. BudgetsWithin
    BY EnrollmentBounds DEF Init, BudgetsWithin
  <1>3. KeysMadeBefore /\ NoneGarbled /\ OneKey
    BY FileAssumption DEF Init, KeysMadeBefore, NoneGarbled, OneKey, Latest, Files, Content
  <1>4. SavedSoFar /\ CaProvisioned /\ TargetMarksCompletion /\ InNeed
    BY FileAssumption, TransportAssumption
    DEF Init, SavedSoFar, CaProvisioned, TargetMarksCompletion, InNeed, LiveIdentity, Files
  <1> QED
    BY <1>1, <1>2, <1>3, <1>4 DEF EnrollmentInv

\* Steps that leave the files and the enrolments alone.
LEMMA FilesAlone ==
    ASSUME EnrollmentInv,
           UNCHANGED <<key, made, disk, unsynced, synced, saved, issuedTo, expired, transport>>,
           token' \in {"fresh", "refused"},
           \/ UNCHANGED budget
           \/ \E kind \in DOMAIN budget : Spend(kind),
           pc' \in {"down", "deciding", "keying", "calling", "saving", "ready", "stopped"},
           pc' \in {"calling", "saving"} => pc' = pc,
           pc' = "keying" => InNeed'
    PROVE  EnrollmentInv'
  <1>1. /\ budget' \in [{"expiries", "faults", "misreads", "installs", "powerlosses"} -> Nat]
        /\ BudgetsWithin'
        /\ NoMisread' => NoMisread
        /\ NoPowerLoss' => NoPowerLoss
    <2>1. CASE UNCHANGED budget
      BY <2>1 DEF EnrollmentInv, TypeOK, BudgetsWithin, NoMisread, NoPowerLoss
    <2>2. CASE \E kind \in DOMAIN budget : Spend(kind)
      BY <2>2, Spent DEF EnrollmentInv
    <2> QED
      BY <2>1, <2>2
  <1>2. TypeOK'
    BY <1>1 DEF EnrollmentInv, TypeOK, Latest
  <1>3. KeysMadeBefore' /\ NoneGarbled' /\ OneKey' /\ SavedSoFar' /\ CaProvisioned'
        /\ TargetMarksCompletion'
    BY <1>1 DEF EnrollmentInv, KeysMadeBefore, NoneGarbled, OneKey, SavedSoFar, CaProvisioned,
                TargetMarksCompletion, Latest
  <1>4. InNeed'
    BY <1>1 DEF EnrollmentInv, InNeed, LiveIdentity
  <1> QED
    BY <1>1, <1>2, <1>3, <1>4 DEF EnrollmentInv

\* Without a usable certificate there is no live identity.
LEMMA UnusableNotLive ==
    ASSUME EnrollmentInv, ~Usable
    PROVE  ~LiveIdentity
  <1>1. ASSUME LiveIdentity PROVE FALSE
    <2>1. disk["cert"] \in 1..Latest
      BY <1>1 DEF LiveIdentity, EnrollmentInv, TypeOK, KeysMadeBefore, Files, Latest
    <2>2. issuedTo[disk["cert"]] \in Nat
      BY <2>1 DEF EnrollmentInv, TypeOK, Latest
    <2> QED
      BY <1>1, <2>2, FileAssumption DEF LiveIdentity, Usable
  <1> QED
    BY <1>1

\* Keys and enrolments are numbers.
LEMMA Numbers ==
    ASSUME EnrollmentInv
    PROVE  /\ Latest \in Nat /\ made \in Nat
           /\ \A i \in 1..Latest : issuedTo[i] \in Nat /\ issuedTo[i] <= made
           /\ {key, synced["key"]} \subseteq 1..made \union {NoFile, Garbled}
  <1>1. issuedTo \in Seq(Nat) /\ made \in Nat /\ Latest = Len(issuedTo)
    BY DEF EnrollmentInv, TypeOK, Latest
  <1>2. \A i \in 1..Latest : issuedTo[i] \in Nat
    BY <1>1
  <1> QED
    BY <1>1, <1>2 DEF EnrollmentInv, TypeOK, KeysMadeBefore

\* ensure_private_key leaves a key there is, and makes one that nothing was
\* issued to where there is none.
LEMMA KeyEnsured ==
    ASSUME EnrollmentInv, EnsurePrivateKey
    PROVE  EnrollmentInv'
  <1>1. /\ UNCHANGED <<disk, synced, saved, token, issuedTo, expired, transport, budget>>
        /\ pc = "keying" /\ pc' = "calling" /\ key # Garbled
        /\ key' = (IF key = NoFile THEN made + 1 ELSE key)
    BY DEF EnsurePrivateKey, EnsuredKey, NewKey
  <1>2. /\ Latest' = Latest /\ Latest \in Nat /\ made \in Nat
        /\ \A i \in 1..Latest : issuedTo[i] \in Nat /\ issuedTo[i] <= made
        /\ {key, synced["key"]} \subseteq 1..made \union {NoFile, Garbled}
    BY <1>1, Numbers DEF Latest
  <1>3. \/ key = NoFile /\ key' = made + 1 /\ made' = made + 1
        \/ key # NoFile /\ key' = key /\ made' = made
    <2>1. IF key' = key THEN UNCHANGED <<made, unsynced>>
                        ELSE made' = made + 1 /\ unsynced' = unsynced \union {"key"}
      BY DEF EnsurePrivateKey
    <2>2. made + 1 # NoFile
      BY <1>2, FileAssumption
    <2> QED
      BY <1>1, <2>1, <2>2
  <1>4. TypeOK'
    <2>1. made' \in Nat /\ {key', synced'["key"]} \subseteq 1..made' \union {NoFile, Garbled}
      <3>1. CASE key = NoFile
        <4>1. key' \in 1..made' /\ made' \in Nat /\ 1..made \subseteq 1..made'
          BY <1>2, <1>3, <3>1
        <4> QED
          BY <1>1, <1>2, <4>1
      <3>2. CASE key # NoFile
        BY <1>1, <1>2, <1>3, <3>2
      <3> QED
        BY <3>1, <3>2
    <2>2. unsynced' \subseteq Files \union {"key"}
      BY DEF EnsurePrivateKey, EnrollmentInv, TypeOK
    <2> QED
      BY <1>1, <1>2, <2>1, <2>2 DEF EnrollmentInv, TypeOK
  <1>5. BudgetsWithin' /\ SavedSoFar' /\ CaProvisioned' /\ TargetMarksCompletion'
    BY <1>1 DEF EnrollmentInv, BudgetsWithin, SavedSoFar, CaProvisioned, TargetMarksCompletion,
                NoPowerLoss
  <1>6. KeysMadeBefore' /\ NoneGarbled'
    <2>1. key' \in Nat /\ made <= made'
      <3>1. key \in 1..made \union {NoFile, Garbled}
        BY <1>2
      <3>2. CASE key = NoFile
        BY <1>2, <1>3, <3>2
      <3>3. CASE key # NoFile
        BY <1>1, <1>2, <1>3, <3>1, <3>3
      <3> QED
        BY <3>2, <3>3
    <2>2. \A i \in 1..Latest : issuedTo[i] <= made'
      BY <1>2, <1>3
    <2>3. KeysMadeBefore'
      BY <1>1, <1>2, <2>1, <2>2 DEF EnrollmentInv, KeysMadeBefore
    <2>4. NoneGarbled'
      BY <1>1, <2>1, FileAssumption DEF EnrollmentInv, NoneGarbled, NoPowerLoss
    <2> QED
      BY <2>3, <2>4
  <1>7. OneKey'
    <2>1. CASE key = NoFile
      <3>1. ASSUME NoMisread, NoPowerLoss PROVE Latest = 0
        BY <1>2, <2>1, <3>1, FileAssumption DEF EnrollmentInv, OneKey
      <3> QED
        BY <1>1, <1>2, <3>1 DEF OneKey, NoMisread, NoPowerLoss
    <2>2. CASE key # NoFile
      BY <1>1, <1>2, <1>3, <2>2 DEF EnrollmentInv, OneKey, NoMisread, NoPowerLoss
    <2> QED
      BY <2>1, <2>2
  <1>8. InNeed'
    <2>1. CASE key = NoFile
      <3>1. disk["cert"] \notin {NoFile, Garbled} => disk["cert"] \in 1..Latest
        BY <1>2 DEF EnrollmentInv, TypeOK, KeysMadeBefore, Files
      <3>2. disk["cert"] \notin {NoFile, Garbled} => issuedTo[disk["cert"]] # made + 1
        BY <1>2, <3>1
      <3> QED
        BY <1>1, <1>3, <2>1, <3>2 DEF InNeed, LiveIdentity
    <2>2. CASE key # NoFile
      BY <1>1, <1>3, <2>2 DEF EnrollmentInv, InNeed, LiveIdentity, NoMisread, NoPowerLoss
    <2> QED
      BY <2>1, <2>2
  <1> QED
    BY <1>4, <1>5, <1>6, <1>7, <1>8 DEF EnrollmentInv

\* A key written over because it could not be read: from here on the promises
\* that need a clean record of reads are off.
LEMMA KeyOverwritten ==
    ASSUME EnrollmentInv, KeyMisread
    PROVE  EnrollmentInv'
  <1>1. /\ UNCHANGED <<disk, synced, saved, token, issuedTo, expired, transport>>
        /\ pc' = "calling" /\ key' = made + 1 /\ made' = made + 1
        /\ unsynced' = unsynced \union {"key"}
    BY DEF KeyMisread, NewKey
  <1>2. /\ Latest' = Latest /\ Latest \in Nat /\ made \in Nat
        /\ \A i \in 1..Latest : issuedTo[i] \in Nat /\ issuedTo[i] <= made
        /\ {key, synced["key"]} \subseteq 1..made \union {NoFile, Garbled}
    BY <1>1, Numbers DEF Latest
  <1>3. /\ budget' \in [{"expiries", "faults", "misreads", "installs", "powerlosses"} -> Nat]
        /\ BudgetsWithin' /\ ~NoMisread' /\ (NoPowerLoss' => NoPowerLoss)
    BY Spent DEF KeyMisread, EnrollmentInv, TypeOK
  <1>4. TypeOK'
    <2>1. made' \in Nat /\ {key', synced'["key"]} \subseteq 1..made' \union {NoFile, Garbled}
      BY <1>1, <1>2
    <2> QED
      BY <1>1, <1>2, <1>3, <2>1 DEF EnrollmentInv, TypeOK
  <1>5. KeysMadeBefore' /\ NoneGarbled'
    <2>1. \A i \in 1..Latest : issuedTo[i] <= made'
      BY <1>1, <1>2
    <2>2. key' \in Nat /\ key' # Garbled
      BY <1>1, <1>2, FileAssumption
    <2> QED
      BY <1>1, <1>2, <1>3, <2>1, <2>2 DEF EnrollmentInv, KeysMadeBefore, NoneGarbled
  <1>6. OneKey' /\ SavedSoFar' /\ CaProvisioned' /\ TargetMarksCompletion' /\ InNeed'
    BY <1>1, <1>3 DEF EnrollmentInv, OneKey, SavedSoFar, CaProvisioned, TargetMarksCompletion,
                      InNeed
  <1> QED
    BY <1>3, <1>4, <1>5, <1>6 DEF EnrollmentInv

\* An enrolment is for the key there is, whether its answer arrives or not.
LEMMA Enrolled ==
    ASSUME EnrollmentInv, pc = "calling", issuedTo' = Append(issuedTo, key),
           UNCHANGED <<key, made, disk, unsynced, synced, expired, transport>>, token' = "refused",
           \/ UNCHANGED budget
           \/ \E kind \in DOMAIN budget : Spend(kind),
           saved' \in {0, saved},
           \/ pc' = "saving" /\ saved' = 0
           \/ pc' = "stopped"
    PROVE  EnrollmentInv'
  <1>1. /\ budget' \in [{"expiries", "faults", "misreads", "installs", "powerlosses"} -> Nat]
        /\ BudgetsWithin' /\ (NoMisread' => NoMisread) /\ (NoPowerLoss' => NoPowerLoss)
    <2>1. CASE UNCHANGED budget
      BY <2>1 DEF EnrollmentInv, TypeOK, BudgetsWithin, NoMisread, NoPowerLoss
    <2>2. CASE \E kind \in DOMAIN budget : Spend(kind)
      BY <2>2, Spent DEF EnrollmentInv
    <2> QED
      BY <2>1, <2>2
  <1>2. key \in Nat /\ made \in Nat /\ key <= made
    BY FileAssumption DEF EnrollmentInv, TypeOK, KeysMadeBefore
  <1>3. /\ issuedTo' \in Seq(Nat) /\ Latest \in Nat /\ Latest' = Latest + 1
        /\ \A i \in 1..Latest : issuedTo'[i] = issuedTo[i] /\ issuedTo[i] \in Nat
        /\ issuedTo'[Latest + 1] = key
    BY <1>2, AppendKey DEF EnrollmentInv, TypeOK, Latest
  <1>4. TypeOK'
    <2>1. /\ disk' \in [Files -> 0..Latest' \union {NoFile, Garbled}] /\ expired' \in 0..Latest'
          /\ \A f \in Files : synced'[f] \in 0..Latest' \union {NoFile, Garbled}
      BY <1>3 DEF EnrollmentInv, TypeOK
    <2>2. saved' \in 0..Len(SaveOrder) /\ token' \in {"fresh", "refused"}
      BY SaveOrderIs DEF EnrollmentInv, TypeOK
    <2>3. pc' \in {"saving", "stopped"} /\ UNCHANGED <<key, made, unsynced, synced, transport>>
      OBVIOUS
    <2> QED
      BY <1>1, <1>3, <2>1, <2>2, <2>3 DEF EnrollmentInv, TypeOK
  <1>5. \A i \in 1..Latest' : i \in 1..Latest \/ i = Latest + 1
    BY <1>3
  <1>6. KeysMadeBefore'
    <2>1. \A i \in 1..Latest : issuedTo[i] <= made
      BY DEF EnrollmentInv, KeysMadeBefore
    <2>2. \A i \in 1..Latest' : issuedTo'[i] <= made'
      BY <1>2, <1>3, <1>5, <2>1
    <2>3. key' \in Nat /\ disk'["cert"] # 0 /\ synced'["cert"] # 0 /\ Latest' >= 1
      BY <1>2, <1>3 DEF EnrollmentInv, KeysMadeBefore
    <2> QED
      BY <2>2, <2>3 DEF KeysMadeBefore
  <1>8. OneKey'
    <2>1. SUFFICES ASSUME NoMisread', NoPowerLoss', NEW i \in 1..Latest' PROVE issuedTo'[i] = key
      BY DEF OneKey
    <2>2. \A k \in 1..Latest : issuedTo[k] = key
      BY <1>1, <2>1 DEF EnrollmentInv, OneKey
    <2> QED
      BY <1>3, <1>5, <2>1, <2>2
  <1>7. NoneGarbled' /\ SavedSoFar' /\ CaProvisioned' /\ TargetMarksCompletion' /\ InNeed'
    BY <1>1 DEF EnrollmentInv, NoneGarbled, SavedSoFar, CaProvisioned, TargetMarksCompletion, InNeed
  <1> QED
    BY <1>1, <1>4, <1>6, <1>7, <1>8 DEF EnrollmentInv

\* Each file is replaced by its part of the latest answer, the target only after
\* the other two.
LEMMA FileSaved ==
    ASSUME EnrollmentInv, Save
    PROVE  EnrollmentInv'
  <1>1. /\ UNCHANGED <<pc, key, made, synced, token, issuedTo, expired, transport, budget>>
        /\ pc = "saving" /\ saved' = saved + 1 /\ saved \in {0, 1, 2}
    BY SaveOrderIs DEF Save, EnrollmentInv, TypeOK
  <1>2. Latest' = Latest /\ Latest \in Nat /\ Latest >= 1
    BY <1>1 DEF Latest, EnrollmentInv, TypeOK, KeysMadeBefore
  <1>3. \/ saved = 0 /\ disk' = [disk EXCEPT !["cert"] = Latest]
        \/ saved = 1 /\ disk' = [disk EXCEPT !["ca"] = Latest]
        \/ saved = 2 /\ disk' = [disk EXCEPT !["target"] = Latest]
    <2>1. disk' = [disk EXCEPT ![SaveOrder[saved + 1]] = Latest]
      BY DEF Save
    <2>2. \/ saved = 0 /\ saved + 1 = 1
          \/ saved = 1 /\ saved + 1 = 2
          \/ saved = 2 /\ saved + 1 = 3
      BY <1>1
    <2> QED
      BY <2>1, <2>2, SaveOrderIs
  <1>4. disk \in [{"cert", "ca", "target"} -> 0..Latest \union {NoFile, Garbled}]
        /\ Latest # NoFile /\ Latest # Garbled
    BY <1>2, FileAssumption DEF EnrollmentInv, TypeOK, Files
  <1>5. TypeOK'
    <2>1. disk' \in [Files -> 0..Latest' \union {NoFile, Garbled}]
      BY <1>2, <1>3, <1>4 DEF Files
    <2>2. saved' \in 0..Len(SaveOrder)
      BY <1>1, SaveOrderIs
    <2>3. SaveOrder[saved + 1] \in Files
      <3>1. saved + 1 \in {1, 2, 3}
        BY <1>1
      <3> QED
        BY <3>1, SaveOrderIs DEF Files
    <2>4. unsynced' \subseteq Files \union {"key"}
      BY <2>3 DEF Save, EnrollmentInv, TypeOK
    <2> QED
      BY <1>1, <1>2, <2>1, <2>2, <2>4 DEF EnrollmentInv, TypeOK
  <1>6. BudgetsWithin' /\ NoneGarbled' /\ OneKey' /\ InNeed'
    <2>1. \A f \in Files : disk'[f] \in {disk[f], Latest}
      BY <1>3, <1>4 DEF Files
    <2>2. NoneGarbled'
      BY <1>1, <1>4, <2>1 DEF EnrollmentInv, NoneGarbled, NoPowerLoss
    <2> QED
      BY <1>1, <1>2, <2>2 DEF EnrollmentInv, BudgetsWithin, OneKey, InNeed, NoMisread, NoPowerLoss
  <1>7. KeysMadeBefore'
    <2>1. disk'["cert"] # 0
      BY <1>2, <1>3, <1>4 DEF EnrollmentInv, KeysMadeBefore
    <2> QED
      BY <1>1, <1>2, <2>1 DEF EnrollmentInv, KeysMadeBefore
  <1>8. SavedSoFar' /\ CaProvisioned'
    <2>1. CASE saved = 0
      <3>1. disk'["cert"] = Latest /\ disk'["ca"] = disk["ca"]
        BY <1>3, <1>4, <2>1
      <3> QED
        BY <1>1, <1>2, <2>1, <3>1 DEF EnrollmentInv, SavedSoFar, CaProvisioned, NoPowerLoss
    <2>2. CASE saved = 1
      <3>1. disk'["cert"] = disk["cert"] /\ disk'["ca"] = Latest /\ disk["cert"] = Latest
        BY <1>1, <1>3, <1>4, <2>2 DEF EnrollmentInv, SavedSoFar
      <3> QED
        BY <1>1, <1>2, <1>4, <2>2, <3>1 DEF SavedSoFar, CaProvisioned
    <2>3. CASE saved = 2
      <3>1. disk'["cert"] = disk["cert"] /\ disk'["ca"] = disk["ca"]
        BY <1>3, <1>4, <2>3
      <3> QED
        BY <1>1, <1>2, <2>3, <3>1 DEF EnrollmentInv, SavedSoFar, CaProvisioned, NoPowerLoss
    <2> QED
      BY <1>1, <2>1, <2>2, <2>3
  <1>9. TargetMarksCompletion'
    <2>1. CASE saved = 2
      <3>1. disk'["target"] = Latest /\ disk'["cert"] = disk["cert"] /\ disk'["ca"] = disk["ca"]
        BY <1>3, <1>4, <2>1
      <3>2. /\ disk["cert"] = Latest /\ disk["ca"] # NoFile
            /\ transport' = "plain" => disk["ca"] = Latest
        BY <1>1, <2>1 DEF EnrollmentInv, SavedSoFar
      <3> QED
        BY <1>2, <1>4, <3>1, <3>2 DEF TargetMarksCompletion
    <2>2. CASE saved # 2
      <3>1. /\ disk'["target"] = disk["target"]
            /\ NoPowerLoss /\ disk["target"] # NoFile => disk["target"] <= Latest
        BY <1>2, <1>3, <1>4, <2>2 DEF EnrollmentInv, NoneGarbled, Files
      <3>2. disk'["cert"] \in {disk["cert"], Latest} /\ disk'["ca"] \in {disk["ca"], Latest}
        BY <1>3, <1>4, <2>2
      <3> QED
        BY <1>1, <1>2, <1>4, <3>1, <3>2 DEF EnrollmentInv, TargetMarksCompletion, NoPowerLoss
    <2> QED
      BY <2>1, <2>2
  <1> QED
    BY <1>5, <1>6, <1>7, <1>8, <1>9 DEF EnrollmentInv

\* What a power loss leaves in a file was there at some time, or is nothing or garbled.
LEMMA PowerLost ==
    ASSUME EnrollmentInv, PowerLoss
    PROVE  EnrollmentInv'
  <1> PICK k \in Survives("key"), c \in Survives("cert"), a \in Survives("ca"),
           t \in Survives("target") :
        /\ key' = k
        /\ disk' = [cert |-> c, ca |-> a, target |-> t]
        /\ synced' = [key |-> k, cert |-> c, ca |-> a, target |-> t]
    BY DEF PowerLoss
  <1>1. /\ UNCHANGED <<made, saved, token, issuedTo, expired, transport>>
        /\ pc' = "down" /\ unsynced' = {}
    BY DEF PowerLoss
  <1>2. /\ budget' \in [{"expiries", "faults", "misreads", "installs", "powerlosses"} -> Nat]
        /\ BudgetsWithin' /\ ~NoPowerLoss'
    BY Spent DEF PowerLoss, EnrollmentInv, TypeOK
  <1>3. Latest' = Latest /\ Latest \in Nat /\ made \in Nat
    BY <1>1 DEF Latest, EnrollmentInv, TypeOK
  <1>4. /\ k \in 1..made \union {NoFile, Garbled}
        /\ {c, a, t} \subseteq 0..Latest \union {NoFile, Garbled}
        /\ c # 0
    <2>1. \A f \in Files \union {"key"} : Survives(f) \subseteq {Content(f), synced[f], NoFile, Garbled}
      BY DEF Survives
    <2>2. \A f \in Files : {Content(f), synced[f]} \subseteq 0..Latest \union {NoFile, Garbled}
      BY DEF Content, EnrollmentInv, TypeOK, Files
    <2>3. {Content("key"), synced["key"]} \subseteq 1..made \union {NoFile, Garbled}
      BY DEF Content, EnrollmentInv, TypeOK
    <2>4. Content("cert") # 0 /\ synced["cert"] # 0
      BY DEF Content, EnrollmentInv, KeysMadeBefore
    <2> QED
      BY <2>1, <2>2, <2>3, <2>4, FileAssumption DEF Files
  <1>5. TypeOK'
    <2>1. disk' \in [Files -> 0..Latest' \union {NoFile, Garbled}]
      BY <1>3, <1>4 DEF Files
    <2>2. /\ synced' \in [Files \union {"key"} -> Nat \union {NoFile, Garbled}]
          /\ \A f \in Files : synced'[f] \in 0..Latest' \union {NoFile, Garbled}
      BY <1>3, <1>4 DEF Files
    <2>3. {key', synced'["key"]} \subseteq 1..made' \union {NoFile, Garbled}
      BY <1>1, <1>4
    <2> QED
      BY <1>1, <1>2, <1>3, <2>1, <2>2, <2>3 DEF EnrollmentInv, TypeOK
  <1>6. KeysMadeBefore'
    BY <1>1, <1>3, <1>4 DEF EnrollmentInv, KeysMadeBefore
  <1>7. NoneGarbled' /\ OneKey' /\ SavedSoFar' /\ CaProvisioned' /\ TargetMarksCompletion'
        /\ InNeed'
    BY <1>1, <1>2
    DEF NoneGarbled, OneKey, SavedSoFar, CaProvisioned, TargetMarksCompletion, InNeed
  <1> QED
    BY <1>2, <1>5, <1>6, <1>7 DEF EnrollmentInv

\* What the kernel writes back is what it has.
LEMMA WrittenBack ==
    ASSUME EnrollmentInv, WriteBack
    PROVE  EnrollmentInv'
  <1>1. /\ UNCHANGED <<pc, key, made, disk, saved, token, issuedTo, expired, transport, budget>>
        /\ unsynced' = {} /\ synced' = [f \in Files \union {"key"} |-> Content(f)]
    BY DEF WriteBack
  <1>2. Latest' = Latest /\ Latest \in Nat /\ made \in Nat
    BY <1>1 DEF Latest, EnrollmentInv, TypeOK
  <1>3. synced'["key"] = key /\ \A f \in Files : synced'[f] = disk[f]
    BY <1>1 DEF Content, Files
  <1>4. TypeOK'
    <2>1. synced' \in [Files \union {"key"} -> Nat \union {NoFile, Garbled}]
      BY <1>1, <1>2 DEF Content, EnrollmentInv, TypeOK, Files
    <2>2. \A f \in Files : synced'[f] \in 0..Latest' \union {NoFile, Garbled}
      BY <1>2, <1>3 DEF EnrollmentInv, TypeOK
    <2> QED
      BY <1>1, <1>2, <1>3, <2>1, <2>2 DEF EnrollmentInv, TypeOK
  <1>5. KeysMadeBefore'
    BY <1>1, <1>2, <1>3 DEF EnrollmentInv, KeysMadeBefore, Files
  <1>6. BudgetsWithin' /\ NoneGarbled' /\ OneKey' /\ SavedSoFar' /\ CaProvisioned'
        /\ TargetMarksCompletion' /\ InNeed'
    BY <1>1, <1>2 DEF EnrollmentInv, BudgetsWithin, NoneGarbled, OneKey, SavedSoFar, CaProvisioned,
                      TargetMarksCompletion, InNeed, LiveIdentity, NoMisread, NoPowerLoss
  <1> QED
    BY <1>4, <1>5, <1>6 DEF EnrollmentInv

\* A certificate that expires is less alive than before.
LEMMA Expired ==
    ASSUME EnrollmentInv, Expire
    PROVE  EnrollmentInv'
  <1>1. /\ UNCHANGED <<pc, key, made, disk, unsynced, synced, saved, token, issuedTo, transport>>
        /\ expired < Latest /\ expired' = Latest
    BY DEF Expire
  <1>2. /\ budget' \in [{"expiries", "faults", "misreads", "installs", "powerlosses"} -> Nat]
        /\ BudgetsWithin' /\ (NoMisread' => NoMisread) /\ (NoPowerLoss' => NoPowerLoss)
    BY Spent DEF Expire, EnrollmentInv, TypeOK
  <1>3. Latest' = Latest /\ Latest \in Nat /\ expired \in Nat
    BY <1>1 DEF Latest, EnrollmentInv, TypeOK
  <1>4. TypeOK'
    BY <1>1, <1>2, <1>3 DEF EnrollmentInv, TypeOK
  <1>5. KeysMadeBefore' /\ NoneGarbled' /\ OneKey' /\ SavedSoFar' /\ CaProvisioned'
        /\ TargetMarksCompletion'
    BY <1>1, <1>2, <1>3 DEF EnrollmentInv, KeysMadeBefore, NoneGarbled, OneKey, SavedSoFar,
                            CaProvisioned, TargetMarksCompletion
  <1>6. InNeed'
    <2>1. LiveIdentity' => LiveIdentity
      <3>1. ASSUME LiveIdentity' PROVE LiveIdentity
        <4>1. disk["cert"] \in Nat
          BY <1>1, <3>1 DEF LiveIdentity, EnrollmentInv, TypeOK, Files
        <4>2. disk["cert"] > expired
          BY <1>1, <1>3, <3>1, <4>1 DEF LiveIdentity
        <4> QED
          BY <1>1, <3>1, <4>2 DEF LiveIdentity
      <3> QED
        BY <3>1
    <2> QED
      BY <1>1, <1>2, <2>1 DEF EnrollmentInv, InNeed
  <1> QED
    BY <1>2, <1>4, <1>5, <1>6 DEF EnrollmentInv

\* The installer's CA bundle over whatever was there; where there was none, a
\* power loss has been.
LEMMA CaLaidDown ==
    ASSUME EnrollmentInv, transport = "tls", disk' = [disk EXCEPT !["ca"] = 0],
           unsynced' = unsynced \union {"ca"}, token' \in {"fresh", "refused"},
           UNCHANGED <<key, made, synced, saved, issuedTo, expired, transport>>,
           \/ UNCHANGED budget
           \/ \E kind \in DOMAIN budget : Spend(kind),
           pc' \in {pc, "down"}
    PROVE  EnrollmentInv'
  <1>1. /\ budget' \in [{"expiries", "faults", "misreads", "installs", "powerlosses"} -> Nat]
        /\ BudgetsWithin' /\ (NoMisread' => NoMisread) /\ (NoPowerLoss' => NoPowerLoss)
    <2>1. CASE UNCHANGED budget
      BY <2>1 DEF EnrollmentInv, TypeOK, BudgetsWithin, NoMisread, NoPowerLoss
    <2>2. CASE \E kind \in DOMAIN budget : Spend(kind)
      BY <2>2, Spent DEF EnrollmentInv
    <2> QED
      BY <2>1, <2>2
  <1>2. Latest' = Latest /\ Latest \in Nat
    BY DEF Latest, EnrollmentInv, TypeOK
  <1>3. disk \in [{"cert", "ca", "target"} -> 0..Latest \union {NoFile, Garbled}]
        /\ 0 # NoFile /\ 0 # Garbled
    BY FileAssumption DEF EnrollmentInv, TypeOK, Files
  <1>4. disk'["cert"] = disk["cert"] /\ disk'["target"] = disk["target"] /\ disk'["ca"] = 0
    BY <1>3
  <1>5. TypeOK'
    <2>1. disk' \in [Files -> 0..Latest' \union {NoFile, Garbled}]
      BY <1>2, <1>3 DEF Files
    <2>2. /\ unsynced' \subseteq Files \union {"key"}
          /\ pc' \in {"down", "deciding", "keying", "calling", "saving", "ready", "stopped"}
      BY DEF EnrollmentInv, TypeOK, Files
    <2> QED
      BY <1>1, <1>2, <2>1, <2>2 DEF EnrollmentInv, TypeOK
  <1>6. KeysMadeBefore' /\ NoneGarbled' /\ OneKey'
    <2>1. \A f \in Files : disk'[f] \in {disk[f], 0}
      BY <1>3 DEF Files
    <2> QED
      BY <1>1, <1>2, <1>3, <1>4, <2>1 DEF EnrollmentInv, KeysMadeBefore, NoneGarbled, OneKey
  <1>7. SavedSoFar' /\ CaProvisioned' /\ TargetMarksCompletion'
    BY <1>1, <1>2, <1>3, <1>4 DEF EnrollmentInv, SavedSoFar, CaProvisioned, TargetMarksCompletion
  <1>8. InNeed'
    <2>1. SUFFICES ASSUME pc' \in {"keying", "calling"}, NoMisread', NoPowerLoss' PROVE ~LiveIdentity'
      BY DEF InNeed
    <2>2. disk["ca"] # NoFile
      BY <1>1, <2>1 DEF EnrollmentInv, CaProvisioned
    <2>3. ~LiveIdentity
      BY <1>1, <2>1 DEF EnrollmentInv, InNeed
    <2> QED
      BY <1>4, <2>2, <2>3 DEF LiveIdentity
  <1> QED
    BY <1>1, <1>5, <1>6, <1>7, <1>8 DEF EnrollmentInv

\* Every step preserves the invariant.
LEMMA EnrollmentStep == EnrollmentInv /\ [Next]_vars => EnrollmentInv'
  <1> SUFFICES ASSUME EnrollmentInv, [Next]_vars PROVE EnrollmentInv'
    OBVIOUS
  <1>0. /\ pc \in {"down", "deciding", "keying", "calling", "saving", "ready", "stopped"}
        /\ token \in {"fresh", "refused"}
        /\ DOMAIN budget = {"expiries", "faults", "misreads", "installs", "powerlosses"}
    BY DEF EnrollmentInv, TypeOK
  <1>1. CASE Start \/ Reuse \/ CsrFails \/ Reload \/ NextRound
    BY <1>0, <1>1, FilesAlone DEF Start, Reuse, CsrFails, Reload, NextRound
  <1>2. CASE NotUsable
    <2>1. ~LiveIdentity'
      BY <1>2, UnusableNotLive DEF NotUsable, LiveIdentity
    <2> QED
      BY <1>0, <1>2, <2>1, FilesAlone DEF NotUsable, InNeed
  <1>3. CASE IdentityMisread
    <2>1. ~NoMisread'
      BY <1>0, <1>3, Spent DEF IdentityMisread, EnrollmentInv
    <2> QED
      BY <1>0, <1>3, <2>1, FilesAlone DEF IdentityMisread, InNeed
  <1>4. CASE EnrollFails \/ FileFails \/ Crash \/ Reinstall
    BY <1>0, <1>4, FilesAlone DEF EnrollFails, FileFails, Crash, Reinstall
  <1>5. CASE EnsurePrivateKey \/ KeyMisread \/ Save \/ WriteBack \/ PowerLoss \/ Expire
    BY <1>5, KeyEnsured, KeyOverwritten, FileSaved, WrittenBack, PowerLost, Expired
  <1>6. CASE Enroll \/ EnrollAnswerLost
    BY <1>0, <1>6, Enrolled DEF Enroll, EnrollAnswerLost
  <1>7. CASE ProvisionCa
    BY <1>0, <1>7, CaLaidDown DEF ProvisionCa
  <1>8. CASE BringToken
    <2>1. CASE transport = "tls"
      BY <1>0, <1>8, <2>1, CaLaidDown DEF BringToken
    <2>2. CASE transport # "tls"
      BY <1>0, <1>8, <2>2, FilesAlone DEF BringToken
    <2> QED
      BY <2>1, <2>2
  <1>9. CASE UNCHANGED vars
    BY <1>0, <1>9, FilesAlone DEF vars, EnrollmentInv, InNeed, LiveIdentity, NoMisread, NoPowerLoss
  <1> QED
    BY <1>1, <1>2, <1>3, <1>4, <1>5, <1>6, <1>7, <1>8, <1>9 DEF Next, Steps
--------------------------------------------------------------------------------
\* The invariant holds in every reachable state.
THEOREM EnrollmentInvariance == Spec => []EnrollmentInv
  <1> QED
    BY EnrollmentInit, EnrollmentStep, PTL DEF Spec

\* Types; in particular every certificate is issued to a key there is, however
\* often the key file was missing, misread or lost (ensure_private_key).
THEOREM IdentityTyped == Spec => []TypeOK
  <1>1. EnrollmentInv => TypeOK
    BY DEF EnrollmentInv
  <1> QED
    BY <1>1, EnrollmentInvariance, PTL

\* As long as no file was misread or lost, the certificate on disk is for the key
\* on disk, after any number of enrolments begun, lost and half saved.
THEOREM CertificateFits == Spec => []CertFitsKey
  <1>1. EnrollmentInv => CertFitsKey
    <2> SUFFICES ASSUME EnrollmentInv, NoMisread, NoPowerLoss, disk["cert"] # NoFile
                 PROVE  key # NoFile /\ issuedTo[disk["cert"]] = key
      BY DEF CertFitsKey
    <2>1. disk["cert"] \in 1..Latest /\ issuedTo \in Seq(Nat)
      BY DEF EnrollmentInv, TypeOK, KeysMadeBefore, NoneGarbled, Files, Latest
    <2>2. issuedTo[disk["cert"]] \in Nat
      BY <2>1 DEF Latest
    <2> QED
      BY <2>1, <2>2, FileAssumption DEF EnrollmentInv, OneKey
  <1> QED
    BY <1>1, EnrollmentInvariance, PTL

\* As long as no power loss took a file away, a runtime target on disk means that
\* save_identity had replaced the other two before it.
THEOREM TargetIsLast == Spec => []TargetMarksCompletion
  <1>1. EnrollmentInv => TargetMarksCompletion
    BY DEF EnrollmentInv
  <1> QED
    BY <1>1, EnrollmentInvariance, PTL

\* No step spends a one-time token while the agent has an identity that is good.
THEOREM TokenIsNeeded == Spec => TokenSpentOnlyInNeed
  <1>1. EnrollmentInv /\ [Next]_vars =>
          [/\ NoMisread /\ (NoPowerLoss \/ transport = "plain")
           /\ token = "fresh" /\ token' = "refused"
           => ~LiveIdentity]_vars
    <2> SUFFICES ASSUME EnrollmentInv, [Next]_vars, token = "fresh", token' = "refused",
                        NoMisread, NoPowerLoss \/ transport = "plain"
                 PROVE  ~LiveIdentity
      OBVIOUS
    <2>1. pc = "calling"
      BY DEF Next, Steps, Start, Reuse, NotUsable, EnsurePrivateKey, CsrFails, EnrollFails, Enroll, Save,
         Reload, IdentityMisread, KeyMisread, EnrollAnswerLost, FileFails, NextRound, Crash, WriteBack,
         PowerLoss, Expire, ProvisionCa, Reinstall, BringToken, vars
    <2> QED
      BY <2>1 DEF EnrollmentInv, InNeed
  <1> QED
    BY <1>1, EnrollmentInvariance, PTL DEF Spec, TokenSpentOnlyInNeed
--------------------------------------------------------------------------------
\* Nothing has come between two renames of save_identity that could part them.
Undisturbed ==
    budget["faults"] = MaxFaults /\ budget["installs"] = MaxInstalls /\ NoPowerLoss

\* Except while save_identity is at work, the target is of the certificate's enrolment.
WholeSave ==
    Undisturbed /\ (pc = "saving" => saved \in {0, 3}) => disk["target"] = disk["cert"]

\* It is kept together with what the budgets can have left.
WholeInv ==
    /\ WholeSave
    /\ budget["faults"] <= MaxFaults /\ budget["installs"] <= MaxInstalls

\* Whoever disturbs has spent for it; no budget grows.
LEMMA DisturbingSpends ==
    ASSUME EnrollmentInv, WholeInv, NEW kind \in DOMAIN budget, Spend(kind)
    PROVE  /\ budget'["faults"] <= MaxFaults /\ budget'["installs"] <= MaxInstalls
           /\ Undisturbed' => Undisturbed
           /\ kind \in {"faults", "installs", "powerlosses"} => ~Undisturbed'
  BY EnrollmentBounds
  DEF EnrollmentInv, TypeOK, BudgetsWithin, WholeInv, Spend, Undisturbed, NoPowerLoss

\* Each rename of save_identity brings the target nearer to the certificate, and
\* the last one makes them one enrolment's.
LEMMA RenamesMeet ==
    ASSUME EnrollmentInv, WholeInv, Save
    PROVE  WholeInv'
  <1>1. /\ pc' = "saving" /\ saved' = saved + 1 /\ saved \in {0, 1, 2}
        /\ UNCHANGED <<budget, issuedTo>>
        /\ disk' = [disk EXCEPT ![SaveOrder[saved + 1]] = Latest]
    BY SaveOrderIs DEF Save, EnrollmentInv, TypeOK
  <1>2. CASE saved = 2
    <2>1. SaveOrder[saved + 1] = "target"
      <3>1. saved + 1 = 3
        BY <1>2
      <3> QED
        BY <3>1, SaveOrderIs
    <2>2. disk'["target"] = Latest /\ disk'["cert"] = disk["cert"]
      BY <1>1, <2>1 DEF EnrollmentInv, TypeOK, Files
    <2>3. disk["cert"] = Latest
      BY <1>2 DEF Save, EnrollmentInv, SavedSoFar
    <2> QED
      BY <1>1, <2>2, <2>3 DEF WholeInv, WholeSave
  <1>3. CASE saved # 2
    <2>1. saved' \notin {0, 3}
      BY <1>1, <1>3
    <2> QED
      BY <1>1, <2>1 DEF WholeInv, WholeSave
  <1> QED
    BY <1>2, <1>3

\* Every step preserves it: save_identity is left with a spent budget or at its end.
LEMMA WholeStep == EnrollmentInv /\ WholeInv /\ [Next]_vars => WholeInv'
  <1> SUFFICES ASSUME EnrollmentInv, WholeInv, [Next]_vars PROVE WholeInv'
    OBVIOUS
  <1>0. DOMAIN budget = {"expiries", "faults", "misreads", "installs", "powerlosses"}
    BY DEF EnrollmentInv, TypeOK
  <1>1. CASE \/ Start \/ Reuse \/ NotUsable \/ EnsurePrivateKey \/ CsrFails \/ NextRound
             \/ WriteBack \/ UNCHANGED vars
    BY <1>1 DEF Start, Reuse, NotUsable, EnsurePrivateKey, CsrFails, NextRound, WriteBack, vars,
                WholeInv, WholeSave, Undisturbed, NoPowerLoss
  <1>2. CASE Reload
    <2>1. saved = 3 /\ UNCHANGED <<disk, budget>>
      BY <1>2, SaveOrderIs DEF Reload
    <2> QED
      BY <2>1 DEF WholeInv, WholeSave, Undisturbed, NoPowerLoss
  <1>3. CASE Enroll
    BY <1>3 DEF Enroll, WholeInv, WholeSave, Undisturbed, NoPowerLoss
  <1>4. CASE Save
    BY <1>4, RenamesMeet
  <1>5. CASE EnrollAnswerLost \/ FileFails \/ Crash \/ ProvisionCa \/ Reinstall \/ PowerLoss
    <2>1. \E kind \in {"faults", "installs", "powerlosses"} : Spend(kind)
      BY <1>5 DEF EnrollAnswerLost, FileFails, Crash, ProvisionCa, Reinstall, PowerLoss
    <2> QED
      BY <1>0, <2>1, DisturbingSpends DEF WholeInv, WholeSave
  <1>6. CASE IdentityMisread \/ KeyMisread \/ Expire
    <2>1. /\ Undisturbed' => Undisturbed
          /\ budget'["faults"] <= MaxFaults /\ budget'["installs"] <= MaxInstalls
      <3>1. Spend("misreads") \/ Spend("expiries")
        BY <1>6 DEF IdentityMisread, KeyMisread, Expire
      <3> QED
        BY <1>0, <3>1, DisturbingSpends
    <2>2. CASE IdentityMisread \/ KeyMisread
      BY <2>1, <2>2 DEF IdentityMisread, KeyMisread, WholeInv, WholeSave
    <2>3. CASE Expire
      BY <2>1, <2>3 DEF Expire, WholeInv, WholeSave
    <2> QED
      BY <1>6, <2>2, <2>3
  <1>7. CASE EnrollFails
    <2>1. CASE ChannelOpens /\ token = "fresh"
      BY <1>0, <1>7, <2>1, DisturbingSpends DEF EnrollFails, WholeInv, WholeSave
    <2>2. CASE ~(ChannelOpens /\ token = "fresh")
      BY <1>7, <2>2 DEF EnrollFails, WholeInv, WholeSave, Undisturbed, NoPowerLoss
    <2> QED
      BY <2>1, <2>2
  <1>8. CASE BringToken
    <2>1. /\ pc = "stopped" /\ pc' = "down" /\ UNCHANGED budget
          /\ disk'["target"] = disk["target"] /\ disk'["cert"] = disk["cert"]
      BY <1>8 DEF BringToken, EnrollmentInv, TypeOK, Files
    <2> QED
      BY <2>1 DEF WholeInv, WholeSave, Undisturbed, NoPowerLoss
  <1> QED
    BY <1>1, <1>2, <1>3, <1>4, <1>5, <1>6, <1>7, <1>8 DEF Next, Steps

\* The identity the agent goes on with is one whose enrolment was saved to the end,
\* as long as no crash, failed write, reinstallation or power loss has been: only
\* these leave save_identity between two renames.  That one of them is enough is
\* what ReusesOnlyEnrolled is violated by.
THEOREM ReusesEnrolledUndisturbed == Spec => [](Undisturbed => ReusesOnlyEnrolled)
  <1>1. Init => WholeInv
    BY EnrollmentBounds DEF Init, WholeInv, WholeSave, Files
  <1>2. WholeInv => (Undisturbed => ReusesOnlyEnrolled)
    BY DEF WholeInv, WholeSave, ReusesOnlyEnrolled
  <1> QED
    BY <1>1, <1>2, WholeStep, EnrollmentInvariance, PTL DEF Spec
================================================================================
