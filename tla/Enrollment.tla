------------------------------- MODULE Enrollment -------------------------------
(***************************************************************************)
(* How the agent comes by its identity: ensure_identity and                *)
(* bootstrap_enroll of src/agent/bootstrap.rs over the four files of       *)
(* IdentityStore (src/repository/vm.rs), each replaced whole by a rename,  *)
(* one after the other, with a crash, a power loss, a failed call or a     *)
(* failed write between any two.  The controlplane, which takes a token    *)
(* once, and the installer, which brings a new one, are external.          *)
(*                                                                         *)
(* A certificate, a CA bundle and a runtime target are known by the        *)
(* enrolment that brought them: 1, 2, ...; the CA bundle the installer     *)
(* lays down for a TLS bootstrap is number 0.  Keys are numbered as they   *)
(* are made.                                                               *)
(***************************************************************************)
EXTENDS Naturals, Sequences, FiniteSets

CONSTANTS
    NoFile,         \* what a file that does not exist, or is empty, holds
    Garbled,        \* contents of which only a part reached the disk
    Transports,     \* subset of {"plain", "tls"}: schemes of the bootstrap target
    MaxExpiries,    \* bound: times the certificates in use expire
    MaxFaults,      \* bound: crashes, failed calls and failed writes
    MaxMisreads,    \* bound: reads that fail although the file is there
    MaxInstalls,    \* bound: interventions of the installer
    MaxPowerLosses  \* bound: power losses

ASSUME FileAssumption == NoFile \notin Nat /\ Garbled \notin Nat /\ NoFile # Garbled
ASSUME TransportAssumption == Transports \subseteq {"plain", "tls"}
ASSUME EnrollmentBounds ==
    /\ MaxExpiries \in Nat /\ MaxFaults \in Nat /\ MaxMisreads \in Nat /\ MaxInstalls \in Nat
    /\ MaxPowerLosses \in Nat

VARIABLES
    pc,             \* where connect_hypervisor is in getting its identity
    key,            \* the private key file
    made,           \* how many keys have been made
    disk,           \* the other three: certificate, CA bundle, runtime target
    saved,          \* how many of the three save_identity has replaced
    token,          \* AGENT_BOOTSTRAP_TOKEN, as the controlplane sees it
    issuedTo,       \* the key each enrolment's certificate was issued to
    unsynced,       \* files replaced and not yet written back to the disk
    synced,         \* what the disk itself holds of each file
    expired,        \* certificates up to this enrolment have expired
    transport,      \* the scheme of the bootstrap target
    budget          \* what the bounds have left

vars == <<pc, key, made, disk, unsynced, synced, saved, token, issuedTo, expired, transport,
          budget>>

Files == {"cert", "ca", "target"}
Latest == Len(issuedTo)

\* What the program sees in a file.
Content(f) == IF f = "key" THEN key ELSE disk[f]

UsableNeedsTarget ==
    /\ key # NoFile /\ \A f \in Files : disk[f] # NoFile
    /\ disk["cert"] # Garbled /\ disk["cert"] > expired

\* The certificate is on disk, with a key and a CA bundle, and has not expired.
\* Neither the fit of the three nor what the other two hold is looked at.
Usable ==
    /\ key # NoFile
    /\ disk["ca"] # NoFile
    /\ disk["cert"] \notin {NoFile, Garbled} /\ disk["cert"] > expired

Init ==
    /\ pc = "down"
    /\ key = NoFile
    /\ made = 0
    /\ transport \in Transports
    /\ disk = [f \in Files |-> IF f = "ca" /\ transport = "tls" THEN 0 ELSE NoFile]
    /\ unsynced = {}
    /\ synced = [f \in Files \union {"key"} |-> Content(f)]
    /\ saved = 0
    /\ token \in {"fresh", "refused"}
    /\ issuedTo = <<>>
    /\ expired = 0
    /\ budget = [expiries |-> MaxExpiries, faults |-> MaxFaults,
                 misreads |-> MaxMisreads, installs |-> MaxInstalls,
                 powerlosses |-> MaxPowerLosses]

\* One of a budget is used up.
Spend(kind) == budget[kind] > 0 /\ budget' = [budget EXCEPT ![kind] = @ - 1]
--------------------------------------------------------------------------------
Start ==
    /\ pc = "down"
    /\ pc' = "deciding"
    /\ UNCHANGED <<key, made, disk, unsynced, synced, saved, token, issuedTo, expired,
                   transport, budget>>

Reuse ==
    /\ pc = "deciding"
    /\ Usable
    /\ pc' = "ready"
    /\ UNCHANGED <<key, made, disk, unsynced, synced, saved, token, issuedTo, expired,
                   transport, budget>>

\* The one-time bootstrap begins.  The configuration gives a blank token a
\* default, so that the test for a blank one never fails here.
NotUsable ==
    /\ pc = "deciding"
    /\ ~Usable
    /\ pc' = "keying"
    /\ UNCHANGED <<key, made, disk, unsynced, synced, saved, token, issuedTo, expired,
                   transport, budget>>

\* Any error of reading the identity counts as not having one.
IdentityMisread ==
    /\ pc = "deciding"
    /\ Usable
    /\ Spend("misreads")
    /\ pc' = "keying"
    /\ UNCHANGED <<key, made, disk, unsynced, synced, saved, token, issuedTo, expired,
                   transport>>

\* ensure_private_key: an existing key is kept, a missing one is made; the key is
\* then good enough for a CSR.
NewKey == made + 1
KeyTakenAsIs == key
EnsuredKey == IF key = NoFile THEN NewKey ELSE key

EnsurePrivateKey ==
    /\ pc = "keying" /\ key # Garbled
    /\ key' = EnsuredKey
    /\ IF key' = key THEN UNCHANGED <<made, unsynced>>
                     ELSE made' = made + 1 /\ unsynced' = unsynced \union {"key"}
    /\ pc' = "calling"
    /\ UNCHANGED <<disk, synced, saved, token, issuedTo, expired, transport, budget>>

\* A garbled key is kept as well, but generate_csr cannot load it.
CsrFails ==
    /\ pc = "keying" /\ key = Garbled
    /\ pc' = "stopped"
    /\ UNCHANGED <<key, made, disk, unsynced, synced, saved, token, issuedTo, expired, transport,
                   budget>>

\* A key that cannot be read counts as missing, and is written over.
KeyMisread ==
    /\ pc = "keying" /\ key # NoFile
    /\ Spend("misreads")
    /\ key' = NewKey
    /\ made' = made + 1
    /\ unsynced' = unsynced \union {"key"}
    /\ pc' = "calling"
    /\ UNCHANGED <<disk, synced, saved, token, issuedTo, expired, transport>>

\* Only a TLS bootstrap reads the CA bundle before the call.
CaAlwaysRead == disk["ca"] # NoFile
ChannelOpens == transport = "tls" => disk["ca"] \notin {NoFile, Garbled}

\* The controlplane takes the token and issues a certificate to the key of the
\* request; the answer arrives and passes its checks.
Enroll ==
    /\ pc = "calling" /\ ChannelOpens
    /\ token = "fresh"
    /\ token' = "refused"
    /\ issuedTo' = Append(issuedTo, key)
    /\ saved' = 0
    /\ pc' = "saving"
    /\ UNCHANGED <<key, made, disk, unsynced, synced, expired, transport, budget>>

\* The same, but the answer is lost, or a field of it that must be there is blank.
EnrollAnswerLost ==
    /\ pc = "calling" /\ ChannelOpens
    /\ token = "fresh"
    /\ Spend("faults")
    /\ token' = "refused"
    /\ issuedTo' = Append(issuedTo, key)
    /\ pc' = "stopped"
    /\ UNCHANGED <<key, made, disk, unsynced, synced, saved, expired, transport>>

\* No connection, or a controlplane that does not take the token: it was
\* used before, or it is the default of the configuration.
EnrollFails ==
    /\ pc = "calling"
    /\ IF ChannelOpens /\ token = "fresh" THEN Spend("faults") ELSE UNCHANGED budget
    /\ pc' = "stopped"
    /\ UNCHANGED <<key, made, disk, unsynced, synced, saved, token, issuedTo, expired,
                   transport>>

\* save_identity replaces its files in this order, each by a rename that
\* nothing has synced.
SaveOrderTargetFirst == <<"target", "cert", "ca">>
SaveOrder == <<"cert", "ca", "target">>

Save ==
    /\ pc = "saving" /\ saved < Len(SaveOrder)
    /\ disk' = [disk EXCEPT ![SaveOrder[saved + 1]] = Latest]
    /\ unsynced' = unsynced \union {SaveOrder[saved + 1]}
    /\ saved' = saved + 1
    /\ UNCHANGED <<pc, key, made, synced, token, issuedTo, expired, transport, budget>>

\* The identity is read back.
Reload ==
    /\ pc = "saving" /\ saved = Len(SaveOrder)
    /\ pc' = "ready"
    /\ UNCHANGED <<key, made, disk, unsynced, synced, saved, token, issuedTo, expired,
                   transport, budget>>

\* A file cannot be written or read: the key before the call, one of the three
\* after it, or the identity when it is read back.  The error ends the loop.
FileFails ==
    /\ \/ pc = "saving"
       \/ pc = "deciding" /\ Usable
       \/ pc = "keying" /\ key = NoFile
    /\ Spend("faults")
    /\ pc' = "stopped"
    /\ UNCHANGED <<key, made, disk, unsynced, synced, saved, token, issuedTo, expired,
                   transport>>

\* The loop of connect_hypervisor asks for the identity again each time round.
NextRound ==
    /\ pc = "ready"
    /\ pc' = "deciding"
    /\ UNCHANGED <<key, made, disk, unsynced, synced, saved, token, issuedTo, expired,
                   transport, budget>>
--------------------------------------------------------------------------------
\* External: the process dies, the power fails, time passes, the installer runs.
Crash ==
    /\ pc # "down"
    /\ Spend("faults")
    /\ pc' = "down"
    /\ UNCHANGED <<key, made, disk, unsynced, synced, saved, token, issuedTo, expired,
                   transport>>

\* The kernel has written everything back.
WriteBack ==
    /\ unsynced # {}
    /\ unsynced' = {}
    /\ synced' = [f \in Files \union {"key"} |-> Content(f)]
    /\ UNCHANGED <<pc, key, made, disk, saved, token, issuedTo, expired, transport, budget>>

\* A file that was not written back may be there after a power loss, or be as it was
\* before it was replaced, or be empty, which each of the readers above takes for
\* missing, or hold a part of its contents or zeros.
Survives(f) ==
    IF f \in unsynced THEN {Content(f), synced[f], NoFile, Garbled} ELSE {Content(f)}

PowerLoss ==
    /\ Spend("powerlosses")
    /\ \E k \in Survives("key"), c \in Survives("cert"), a \in Survives("ca"),
          t \in Survives("target") :
         /\ key' = k
         /\ disk' = [cert |-> c, ca |-> a, target |-> t]
         /\ synced' = [key |-> k, cert |-> c, ca |-> a, target |-> t]
    /\ unsynced' = {}
    /\ pc' = "down"
    /\ UNCHANGED <<made, saved, token, issuedTo, expired, transport>>

Expire ==
    /\ expired < Latest
    /\ Spend("expiries")
    /\ expired' = Latest
    /\ UNCHANGED <<pc, key, made, disk, unsynced, synced, saved, token, issuedTo,
                   transport>>

\* The installer lays its CA bundle down before it stops the service.
ProvisionCa ==
    /\ transport = "tls"
    /\ Spend("installs")
    /\ disk' = [disk EXCEPT !["ca"] = 0]
    /\ unsynced' = unsynced \union {"ca"}
    /\ UNCHANGED <<pc, key, made, synced, saved, token, issuedTo, expired, transport>>

\* ... and brings a new token with the restart.
Reinstall ==
    /\ Spend("installs")
    /\ token' = "fresh"
    /\ pc' = "down"
    /\ UNCHANGED <<key, made, disk, unsynced, synced, saved, issuedTo, expired,
                   transport>>

\* An operator finds the loop stopped and runs the installer from end to end.
BringToken ==
    /\ pc = "stopped"
    /\ token' = "fresh"
    /\ pc' = "down"
    /\ IF transport = "tls"
       THEN disk' = [disk EXCEPT !["ca"] = 0] /\ unsynced' = unsynced \union {"ca"}
       ELSE UNCHANGED <<disk, unsynced>>
    /\ UNCHANGED <<key, made, synced, saved, issuedTo, expired, transport, budget>>

Steps ==
    \/ Start \/ Reuse \/ NotUsable \/ EnsurePrivateKey \/ CsrFails \/ EnrollFails
    \/ Enroll \/ Save \/ Reload

Next ==
    \/ Steps \/ IdentityMisread \/ KeyMisread \/ EnrollAnswerLost \/ FileFails \/ NextRound
    \/ Crash \/ WriteBack \/ PowerLoss \/ Expire \/ ProvisionCa \/ Reinstall \/ BringToken

Spec == Init /\ [][Next]_vars

\* The code runs, systemd starts what died, and an operator who finds the loop
\* stopped installs again.
FairSpec ==
    /\ Spec
    /\ WF_vars(Steps)
    /\ WF_vars(BringToken)
--------------------------------------------------------------------------------
\* Types; in particular every certificate is issued to a key there is.
TypeOK ==
    /\ pc \in {"down", "deciding", "keying", "calling", "saving", "ready", "stopped"}
    /\ made \in Nat
    /\ {key, synced["key"]} \subseteq 1..made \union {NoFile, Garbled}
    /\ disk \in [Files -> 0..Latest \union {NoFile, Garbled}]
    /\ synced \in [Files \union {"key"} -> Nat \union {NoFile, Garbled}]
    /\ \A f \in Files : synced[f] \in 0..Latest \union {NoFile, Garbled}
    /\ unsynced \subseteq Files \union {"key"}
    /\ saved \in 0..Len(SaveOrder)
    /\ token \in {"fresh", "refused"}
    /\ issuedTo \in Seq(Nat)
    /\ expired \in 0..Latest
    /\ transport \in Transports
    /\ budget \in [{"expiries", "faults", "misreads", "installs", "powerlosses"} -> Nat]

\* No read has failed yet of a file that is there.
NoMisread == budget["misreads"] = MaxMisreads
NoPowerLoss == budget["powerlosses"] = MaxPowerLosses

\* The certificate on disk was issued to the key on disk, however many
\* enrolments were begun, lost, half saved and begun again.  Nothing checks the
\* fit when the files are loaded: it rests on ensure_private_key, which a key
\* file that cannot be read for a moment, or that a power loss has struck, is
\* enough to defeat.
CertFitsKey ==
    NoMisread /\ NoPowerLoss /\ disk["cert"] # NoFile =>
        key # NoFile /\ issuedTo[disk["cert"]] = key

\* The runtime target is written last: one that is there means that the
\* certificate and the CA bundle of its enrolment had been written before it.
TargetMarksCompletion ==
    NoPowerLoss /\ disk["target"] # NoFile =>
        /\ disk["cert"] # NoFile /\ disk["cert"] >= disk["target"]
        /\ disk["ca"] # NoFile
        /\ transport = "plain" => disk["ca"] >= disk["target"]

\* A one-time token is only ever spent by an agent without a certificate that is
\* still good: neither a crash nor a power loss nor a reinstallation makes a live agent
\* enrol again.  (Only a CA bundle that a power loss took away can come back, from the
\* installer, while the agent that missed it is on its way to enrol.)
LiveIdentity ==
    /\ disk["cert"] \notin {NoFile, Garbled} /\ disk["ca"] # NoFile
    /\ disk["cert"] > expired
    /\ key = issuedTo[disk["cert"]]
TokenSpentOnlyInNeed ==
    [][/\ NoMisread /\ (NoPowerLoss \/ transport = "plain")
       /\ token = "fresh" /\ token' = "refused"
       => ~LiveIdentity]_vars

\* Whatever was left half done, the loop comes by its identity in the end, and
\* again each time round, as long as an operator looks after a loop that stopped.
\* What no operator's installer mends is a private key that a power loss garbled.
EventuallyEnrolled == []<>(pc = "ready") \/ <>[](key = Garbled)

\* src/agent/bootstrap.rs:11 says that an "existing enrolled client identity" is
\* reused: one whose enrolment was saved to the end.
ReusesOnlyEnrolled == pc = "ready" => disk["target"] = disk["cert"]
================================================================================
