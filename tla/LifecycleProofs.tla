-------------------------- MODULE LifecycleProofs ---------------------------
(***************************************************************************)
(* What is proved of the two ends of the device's life under its operator: *)
(* how it is registered (Registration) and how its machine is rebooted     *)
(* into an upgrade (GracefulReboot).  The two share no state.              *)
(*                                                                         *)
(* Of Registration: the types, that the pair on disk is the pair in        *)
(* memory, and that a registered device has a device certificate, for any  *)
(* keys and any number of failures.  OnDisk says for each place a          *)
(* registration can be in what the two files hold.                         *)
(*                                                                         *)
(* Of GracefulReboot: the types, and that the device's work is stopped     *)
(* only for an upgrade and before the reboot, for any number of commits,   *)
(* messages, failing commands and restarts.  Ordered says that the machine *)
(* never boots next what is older than what it runs, Deployed where an     *)
(* upgrade is certain, Drained how far the listener has come.              *)
(***************************************************************************)
EXTENDS Registration, GracefulReboot, TLAPS

-----------------------------------------------------------------------------
(* Registration *)

\* The answer that is being written is a device certificate for the new key.
Answered ==
  step \in Writing \cup {"remember"} =>
    newCert \in Certs /\ newCert.key = newKey /\ newCert.kind = "device"

\* Before that it may be an answer without a certificate.
Requested ==
  step \in {"request", "import"} =>
    newCert = Unreadable \/ (newCert.key = newKey /\ newCert.kind = "device")

\* The pair in memory matches, and the files hold it but for the file that is
\* being replaced.
OnDisk ==
  ~damaged /\ process = "up" =>
    /\ step # "remember" => cert.key = key
    /\ step \notin Writing \cup {"remember"} => certFile = cert /\ keyFile = key
    /\ step = "openCert" => certFile = cert /\ keyFile = key
    /\ step = "cert" => keyFile = key
    /\ step \in {"openKey", "openRestore"} => certFile = newCert /\ keyFile = key
    /\ step = "key" => certFile = newCert
    /\ step = "restore" => keyFile = key
    /\ step = "remember" => certFile = newCert /\ keyFile = newKey

\* A process that starts finds a matching pair.
Delivered == ~damaged /\ process = "boot" => Connected

\* Only a running process is registered, with the certificate it remembered.
Remembered ==
  /\ process # "up" => ~registered /\ step = "none"
  /\ registered \/ step = "set" => cert.kind = "device"

\* The three parts of TypeOK, kept one by one.
FilesOK ==
  /\ certFile \in Certs \cup {Unreadable} /\ keyFile \in Keys \cup {Unreadable}
  /\ cert \in Certs /\ key \in Keys
  /\ newCert \in Certs \cup {Unreadable} /\ newKey \in Keys
MarksOK ==
  /\ retrying \in BOOLEAN /\ registered \in BOOLEAN /\ configured \in BOOLEAN
  /\ approved \in BOOLEAN /\ damaged \in BOOLEAN
StepOK ==
  /\ process \in {"boot", "up", "dead"} /\ step \in Steps /\ failures \in 0..MaxFailures

\* A renewal asks for the key there is, so the key file changes only with the
\* first device certificate.
Renewed ==
  process = "up" =>
    /\ cert.kind = "device" /\ step \in Writing \cup {"request", "import", "remember"} =>
         newKey = key
    /\ step = "remember" => keyFile = newKey
    /\ keyFile \in {key, Unreadable} \/ (step = "remember" /\ cert.kind = "register")

Certified ==
  /\ RegistrationTypeOK
  /\ Answered /\ Requested /\ OnDisk /\ Delivered /\ Remembered /\ Renewed

\* The invariant holds of a device with its first certificate.
LEMMA RegistrationInitially == RegistrationInit => Certified
<1> SUFFICES ASSUME RegistrationInit PROVE Certified
  OBVIOUS
<1> USE KeysAssumption, UnreadableAssumption DEF RegistrationInit
<1>1. cert \in Certs /\ cert.key = key
  BY DEF Certs
<1>2. RegistrationTypeOK
  <2>1. FilesOK
    BY <1>1 DEF FilesOK
  <2>2. MarksOK
    BY DEF MarksOK
  <2>3. StepOK
    BY DEF StepOK, Steps
  <2>4. QED
    BY <2>1, <2>2, <2>3 DEF RegistrationTypeOK, FilesOK, MarksOK, StepOK
<1>3. QED
  BY <1>1, <1>2 DEF Certified, Answered, Requested, OnDisk, Delivered, Remembered, Renewed,
     Connected, Writing

\* The new key is a key, whether it is a fresh one or the one there is.
LEMMA RenewType ==
  ASSUME RegistrationTypeOK, Renew
  PROVE  /\ newKey' \in Keys
         /\ newCert' \in Certs /\ newCert'.key = newKey' /\ newCert'.kind = "device"
BY DEF RegistrationTypeOK, Renew, Certs

\* Every step keeps the types of the keys and the certificates.
LEMMA FilesInductive == Certified /\ [RegistrationNext]_registrationVars => FilesOK'
<1> SUFFICES ASSUME Certified, [RegistrationNext]_registrationVars PROVE FilesOK'
  OBVIOUS
<1> USE DEF Certified, RegistrationTypeOK, FilesOK, Answered, files, group, answer, Writing,
         Failed, Damage, At
<1>1. CASE Boot
  BY <1>1 DEF Boot
<1>2. CASE Retry \/ Enrol
  BY <1>2 DEF Retry, Enrol
<1>3. CASE Renew
  BY <1>3, RenewType DEF Renew
<1>4. CASE RequestCertificate \/ Import
  BY <1>4 DEF RequestCertificate, Import
<1>5. CASE OpenCert \/ WriteCert
  BY <1>5 DEF OpenCert, WriteCert
<1>6. CASE OpenKey \/ WriteKey
  BY <1>6 DEF OpenKey, WriteKey
<1>7. CASE OpenRestore \/ Restore
  BY <1>7 DEF OpenRestore, Restore
<1>8. CASE Remember \/ SetRegistered
  BY <1>8 DEF Remember, SetRegistered
<1>9. CASE Configure \/ Deregister \/ Approve
  BY <1>9 DEF Configure, Deregister, Approve
<1>10. CASE Crash
  BY <1>10 DEF Crash
<1>11. CASE UNCHANGED registrationVars
  BY <1>11 DEF registrationVars
<1>12. QED
  BY <1>1, <1>2, <1>3, <1>4, <1>5, <1>6, <1>7, <1>8, <1>9, <1>10, <1>11
     DEF RegistrationNext, Attempt

\* Every step keeps the types of the flags.
LEMMA MarksInductive == MarksOK /\ [RegistrationNext]_registrationVars => MarksOK'
<1> SUFFICES ASSUME MarksOK, [RegistrationNext]_registrationVars PROVE MarksOK'
  OBVIOUS
<1> USE DEF MarksOK, files, group, answer, Failed, Damage, At
<1>1. CASE Boot
  BY <1>1 DEF Boot
<1>2. CASE Retry \/ Enrol
  BY <1>2 DEF Retry, Enrol
<1>3. CASE Renew
  BY <1>3 DEF Renew
<1>4. CASE RequestCertificate \/ Import
  BY <1>4 DEF RequestCertificate, Import
<1>5. CASE OpenCert \/ WriteCert
  BY <1>5 DEF OpenCert, WriteCert
<1>6. CASE OpenKey \/ WriteKey
  BY <1>6 DEF OpenKey, WriteKey
<1>7. CASE OpenRestore \/ Restore
  BY <1>7 DEF OpenRestore, Restore
<1>8. CASE Remember \/ SetRegistered
  BY <1>8 DEF Remember, SetRegistered
<1>9. CASE Configure \/ Deregister \/ Approve
  BY <1>9 DEF Configure, Deregister, Approve
<1>10. CASE Crash
  BY <1>10 DEF Crash
<1>11. CASE UNCHANGED registrationVars
  BY <1>11 DEF registrationVars
<1>12. QED
  BY <1>1, <1>2, <1>3, <1>4, <1>5, <1>6, <1>7, <1>8, <1>9, <1>10, <1>11
     DEF RegistrationNext, Attempt

\* Every step keeps the place of the registration and the count of its faults.
LEMMA StepInductive == StepOK /\ [RegistrationNext]_registrationVars => StepOK'
<1> SUFFICES ASSUME StepOK, [RegistrationNext]_registrationVars PROVE StepOK'
  OBVIOUS
<1> USE KeysAssumption DEF StepOK, files, group, answer, Steps, Writing, Failure, Failed,
      Damage, At
<1>1. CASE Boot
  BY <1>1 DEF Boot
<1>2. CASE Retry \/ Enrol
  BY <1>2 DEF Retry, Enrol
<1>3. CASE Renew
  BY <1>3 DEF Renew
<1>4. CASE RequestCertificate \/ Import
  BY <1>4 DEF RequestCertificate, Import
<1>5. CASE OpenCert \/ WriteCert
  BY <1>5 DEF OpenCert, WriteCert
<1>6. CASE OpenKey \/ WriteKey
  BY <1>6 DEF OpenKey, WriteKey
<1>7. CASE OpenRestore \/ Restore
  BY <1>7 DEF OpenRestore, Restore
<1>8. CASE Remember \/ SetRegistered
  BY <1>8 DEF Remember, SetRegistered
<1>9. CASE Configure \/ Deregister \/ Approve
  BY <1>9 DEF Configure, Deregister, Approve
<1>10. CASE Crash
  BY <1>10 DEF Crash
<1>11. CASE UNCHANGED registrationVars
  BY <1>11 DEF registrationVars
<1>12. QED
  BY <1>1, <1>2, <1>3, <1>4, <1>5, <1>6, <1>7, <1>8, <1>9, <1>10, <1>11
     DEF RegistrationNext, Attempt

\* Every step of the registration keeps the types.
LEMMA TypeInductive ==
  Certified /\ [RegistrationNext]_registrationVars => RegistrationTypeOK'
BY FilesInductive, MarksInductive, StepInductive
   DEF Certified, RegistrationTypeOK, FilesOK, MarksOK, StepOK

\* Every step keeps the invariant: the steps of WriteCertificate move along the
\* cases of OnDisk, and a crash between them damages the pair.
LEMMA CertifiedInductive == Certified /\ [RegistrationNext]_registrationVars => Certified'
<1> SUFFICES ASSUME Certified, [RegistrationNext]_registrationVars PROVE Certified'
  OBVIOUS
<1>t. RegistrationTypeOK /\ RegistrationTypeOK'
  BY TypeInductive DEF Certified
<1>k. Unreadable \notin Keys /\ Unreadable \notin Certs
  BY KeysAssumption, UnreadableAssumption
<1>c. cert.kind \in {"register", "device"}
  BY <1>t DEF RegistrationTypeOK, Certs
<1> USE <1>t, <1>k
    DEF Certified, Answered, Requested, OnDisk, Delivered, Remembered, Renewed, Connected,
      files, group, answer, Writing, Failure, Failed, Damage, At
<1>1. CASE Boot
  BY <1>1 DEF Boot, RegistrationTypeOK
<1>2. CASE Retry \/ Enrol
  BY <1>2 DEF Retry, Enrol
<1>3. CASE Renew
  BY <1>3, RenewType DEF Renew
<1>4. CASE RequestCertificate
  BY <1>4 DEF RequestCertificate, RegistrationTypeOK
<1>4a. CASE Import
  BY <1>4a DEF Import, RegistrationTypeOK
<1>5. CASE OpenCert \/ WriteCert
  BY <1>5 DEF OpenCert, WriteCert
<1>6. CASE OpenKey
  BY <1>6 DEF OpenKey
<1>6a. CASE WriteKey
  BY <1>6a, <1>c DEF WriteKey
<1>7. CASE OpenRestore
  BY <1>7 DEF OpenRestore
<1>7a. CASE Restore
  BY <1>7a DEF Restore
<1>8. CASE Remember
  BY <1>8 DEF Remember
<1>8a. CASE SetRegistered
  BY <1>8a DEF SetRegistered
<1>9. CASE Configure \/ Deregister \/ Approve
  BY <1>9 DEF Configure, Deregister, Approve, Serving
<1>10. CASE Crash
  BY <1>10 DEF Crash, RegistrationTypeOK
<1>11. CASE UNCHANGED registrationVars
  BY <1>11 DEF registrationVars
<1>12. QED
  BY <1>1, <1>2, <1>3, <1>4, <1>4a, <1>5, <1>6, <1>6a, <1>7, <1>7a, <1>8, <1>8a, <1>9,
     <1>10, <1>11
     DEF RegistrationNext, Attempt

\* The certificates are as Certified says at every step.
LEMMA CertifiedInvariance == RegistrationSpec => []Certified
BY RegistrationInitially, CertifiedInductive, PTL DEF RegistrationSpec

\* The state variables always have the types TypeOK states.
THEOREM RegistrationTypeCorrect == RegistrationSpec => []RegistrationTypeOK
<1>1. Certified => RegistrationTypeOK
  BY DEF Certified
<1>2. QED
  BY <1>1, CertifiedInvariance, PTL

\* Between two registrations the files hold the pair in memory, which matches.
THEOREM PairKept == RegistrationSpec => []PairOnDisk
<1>1. Certified => PairOnDisk
  BY KeysAssumption, UnreadableAssumption
     DEF Certified, OnDisk, PairOnDisk, Connected, RegistrationTypeOK, Writing
<1>2. QED
  BY <1>1, CertifiedInvariance, PTL

\* A registered device has a device certificate.
THEOREM CertificateKept == RegistrationSpec => []RegisteredHasCert
<1>1. Certified => RegisteredHasCert
  BY DEF Certified, Remembered, RegisteredHasCert
<1>2. QED
  BY <1>1, CertifiedInvariance, PTL

\* A device certificate is renewed for the key it has.
THEOREM RenewalKeyKept == RegistrationSpec => []RenewalKeepsKey
<1>1. Certified => RenewalKeepsKey
  BY DEF Certified, Renewed, RenewalKeepsKey
<1>2. QED
  BY <1>1, CertifiedInvariance, PTL

-----------------------------------------------------------------------------
(* GracefulReboot *)

\* The two parts of TypeOK, kept one by one.
RebootDataOK ==
  /\ proc \in {"init", "up"}
  /\ pc \in {"idle", "preview", "upgrade", "signal", "wait", "reboot"}
  /\ asked \in Requestable \cup {NoOs}
  /\ saved \in Requestable \cup {NoOs}
  /\ requested \in Requestable \cup {Unknown}
  /\ listener \in {"absent", "listening", "stop", "drain", "playbooks", "complete"}
  /\ playbooks \in 0..MaxPlaybooks
  /\ booted \in Commits /\ staged \in Commits /\ remote \in Commits
  /\ updates \in Nat /\ faults \in Nat /\ restarts \in Nat
RebootFlagsOK ==
  /\ pending \in BOOLEAN /\ timedOut \in BOOLEAN /\ rebooting \in BOOLEAN
  /\ vacuous \in BOOLEAN
  /\ working \in BOOLEAN /\ beating \in BOOLEAN /\ storeOpen \in BOOLEAN

Ordered == booted <= staged /\ staged <= remote

\* The configuration OS.Update works on is not replaced meanwhile.
Busy == proc = "up" /\ pc # "idle" => pending

\* An upgrade was found, was deployed, or the work is stopped for one, unless an
\* empty commit id was taken for one.
Deployed ==
  /\ pc = "upgrade" => booted < remote \/ asked = Empty
  /\ pc \in {"signal", "wait", "reboot"} => booted < staged \/ vacuous
  /\ listener \in {"stop", "drain", "playbooks", "complete"} => booted < staged \/ vacuous
  /\ ~working => booted < staged \/ vacuous

\* How far the listener has come, and with it a reboot that waited for it.
Drained ==
  /\ listener \in {"drain", "playbooks", "complete"} => ~working
  /\ listener \in {"playbooks", "complete"} => ~beating /\ ~storeOpen
  /\ pc = "reboot" /\ ~timedOut => ~working /\ ~beating /\ ~storeOpen

Rebooting == RebootDataOK /\ Ordered /\ Busy /\ Deployed /\ Drained

\* The invariant holds of a machine that was just booted.
LEMMA RebootInitially == Init => Rebooting /\ RebootFlagsOK
<1> SUFFICES ASSUME Init PROVE Rebooting /\ RebootFlagsOK
  OBVIOUS
<1> USE ConstantsAssumption DEF Init
<1>1. RebootDataOK
  BY DEF RebootDataOK, Commits, Requestable
<1>2. RebootFlagsOK
  BY DEF RebootFlagsOK
<1>3. Ordered /\ Busy /\ Deployed /\ Drained
  BY DEF Ordered, Busy, Deployed, Drained
<1>4. QED
  BY <1>1, <1>2, <1>3 DEF Rebooting

\* Every step keeps the types of the data.
LEMMA RebootDataInductive == RebootDataOK /\ [Next]_vars => RebootDataOK'
<1> SUFFICES ASSUME RebootDataOK, [Next]_vars PROVE RebootDataOK'
  OBVIOUS
<1> USE ConstantsAssumption DEF RebootDataOK, Commits, Requestable, Shown, Fault, NoFault, osVars, configVars,
      work, machine, budget
<1>1. CASE Preview \/ Upgrade
  BY <1>1 DEF Preview, Upgrade
<1>2. CASE Signal \/ Timeout
  BY <1>2 DEF Signal, Timeout
<1>3. CASE SystemReboot
  BY <1>3 DEF SystemReboot
<1>4. CASE StopWorkloads \/ Drain
  BY <1>4 DEF StopWorkloads, Drain
<1>5. CASE WaitPlaybooks \/ Complete
  BY <1>5 DEF WaitPlaybooks, Complete
<1>6. CASE Fatal
  <2>1. pc' \in {"idle", "preview"} /\ requested' \in Requestable \cup {Unknown}
    BY <1>6 DEF Fatal, StartProcess
  <2>2. faults' = faults + 1 \/ faults' = faults
    BY <1>6, Zenon DEF Fatal
  <2>3. QED
    BY <1>6, <2>1, <2>2 DEF Fatal, StartProcess
<1>7. CASE EndInit \/ Save
  BY <1>7 DEF EndInit, Save
<1>8. CASE StartPlaybook \/ EndPlaybook
  BY <1>8 DEF StartPlaybook, EndPlaybook
<1>9. CASE Publish
  BY <1>9 DEF Publish
<1>10. CASE Reboot
  BY <1>10 DEF Reboot, StartProcess
<1>11. CASE Restart
  BY <1>11 DEF Restart, StartProcess
<1>12. ASSUME NEW c \in Requestable \cup {NoOs}, BeginUpdate(c) PROVE RebootDataOK'
  BY <1>12 DEF BeginUpdate, Request
<1>13. CASE UNCHANGED vars
  BY <1>13 DEF vars
<1>14. QED
  BY <1>1, <1>2, <1>3, <1>4, <1>5, <1>6, <1>7, <1>8, <1>9, <1>10, <1>11, <1>12, <1>13
     DEF Next, Program

\* Every step keeps the types of the flags.
LEMMA RebootFlagsInductive == RebootFlagsOK /\ [Next]_vars => RebootFlagsOK'
<1> SUFFICES ASSUME RebootFlagsOK, [Next]_vars PROVE RebootFlagsOK'
  OBVIOUS
<1> USE DEF RebootFlagsOK, osVars, configVars, work, machine
<1>1. CASE Preview \/ Upgrade
  BY <1>1 DEF Preview, Upgrade
<1>2. CASE Signal \/ Timeout
  BY <1>2 DEF Signal, Timeout
<1>3. CASE SystemReboot
  BY <1>3 DEF SystemReboot
<1>4. CASE StopWorkloads \/ Drain
  BY <1>4 DEF StopWorkloads, Drain
<1>5. CASE WaitPlaybooks \/ Complete
  BY <1>5 DEF WaitPlaybooks, Complete
<1>6. CASE Fatal
  BY <1>6 DEF Fatal, StartProcess
<1>7. CASE EndInit \/ Save
  BY <1>7 DEF EndInit, Save
<1>8. CASE StartPlaybook \/ EndPlaybook
  BY <1>8 DEF StartPlaybook, EndPlaybook
<1>9. CASE Publish
  BY <1>9 DEF Publish
<1>10. CASE Reboot
  BY <1>10 DEF Reboot, StartProcess
<1>11. CASE Restart
  BY <1>11 DEF Restart, StartProcess
<1>12. ASSUME NEW c \in Requestable \cup {NoOs}, BeginUpdate(c) PROVE RebootFlagsOK'
  BY <1>12 DEF BeginUpdate, Request
<1>13. CASE UNCHANGED vars
  BY <1>13 DEF vars
<1>14. QED
  BY <1>1, <1>2, <1>3, <1>4, <1>5, <1>6, <1>7, <1>8, <1>9, <1>10, <1>11, <1>12, <1>13
     DEF Next, Program

\* Every step keeps the invariant.
LEMMA RebootingInductive == Rebooting /\ [Next]_vars => Rebooting'
<1> SUFFICES ASSUME Rebooting, [Next]_vars PROVE Rebooting'
  OBVIOUS
<1>t. RebootDataOK /\ RebootDataOK'
  BY RebootDataInductive DEF Rebooting
<1>n. /\ booted \in Nat /\ staged \in Nat /\ remote \in Nat
      /\ booted' \in Nat /\ staged' \in Nat /\ remote' \in Nat
  BY <1>t, ConstantsAssumption DEF RebootDataOK, Commits
<1> USE <1>t, <1>n DEF Rebooting, Ordered, Busy, Shown, Deployed, Drained, osVars, configVars, work,
      machine
<1>1. CASE Preview
  BY <1>1 DEF Preview
<1>1a. CASE Upgrade
  <2>1. CASE pc' = "signal"
    <3>1. booted' = booted /\ staged' = remote
      BY <1>1a, <2>1 DEF Upgrade
    <3>2. vacuous' = (vacuous \/ (asked = Empty /\ remote = booted))
      BY <1>1a, <2>1 DEF Upgrade
    <3>3. booted < remote \/ (asked = Empty /\ remote = booted)
      BY <1>1a DEF Upgrade
    <3>4. booted' < staged' \/ vacuous'
      BY <3>1, <3>2, <3>3
    <3>5. QED
      BY <1>1a, <2>1, <3>1, <3>4 DEF Upgrade
  <2>2. CASE pc' = "idle"
    BY <1>1a, <2>2 DEF Upgrade
  <2>3. QED
    BY <1>1a, <2>1, <2>2 DEF Upgrade
<1>2. CASE Signal \/ Timeout
  BY <1>2 DEF Signal, Timeout
<1>3. CASE SystemReboot
  BY <1>3 DEF SystemReboot
<1>4. CASE StopWorkloads \/ Drain
  BY <1>4 DEF StopWorkloads, Drain
<1>5. CASE WaitPlaybooks \/ Complete
  BY <1>5 DEF WaitPlaybooks, Complete
<1>6. CASE Fatal
  BY <1>6 DEF Fatal, StartProcess
<1>7. CASE EndInit \/ Save
  BY <1>7 DEF EndInit, Save
<1>8. CASE StartPlaybook \/ EndPlaybook
  BY <1>8 DEF StartPlaybook, EndPlaybook
<1>9. CASE Publish
  BY <1>9 DEF Publish
<1>10. CASE Reboot
  BY <1>10 DEF Reboot, StartProcess
<1>11. CASE Restart
  BY <1>11 DEF Restart, StartProcess
<1>12. ASSUME NEW c \in Requestable \cup {NoOs}, BeginUpdate(c) PROVE Rebooting'
  BY <1>12 DEF BeginUpdate, Request
<1>13. CASE UNCHANGED vars
  BY <1>13 DEF vars
<1>14. QED
  BY <1>1, <1>1a, <1>2, <1>3, <1>4, <1>5, <1>6, <1>7, <1>8, <1>9, <1>10, <1>11, <1>12, <1>13
     DEF Next, Program

\* The state variables always have the types TypeOK states.
THEOREM RebootTypeCorrect == Spec => []TypeOK
<1>1. RebootDataOK /\ RebootFlagsOK => TypeOK
  BY DEF RebootDataOK, RebootFlagsOK, TypeOK
<1>2. Init => RebootDataOK
  BY RebootInitially DEF Rebooting
<1>3. Init => RebootFlagsOK
  BY RebootInitially
<1>4. QED
  BY <1>1, <1>2, <1>3, RebootDataInductive, RebootFlagsInductive, PTL DEF Spec

\* It holds at every step of the two goroutines and of the machine.
LEMMA RebootingInvariance == Spec => []Rebooting
<1>1. Init => Rebooting
  BY RebootInitially
<1>2. QED
  BY <1>1, RebootingInductive, PTL DEF Spec

\* The workloads are stopped only for a commit that waits for the reboot.
THEOREM WorkKeptWithoutUpgrade == Spec => []StoppedOnlyForUpgrade
<1>1. Rebooting => StoppedOnlyForUpgrade
  BY ConstantsAssumption
     DEF Rebooting, RebootDataOK, Deployed, StoppedOnlyForUpgrade, Commits
<1>2. QED
  BY <1>1, RebootingInvariance, PTL

\* The machine is rebooted after the work was stopped, or after ten seconds.
THEOREM RebootIsGraceful == Spec => []RebootAfterDrain
<1>1. Rebooting => RebootAfterDrain
  BY DEF Rebooting, Drained, RebootAfterDrain
<1>2. QED
  BY <1>1, RebootingInvariance, PTL
=============================================================================
