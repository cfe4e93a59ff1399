---------------------------- MODULE Registration ----------------------------
(***************************************************************************)
(* Enrolment, registration and the client certificate                      *)
(* (internal/registration/registration.go, certs.go).                      *)
(*                                                                         *)
(* main registers an unconfigured device once, on its own goroutine, and   *)
(* then starts a goroutine that tries every ten seconds.  A registration   *)
(* ends with two files being written, the certificate and its key, which   *)
(* yggdrasil uses for its connection to the operator: with a pair that     *)
(* does not match nothing can be sent.                                     *)
(*                                                                         *)
(* yggdrasil and the operator are external.                                *)
(***************************************************************************)
EXTENDS Naturals, FiniteSets

CONSTANTS
  Keys,       \* private keys; enough of them for one to be unused
  Unreadable, \* a certificate or key that cannot be parsed: torn, or invalid
  MaxFailures \* bound: failed messages and writes, and crashes

ASSUME KeysAssumption ==
  /\ IsFiniteSet(Keys) /\ Cardinality(Keys) > 4
  /\ Unreadable \notin Keys
  /\ MaxFailures \in Nat

\* A certificate has the common name of a registration or of the device.
Certs == [kind : {"register", "device"}, key : Keys]

ASSUME UnreadableAssumption == Unreadable \notin Certs

VARIABLES
  certFile, keyFile, \* the files yggdrasil was configured with
  cert, key,  \* ClientCert.certGroup
  process,    \* "boot", "up", or "dead" when the files cannot be loaded
  step,       \* where the registration is; "none" when there is none
  retrying,   \* it runs in the goroutine, no longer in main
  newCert, newKey, \* the answer of the operator, and the key it was asked for
  registered, \* Registration.registered
  configured, \* device-config.json exists
  approved,   \* the operator approved the enrolment
  damaged,    \* a file was left half-written, or the pair half-replaced
  failures

files == <<certFile, keyFile>>
group == <<cert, key>>
answer == <<newCert, newKey>>
registrationVars ==
  <<files, group, process, step, retrying, answer, registered, configured, approved,
    damaged, failures>>

Writing == {"openCert", "cert", "openKey", "key", "openRestore", "restore"}
Steps == {"none", "enrol", "renew", "request", "import", "remember", "set", "wait",
          "stopped"} \cup Writing

RegistrationTypeOK ==
  /\ certFile \in Certs \cup {Unreadable} /\ keyFile \in Keys \cup {Unreadable}
  /\ cert \in Certs /\ key \in Keys
  /\ newCert \in Certs \cup {Unreadable} /\ newKey \in Keys
  /\ process \in {"boot", "up", "dead"}
  /\ step \in Steps
  /\ retrying \in BOOLEAN /\ registered \in BOOLEAN /\ configured \in BOOLEAN
  /\ approved \in BOOLEAN /\ damaged \in BOOLEAN
  /\ failures \in 0..MaxFailures

\* The device is delivered with a registration certificate.
RegistrationInit ==
  /\ key \in Keys /\ cert = [kind |-> "register", key |-> key]
  /\ keyFile = key /\ certFile = cert
  /\ newKey = key /\ newCert = Unreadable
  /\ process = "boot" /\ step = "none" /\ retrying = FALSE
  /\ registered = FALSE /\ configured = FALSE /\ approved = FALSE
  /\ damaged = FALSE /\ failures = 0

Failure == failures < MaxFailures /\ failures' = failures + 1

\* What yggdrasil needs to reach the operator.
Connected ==
  /\ certFile # Unreadable /\ keyFile # Unreadable
  /\ certFile.key = keyFile

-----------------------------------------------------------------------------
(* main *)

\* NewRegistration loads the pair, without comparing its halves; main ends when
\* it cannot.  A device that has a configuration does not register.
Boot ==
  /\ process = "boot"
  /\ IF Unreadable \in {certFile, keyFile}
       THEN process' = "dead" /\ UNCHANGED <<group, step>>
       ELSE /\ process' = "up"
            /\ cert' = certFile /\ key' = keyFile
            /\ step' = IF configured THEN "none" ELSE "enrol"
  /\ UNCHANGED <<files, retrying, answer, registered, configured, approved, damaged,
                 failures>>

At(s) == process = "up" /\ step = s

\* Mutation: the goroutine gives up.
FailedForGood == step' = (IF retrying THEN "stopped" ELSE "wait") /\ retrying' = TRUE

\* registerDeviceOnce returns an error: the goroutine is started, or goes on.
Failed == step' = "wait" /\ retrying' = TRUE

\* The next tick of the goroutine.
Retry ==
  /\ At("wait")
  /\ step' = "enrol"
  /\ UNCHANGED <<files, group, process, retrying, answer, registered, configured,
                 approved, damaged, failures>>

-----------------------------------------------------------------------------
(* registerDeviceOnce *)

Enrol ==
  /\ At("enrol")
  /\ \/ /\ Connected /\ approved
        /\ step' = "renew"
        /\ UNCHANGED <<retrying, failures>>
     \/ ~(Connected /\ approved) /\ Failed /\ UNCHANGED failures
     \/ Failed /\ Failure
  /\ UNCHANGED <<files, group, process, answer, registered, configured, approved,
                 damaged>>

Used == {key, cert.key} \cup {keyFile} \cup {c.key : c \in {certFile} \ {Unreadable}}

\* renewCertificate: the first device certificate is for a new key, a later one
\* for the key there is.  The request holds what the certificate will be.
Renew ==
  /\ At("renew")
  /\ step' = "request"
  /\ newKey' \in IF cert.kind = "register" THEN Keys \ Used ELSE {key}
  /\ newCert' = [kind |-> "device", key |-> newKey']
  /\ UNCHANGED <<files, group, process, retrying, registered, configured, approved,
                 damaged, failures>>

\* The operator signs the request, or the answer fails or holds no certificate.
RequestCertificate ==
  /\ At("request")
  /\ \/ step' = "import" /\ UNCHANGED <<newCert, retrying, failures>>
     \/ step' = "import" /\ newCert' = Unreadable /\ Failure /\ UNCHANGED retrying
     \/ Failed /\ Failure /\ UNCHANGED newCert
  /\ UNCHANGED <<files, group, process, newKey, registered, configured, approved,
                 damaged>>

-----------------------------------------------------------------------------
(* WriteCertificate *)

\* Mutation: an error of the import is not returned.
ImportErrorIgnored ==
  /\ At("import")
  /\ step' = IF newCert = Unreadable THEN "set" ELSE "openCert"
  /\ UNCHANGED <<files, group, process, retrying, answer, registered, configured,
                 approved, damaged, failures>>

\* Nothing is written of a pair that cannot be parsed.
Import ==
  /\ At("import")
  /\ IF newCert = Unreadable THEN Failed ELSE step' = "openCert" /\ UNCHANGED retrying
  /\ UNCHANGED <<files, group, process, answer, registered, configured, approved,
                 damaged, failures>>

\* A write that fails after the file was truncated, or a restoration that fails.
Damage == Failure /\ damaged' = TRUE

OpenCert ==
  /\ At("openCert")
  /\ \/ /\ certFile' = Unreadable /\ step' = "cert"
        /\ UNCHANGED <<retrying, damaged, failures>>
     \/ Failed /\ Failure /\ UNCHANGED <<certFile, damaged>>
  /\ UNCHANGED <<keyFile, group, process, answer, registered, configured, approved>>

\* When the certificate cannot be written nothing is restored.
WriteCert ==
  /\ At("cert")
  /\ \/ /\ certFile' = newCert /\ step' = "openKey"
        /\ UNCHANGED <<retrying, damaged, failures>>
     \/ Failed /\ Damage /\ UNCHANGED certFile
  /\ UNCHANGED <<keyFile, group, process, answer, registered, configured, approved>>

OpenKey ==
  /\ At("openKey")
  /\ \/ keyFile' = Unreadable /\ step' = "key" /\ UNCHANGED <<damaged, failures>>
     \/ step' = "openRestore" /\ Failure /\ UNCHANGED <<keyFile, damaged>>
  /\ UNCHANGED <<certFile, group, process, retrying, answer, registered, configured,
                 approved>>

WriteKey ==
  /\ At("key")
  /\ \/ keyFile' = newKey /\ step' = "remember" /\ UNCHANGED <<damaged, failures>>
     \/ step' = "openRestore" /\ Damage /\ UNCHANGED keyFile
  /\ UNCHANGED <<certFile, group, process, retrying, answer, registered, configured,
                 approved>>

\* Mutation: the new certificate is left with the old key.
NoRestore ==
  /\ At("openRestore")
  /\ Failed
  /\ UNCHANGED <<files, group, process, answer, registered, configured, approved,
                 damaged, failures>>

\* The old certificate is written back after a key that could not be.
OpenRestore ==
  /\ At("openRestore")
  /\ \/ /\ certFile' = Unreadable /\ step' = "restore"
        /\ UNCHANGED <<retrying, damaged, failures>>
     \/ Failed /\ Damage /\ UNCHANGED certFile
  /\ UNCHANGED <<keyFile, group, process, answer, registered, configured, approved>>

Restore ==
  /\ At("restore")
  /\ Failed
  /\ \/ certFile' = cert /\ UNCHANGED <<damaged, failures>>
     \/ Damage /\ UNCHANGED certFile
  /\ UNCHANGED <<keyFile, group, process, answer, registered, configured, approved>>

Remember ==
  /\ At("remember")
  /\ step' = "set"
  /\ cert' = newCert /\ key' = newKey
  /\ UNCHANGED <<files, process, retrying, answer, registered, configured, approved,
                 damaged, failures>>

\* After main's registration the goroutine is started all the same; the
\* goroutine stops its ticker.
SetRegistered ==
  /\ At("set")
  /\ registered' = TRUE
  /\ step' = IF retrying THEN "stopped" ELSE "wait"
  /\ retrying' = TRUE
  /\ UNCHANGED <<files, group, process, answer, configured, approved, damaged,
                 failures>>

-----------------------------------------------------------------------------
(* The rest of the worker, the operator and crashes *)

Serving == process = "up" /\ (retrying \/ step = "none")

\* The operator sends a configuration to a device it knows.
Configure ==
  /\ Serving /\ Connected /\ certFile.kind = "device"
  /\ configured' = TRUE
  /\ UNCHANGED <<files, group, process, step, retrying, answer, registered, approved,
                 damaged, failures>>

\* Deregister, beside a registration in progress.
Deregister ==
  /\ Serving
  /\ registered' = FALSE /\ configured' = FALSE
  /\ UNCHANGED <<files, group, process, step, retrying, answer, approved, damaged,
                 failures>>

Approve ==
  /\ approved' = TRUE
  /\ UNCHANGED <<files, group, process, step, retrying, answer, registered, configured,
                 damaged, failures>>

Crash ==
  /\ process = "up"
  /\ process' = "boot" /\ step' = "none" /\ retrying' = FALSE /\ registered' = FALSE
  /\ Failure
  /\ damaged' = (damaged \/ step \in Writing \ {"openCert"})
  /\ UNCHANGED <<files, group, answer, configured, approved>>

Attempt ==
  \/ Retry \/ Enrol \/ Renew \/ RequestCertificate \/ Import
  \/ OpenCert \/ WriteCert \/ OpenKey \/ WriteKey \/ OpenRestore \/ Restore
  \/ Remember \/ SetRegistered

RegistrationNext ==
  \/ Boot \/ Attempt
  \/ Configure \/ Deregister \/ Approve \/ Crash

\* systemd starts the process, and its goroutine runs.
RegistrationSpec ==
  /\ RegistrationInit /\ [][RegistrationNext]_registrationVars
  /\ WF_registrationVars(Boot) /\ WF_registrationVars(Attempt)

-----------------------------------------------------------------------------
(* Properties *)

\* Unless a write was cut short, the files hold, between two registrations, the
\* pair in memory, and its halves match; through rejected and invalid answers,
\* files that cannot be opened, crashes and renewals.  (WriteCertificate)
PairOnDisk ==
  ~damaged /\ process = "up" /\ step \notin Writing \cup {"remember"} =>
    certFile = cert /\ keyFile = key /\ Connected

\* A device certificate is renewed for the key it has: whatever fails half-way,
\* the key file holds that key or none.  (renewCertificate; registration_test.go,
\* "Renew certificate on client certificate")
RenewalKeepsKey ==
  process = "up" /\ cert.kind = "device" => keyFile \in {key, Unreadable}

\* Unless a write was cut short, a registered device has a device
\* certificate, during its next registration too.  (registerDeviceOnce)
RegisteredHasCert ==
  ~damaged /\ registered => cert.kind = "device"

\* Once the operator approved the device, a registration under way succeeds,
\* however many attempts fail, unless the process dies or the pair on disk was
\* damaged.  (registerDeviceWithRetries)
EventuallyRegistered ==
  approved /\ process = "up" /\ step \notin {"none", "stopped"} ~>
    registered \/ process # "up" \/ damaged
=============================================================================
