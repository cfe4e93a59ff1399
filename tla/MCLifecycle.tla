---------------------------- MODULE MCLifecycle ----------------------------
(* The two ends of the device's life under its operator, the registration   *)
(* and the reboot into an upgrade.  They share no state, so a behaviour is  *)
(* about one of them, chosen at the start, and the other stays as it begins. *)
EXTENDS Registration, MCGracefulReboot

VARIABLE part

allVars == <<part, registrationVars, vars>>

LifecycleInit ==
  /\ part \in {"registration", "reboot"}
  /\ RegistrationInit /\ Init
  /\ part = "reboot" => key = CHOOSE k \in Keys : TRUE

\* A step of one part.
Only(p) ==
  /\ part = p /\ UNCHANGED part
  /\ p = "registration" => UNCHANGED vars
  /\ p = "reboot" => UNCHANGED registrationVars

\* The worker may stop before its reboot and wait for ever (UpdateEnds); a
\* registration may not.
LifecycleNext ==
  \/ Only("registration") /\ RegistrationNext
  \/ Only("reboot") /\ (Next \/ UNCHANGED vars)

\* The fairness of RegistrationSpec and of Spec.
LifecycleFairness ==
  /\ WF_allVars(Only("registration") /\ Boot)
  /\ WF_allVars(Only("registration") /\ Attempt)
  /\ WF_allVars(Only("reboot") /\
       (Preview \/ Upgrade \/ Signal \/ Timeout \/ Complete \/ SystemReboot))
  /\ WF_allVars(Only("reboot") /\ (StopWorkloads \/ Drain \/ WaitPlaybooks \/ Fatal))
  /\ WF_allVars(Only("reboot") /\ EndInit)
  /\ WF_allVars(Only("reboot") /\ Save)
  /\ WF_allVars(Only("reboot") /\ Reboot)

LifecycleSpec == LifecycleInit /\ [][LifecycleNext]_allVars /\ LifecycleFairness
=============================================================================
