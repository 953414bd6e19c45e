--------------------------- MODULE ReleaseGateProofs ---------------------------
(***************************************************************************)
(* Theorems about the release pipeline (ReleaseGate), for any length of the *)
(* history of main and any number of changes and re-runs.                   *)
(*                                                                         *)
(* The argument: each job's record says exactly which of its probes the      *)
(* deployment answered (PublicRecord, ProbeRecord).  A run is authorized only *)
(* from records that nothing changes any more, since a live-smoke run that    *)
(* succeeded is not run again (Settled), so what a basis rests on stays seen. *)
(***************************************************************************)
EXTENDS ReleaseGate, TLAPS

\* The public observer's record and what the deployment answered it.
PublicRecord ==
  /\ smoke.health = "OBSERVED_HEALTH" <=> <<"public", "health">> \in sightings
  /\ smoke.readiness = "READY" => <<"public", "readiness">> \in sightings
  /\ <<"public", "readiness">> \in sightings => smoke.readiness = "READY"
  /\ <<"public", "not_ready">> \in sightings => smoke.readiness = "CONFIG_NOT_READY"
  /\ smoke.denial = "ANONYMOUS_COLLECTION_DENIED" <=> <<"public", "denial">> \in sightings
  /\ smoke.step = "health" => smoke = SmokeAtStart
  /\ smoke.step = "readiness" => smoke.readiness = "none" /\ smoke.denial = "none"
  /\ smoke.step = "denial" => smoke.denial = "none"
  /\ smoke.step = "sealed" =>
       smoke.denial = "ANONYMOUS_COLLECTION_DENIED" \/ smoke.readiness = Blocked

\* A trusted source's record and what the deployment answered it.
ProbeRecord(job, context) ==
  /\ job.step \in {"authorize", "idle", "health", "readiness"} => job.outcome = "none"
  /\ job.step \in {"readiness", "denial"} => <<context, "health">> \in sightings
  /\ job.outcome = "READY" => /\ <<context, "health">> \in sightings
                              /\ <<context, "readiness">> \in sightings
  /\ job.outcome = "READY" /\ job.step # "denial" => <<context, "denial">> \in sightings

\* What has been concluded rests on records that are final.
Settled ==
  /\ followup.step # "idle" => SmokeSucceeded
  /\ followup.admission = "ADMITTED" =>
       followup.step = "success" /\ followup.outcome = "READY"
  /\ \A mode \in Modes :
       LET basis == e2e[mode].basis IN
       /\ basis # "none" => SmokeSucceeded
       /\ basis = "public_launch_verdict" => LaunchReady
       /\ basis = "trusted_promotion_proof" => EdgeOnlyHold /\ trusted.outcome = "READY"
       /\ basis = "followup_trusted_promotion_proof" =>
            EdgeOnlyHold /\ followup.admission = "ADMITTED"

IInv == /\ TypeOK /\ PublicRecord /\ Settled
        /\ ProbeRecord(trusted, "deployment_status")
        /\ ProbeRecord(followup, "workflow_run")

-------------------------------------------------------------------------------

LEMMA ProbeTyped ==
  ASSUME NEW context \in Contexts, NEW job, job.step \in Probing
  PROVE  /\ job \in TrustedJob => Probe(job, context) \in TrustedJob
         /\ job \in FollowupRun => Probe(job, context) \in FollowupRun
BY DEF Probe, TrustedJob, FollowupRun, Probing

LEMMA SeesTyped ==
  ASSUME TypeOK, NEW context \in Contexts, NEW what \in Probing, Sees(context, what)
  PROVE  sightings' \subseteq Contexts \X {"health", "readiness", "denial", "not_ready"}
BY DEF TypeOK, Sees, Probing

LEMMA ConclusionTyped ==
  ASSUME NEW mode \in Modes
  PROVE  Conclusion(mode) \in Bases \cup {"failed"}
BY DEF Conclusion, Bases

LEMMA AuthorizeTyped ==
  ASSUME TypeOK, NEW mode \in Modes, Authorize(mode)
  PROVE  e2e' \in [Modes -> E2ERun]
<1>1. Conclusion(mode) # "failed" => Conclusion(mode) \in Bases
  BY ConclusionTyped
<1>2. Receipt(mode) \in {"none", "AUTHORIZED_FOR_PRIVILEGED_E2E", "HOLD",
                         "HOLD_PROVIDER_CONFIGURATION_REQUIRED"}
  BY DEF Receipt
<1>3. \A s \in {"failed", "held", "authorized"} :
        [e2e EXCEPT ![mode].step = s] \in [Modes -> E2ERun]
  BY DEF TypeOK, E2ERun
<1>. QED  BY <1>1, <1>2, <1>3 DEF Authorize, TypeOK, E2ERun

LEMMA Typed == TypeOK /\ [Next]_vars => TypeOK'
<1>. SUFFICES ASSUME TypeOK, [Next]_vars PROVE TypeOK'
  OBVIOUS
<1>. USE ReleaseAssumption
<1>. \A c \in {"public", "deployment_status", "workflow_run"} : c \in Contexts
  BY DEF Contexts
<1>1. CASE ObserveHealth
  BY <1>1, SeesTyped DEF ObserveHealth, TypeOK, SmokeJob, Probing
<1>2. CASE ObserveReadiness
  BY <1>2, SeesTyped DEF ObserveReadiness, Readiness, TypeOK, SmokeJob, Probing
<1>3. CASE ObserveDenial
  BY <1>3, SeesTyped DEF ObserveDenial, TypeOK, SmokeJob, Probing
<1>4. CASE AuthorizeTrusted
  BY <1>4 DEF AuthorizeTrusted, TypeOK, TrustedJob
<1>5. CASE ProbeTrusted
  BY <1>5, SeesTyped, ProbeTyped DEF ProbeTrusted, TypeOK
<1>6. CASE StartFollowup
  <2>1. main \in 0 .. Commits
    BY DEF TypeOK
  <2>2. \A st \in {"health", "failed"} :
          [followup EXCEPT !.head = main, !.step = st] \in FollowupRun
    BY <2>1 DEF TypeOK, FollowupRun
  <2>3. followup' \in FollowupRun
    BY <1>6, <2>2 DEF StartFollowup
  <2>. QED  BY <1>6, <2>3 DEF StartFollowup, TypeOK
<1>7. CASE ProbeFollowup
  BY <1>7, SeesTyped, ProbeTyped DEF ProbeFollowup, TypeOK
<1>8. CASE Admit
  BY <1>8 DEF Admit, Admission, TypeOK, FollowupRun
<1>9. CASE AuthorizeAutomatic
  BY <1>9, AuthorizeTyped DEF AuthorizeAutomatic, TypeOK, Modes, E2ERun
<1>10. ASSUME NEW sha \in 1 .. Commits, NEW sameOrigin \in BOOLEAN,
              AuthorizeManual(sha, sameOrigin)
       PROVE  TypeOK'
  BY <1>10, AuthorizeTyped DEF AuthorizeManual, TypeOK, Modes, E2ERun
<1>11. ASSUME NEW mode \in Modes, Collect(mode) PROVE TypeOK'
  BY <1>11 DEF Collect, Promotion, TypeOK, E2ERun
<1>12. CASE Fail
  <2>1. /\ [smoke EXCEPT !.step = "failed"] \in SmokeJob
        /\ [trusted EXCEPT !.step = "failed", !.outcome = "none"] \in TrustedJob
        /\ [followup EXCEPT !.step = "failed", !.outcome = "none"] \in FollowupRun
    BY DEF TypeOK, SmokeJob, TrustedJob, FollowupRun
  <2>2. [e2e EXCEPT !["automatic"].step = "failed"] \in [Modes -> E2ERun]
    BY DEF TypeOK, E2ERun, Modes
  <2>. QED  BY <1>12, <2>1, <2>2 DEF Fail, TypeOK
<1>13. CASE Rerun
  BY <1>13 DEF Rerun, TypeOK, SmokeJob, TrustedJob, SmokeAtStart, TrustedAtStart
<1>14. CASE ChangeWorld
  BY <1>14 DEF ChangeWorld, TypeOK
<1>15. CASE Push
  BY <1>15 DEF Push, TypeOK
<1>16. CASE UNCHANGED vars
  BY <1>16 DEF vars, TypeOK
<1>. QED
  BY <1>1, <1>2, <1>3, <1>4, <1>5, <1>6, <1>7, <1>8, <1>9, <1>10, <1>11, <1>12,
     <1>13, <1>14, <1>15, <1>16 DEF Next

LEMMA InitTyped == Init => TypeOK
BY ReleaseAssumption DEF Init, TypeOK, SmokeAtStart, TrustedAtStart, SmokeJob, TrustedJob,
   FollowupRun, E2ERun, Bases, Event

-------------------------------------------------------------------------------

LEMMA InitIInv == Init => IInv
BY InitTyped DEF Init, IInv, PublicRecord, ProbeRecord, Settled, SmokeAtStart, TrustedAtStart,
   Modes, Blocked

\* A request other than the public observer's adds nothing the observer saw,
\* and a request of one probe takes nothing from the record of the other.
LEMMA OthersUnseen ==
  ASSUME NEW context \in Contexts, NEW other \in Contexts, other # context,
         NEW what, Sees(context, what)
  PROVE  \A w : <<other, w>> \in sightings' <=> <<other, w>> \in sightings
BY DEF Sees

LEMMA SeesMore ==
  ASSUME NEW context, NEW what, Sees(context, what)
  PROVE  sightings \subseteq sightings'
BY DEF Sees

\* The public observer's own steps keep its record.
LEMMA PublicKept ==
  ASSUME TypeOK, PublicRecord, ObserveHealth \/ ObserveReadiness \/ ObserveDenial
  PROVE  PublicRecord'
<1>1. CASE ObserveHealth
  BY <1>1 DEF ObserveHealth, PublicRecord, Sees, TypeOK, SmokeJob, SmokeAtStart, Blocked
<1>2. CASE ObserveReadiness
  BY <1>2 DEF ObserveReadiness, Readiness, PublicRecord, Sees, TypeOK, SmokeJob,
     SmokeAtStart, Blocked
<1>3. CASE ObserveDenial
  BY <1>3 DEF ObserveDenial, PublicRecord, Sees, TypeOK, SmokeJob, SmokeAtStart, Blocked
<1>. QED  BY <1>1, <1>2, <1>3

\* A request of a probe keeps the record of that probe.
LEMMA ProbeKept ==
  ASSUME NEW job, NEW new, NEW context,
         job \in TrustedJob \/ job \in FollowupRun,
         job.step \in Probing, ProbeRecord(job, context),
         new = Probe(job, context), Sees(context, job.step)
  PROVE  /\ new.step \in {"authorize", "idle", "health", "readiness"} => new.outcome = "none"
         /\ new.step \in {"readiness", "denial"} => <<context, "health">> \in sightings'
         /\ new.outcome = "READY" => /\ <<context, "health">> \in sightings'
                                     /\ <<context, "readiness">> \in sightings'
         /\ new.outcome = "READY" /\ new.step # "denial" => <<context, "denial">> \in sightings'
<1>1. CASE job.step = "health"
  BY <1>1 DEF ProbeRecord, Probe, Sees, Probing, TrustedJob, FollowupRun
<1>2. CASE job.step = "readiness"
  BY <1>2 DEF ProbeRecord, Probe, Sees, Probing, TrustedJob, FollowupRun
<1>3. CASE job.step = "denial"
  BY <1>3 DEF ProbeRecord, Probe, Sees, Probing, TrustedJob, FollowupRun
<1>. QED  BY <1>1, <1>2, <1>3 DEF Probing

\* A conclusion that is drawn now is settled.
LEMMA AuthorizeSettled ==
  ASSUME TypeOK, Settled, NEW mode \in Modes, SmokeSucceeded, Authorize(mode),
         UNCHANGED <<smoke, trusted, followup>>
  PROVE  Settled'
<1>. DEFINE Rests(basis) ==
       /\ basis # "none" => SmokeSucceeded
       /\ basis = "public_launch_verdict" => LaunchReady
       /\ basis = "trusted_promotion_proof" => EdgeOnlyHold /\ trusted.outcome = "READY"
       /\ basis = "followup_trusted_promotion_proof" =>
            EdgeOnlyHold /\ followup.admission = "ADMITTED"
<1>1. Conclusion(mode) # "failed" => Rests(Conclusion(mode))
  BY DEF Conclusion, TrustedPromotion, FollowupPromotion, Promotable
<1>2. \A m \in Modes : Rests(e2e[m].basis)
  BY DEF Settled
<1>3. \A m \in Modes : \/ e2e'[m].basis = e2e[m].basis
                       \/ /\ m = mode /\ Conclusion(mode) # "failed"
                          /\ e2e'[m].basis = Conclusion(mode)
  BY DEF Authorize, TypeOK, E2ERun
<1>4. \A m \in Modes : Rests(e2e'[m].basis)
  BY <1>1, <1>2, <1>3
<1>5. (SmokeSucceeded <=> SmokeSucceeded') /\ (LaunchReady <=> LaunchReady')
      /\ (EdgeOnlyHold <=> EdgeOnlyHold')
  BY DEF SmokeSucceeded, LaunchReady, EdgeOnlyHold, TrustOutcome
<1>. QED  BY <1>4, <1>5 DEF Settled

\* While the live-smoke run is not finished nothing is concluded.
LEMMA NothingYet ==
  ASSUME Settled, ~SmokeSucceeded
  PROVE  /\ followup.step = "idle" /\ followup.admission # "ADMITTED"
         /\ \A mode \in Modes : e2e[mode].basis = "none"
BY DEF Settled

\* What has been concluded stays so while jobs and runs are as they were.
LEMMA SettledKept ==
  ASSUME Settled, UNCHANGED <<smoke, trusted>>,
         \A mode \in Modes : e2e'[mode].basis = e2e[mode].basis,
         followup'.admission = "ADMITTED" <=> followup.admission = "ADMITTED",
         followup.admission = "ADMITTED" => followup' = followup,
         followup'.step # "idle" => SmokeSucceeded
  PROVE  Settled'
<1>1. (SmokeSucceeded <=> SmokeSucceeded') /\ (LaunchReady <=> LaunchReady')
      /\ (EdgeOnlyHold <=> EdgeOnlyHold')
  BY DEF SmokeSucceeded, LaunchReady, EdgeOnlyHold, TrustOutcome
<1>. QED  BY <1>1 DEF Settled

LEMMA Preserved == IInv /\ [Next]_vars => IInv'
<1>. SUFFICES ASSUME IInv, [Next]_vars PROVE IInv'
  OBVIOUS
<1>. TypeOK'
  BY Typed DEF IInv
<1>. USE DEF IInv
<1>1. CASE ObserveHealth \/ ObserveReadiness \/ ObserveDenial
  <2>1. \E what \in Probing : Sees("public", what)
    BY <1>1 DEF ObserveHealth, ObserveReadiness, ObserveDenial, Probing
  <2>2. UNCHANGED <<trusted, followup, e2e>> /\ ~SmokeSucceeded
    BY <1>1 DEF ObserveHealth, ObserveReadiness, ObserveDenial, SmokeSucceeded
  <2>3. ProbeRecord(trusted, "deployment_status")'
        /\ ProbeRecord(followup, "workflow_run")'
    BY <2>1, <2>2, SeesMore DEF ProbeRecord
  <2>4. Settled'
    BY <2>2, NothingYet DEF Settled
  <2>. QED  BY <1>1, <2>3, <2>4, PublicKept
<1>2. CASE AuthorizeTrusted
  <2>1. UNCHANGED <<smoke, followup, e2e, sightings>> /\ ~SmokeSucceeded
    BY <1>2 DEF AuthorizeTrusted, SmokeSucceeded
  <2>2. Settled'
    BY <2>1, NothingYet DEF Settled
  <2>3. ProbeRecord(trusted, "deployment_status")'
    BY <1>2, <2>1 DEF AuthorizeTrusted, ProbeRecord, TypeOK, TrustedJob
  <2>. QED  BY <2>1, <2>2, <2>3 DEF PublicRecord, ProbeRecord
<1>3. CASE ProbeTrusted
  <2>1. UNCHANGED <<smoke, followup, e2e>> /\ ~SmokeSucceeded
    BY <1>3 DEF ProbeTrusted, SmokeSucceeded, Probing
  <2>2. Settled'
    BY <2>1, NothingYet DEF Settled
  <2>3. ProbeRecord(trusted, "deployment_status")'
    BY <1>3, ProbeKept DEF ProbeTrusted, ProbeRecord, TypeOK
  <2>4. \A w : <<"public", w>> \in sightings' <=> <<"public", w>> \in sightings
    BY <1>3, OthersUnseen DEF ProbeTrusted, Contexts
  <2>5. ProbeRecord(followup, "workflow_run")'
    BY <1>3, <2>1, SeesMore DEF ProbeTrusted, ProbeRecord
  <2>. QED  BY <2>1, <2>2, <2>3, <2>4, <2>5 DEF PublicRecord
<1>4. CASE StartFollowup
  <2>1. ProbeRecord(followup, "workflow_run")'
    BY <1>4 DEF StartFollowup, ProbeRecord, TypeOK, FollowupRun
  <2>2. Settled'
    BY <1>4, SettledKept DEF StartFollowup, Settled, TypeOK, FollowupRun
  <2>. QED  BY <1>4, <2>1, <2>2 DEF StartFollowup, PublicRecord, ProbeRecord
<1>5. CASE ProbeFollowup
  <2>1. ProbeRecord(followup, "workflow_run")'
    BY <1>5, ProbeKept DEF ProbeFollowup, ProbeRecord, TypeOK
  <2>2. \A w : <<"public", w>> \in sightings' <=> <<"public", w>> \in sightings
    BY <1>5, OthersUnseen DEF ProbeFollowup, Contexts
  <2>3. ProbeRecord(trusted, "deployment_status")'
    BY <1>5, SeesMore DEF ProbeFollowup, ProbeRecord
  <2>4. followup.step # "idle" /\ followup.admission # "ADMITTED"
        /\ followup'.admission = followup.admission
    BY <1>5 DEF ProbeFollowup, Probe, Probing, Settled, TypeOK, FollowupRun
  <2>5. Settled'
    BY <1>5, <2>4, SettledKept DEF ProbeFollowup, Settled
  <2>. QED  BY <1>5, <2>1, <2>2, <2>3, <2>5 DEF ProbeFollowup, PublicRecord
<1>6. CASE Admit
  <2>1. ProbeRecord(followup, "workflow_run")'
    BY <1>6 DEF Admit, ProbeRecord, TypeOK, FollowupRun
  <2>2. Admission = "ADMITTED" => followup.outcome = "READY"
    BY DEF Admission
  <2>3. /\ followup'.admission = Admission /\ followup'.outcome = followup.outcome
        /\ followup'.step = IF Admission = "refused" THEN "failed" ELSE "success"
        /\ followup.admission # "ADMITTED" /\ followup.step # "idle"
    BY <1>6 DEF Admit, Settled, TypeOK, FollowupRun
  <2>4. (SmokeSucceeded <=> SmokeSucceeded') /\ (LaunchReady <=> LaunchReady')
        /\ (EdgeOnlyHold <=> EdgeOnlyHold') /\ UNCHANGED <<e2e, trusted>>
    BY <1>6 DEF Admit, SmokeSucceeded, LaunchReady, EdgeOnlyHold, TrustOutcome
  <2>5. Settled'
    BY <2>2, <2>3, <2>4 DEF Settled
  <2>. QED  BY <1>6, <2>1, <2>5 DEF Admit, PublicRecord, ProbeRecord
<1>7. CASE AuthorizeAutomatic
  <2>1. SmokeSucceeded
    BY <1>7 DEF AuthorizeAutomatic, Settled
  <2>2. UNCHANGED <<smoke, trusted, followup, sightings>> /\ "automatic" \in Modes
    BY <1>7 DEF AuthorizeAutomatic, Modes
  <2>3. CASE Authorize("automatic")
    BY <2>1, <2>2, <2>3, AuthorizeSettled DEF PublicRecord, ProbeRecord
  <2>4. CASE e2e' = [e2e EXCEPT !["automatic"].step = "failed"]
    <3>1. \A mode \in Modes : e2e'[mode].basis = e2e[mode].basis
      BY <2>2, <2>4 DEF TypeOK, E2ERun
    <3>. QED  BY <2>1, <2>2, <3>1, SettledKept DEF PublicRecord, ProbeRecord
  <2>. QED  BY <1>7, <2>3, <2>4 DEF AuthorizeAutomatic
<1>8. ASSUME NEW sha \in 1 .. Commits, NEW sameOrigin \in BOOLEAN,
             AuthorizeManual(sha, sameOrigin)
      PROVE  IInv'
  <2>1. UNCHANGED <<smoke, trusted, followup, sightings>> /\ "manual" \in Modes
    BY <1>8 DEF AuthorizeManual, Modes
  <2>2. CASE SmokeSucceeded /\ Authorize("manual")
    BY <2>1, <2>2, AuthorizeSettled DEF PublicRecord, ProbeRecord
  <2>3. CASE e2e' = [e2e EXCEPT !["manual"].step = "failed"]
    <3>1. \A mode \in Modes : e2e'[mode].basis = e2e[mode].basis
      BY <2>1, <2>3 DEF TypeOK, E2ERun
    <3>. QED  BY <2>1, <3>1, SettledKept DEF PublicRecord, ProbeRecord, Settled
  <2>. QED  BY <1>8, <2>2, <2>3 DEF AuthorizeManual
<1>9. ASSUME NEW mode \in Modes, Collect(mode) PROVE IInv'
  <2>1. \A m \in Modes : e2e'[m].basis = e2e[m].basis
    BY <1>9 DEF Collect, TypeOK, E2ERun
  <2>2. UNCHANGED <<smoke, trusted, followup, sightings>>
    BY <1>9 DEF Collect
  <2>. QED  BY <2>1, <2>2, SettledKept DEF PublicRecord, ProbeRecord, Settled
<1>10. CASE Fail
  <2>1. CASE smoke.step \in Probing /\ smoke' = [smoke EXCEPT !.step = "failed"]
             /\ UNCHANGED <<trusted, followup, e2e, sightings>>
    <3>1. ~SmokeSucceeded
      BY <2>1 DEF SmokeSucceeded, Probing
    <3>2. PublicRecord'
      BY <2>1 DEF PublicRecord, TypeOK, SmokeJob
    <3>. QED  BY <2>1, <3>1, <3>2, NothingYet DEF Settled, ProbeRecord
  <2>2. CASE /\ trusted.step \in Probing \cup {"authorize"}
             /\ trusted' = [trusted EXCEPT !.step = "failed", !.outcome = "none"]
             /\ UNCHANGED <<smoke, followup, e2e, sightings>>
    <3>1. ~SmokeSucceeded
      BY <2>2 DEF SmokeSucceeded, Probing
    <3>2. ProbeRecord(trusted, "deployment_status")'
      BY <2>2 DEF ProbeRecord, TypeOK, TrustedJob
    <3>. QED  BY <2>2, <3>1, <3>2, NothingYet DEF Settled, PublicRecord, ProbeRecord
  <2>3. CASE /\ followup.step \in Probing \cup {"observed"}
             /\ followup' = [followup EXCEPT !.step = "failed", !.outcome = "none"]
             /\ UNCHANGED <<smoke, trusted, e2e, sightings>>
    <3>1. ProbeRecord(followup, "workflow_run")'
      BY <2>3 DEF ProbeRecord, TypeOK, FollowupRun
    <3>2. followup.step # "idle" /\ followup.admission # "ADMITTED"
          /\ followup'.admission = followup.admission
      BY <2>3 DEF Probing, Settled, TypeOK, FollowupRun
    <3>. QED  BY <2>3, <3>1, <3>2, SettledKept DEF Settled, PublicRecord, ProbeRecord
  <2>4. CASE /\ e2e' = [e2e EXCEPT !["automatic"].step = "failed"]
             /\ UNCHANGED <<smoke, trusted, followup, sightings>>
    <3>1. \A m \in Modes : e2e'[m].basis = e2e[m].basis
      BY <2>4 DEF TypeOK, E2ERun
    <3>. QED  BY <2>4, <3>1, SettledKept DEF PublicRecord, ProbeRecord, Settled
  <2>. QED  BY <1>10, <2>1, <2>2, <2>3, <2>4 DEF Fail
<1>11. CASE Rerun
  <2>1. /\ ~SmokeSucceeded /\ UNCHANGED <<followup, e2e>>
        /\ smoke' = IF smoke.step = "failed" THEN SmokeAtStart ELSE smoke
        /\ trusted' = IF trusted.step = "failed" THEN TrustedAtStart ELSE trusted
        /\ sightings' = {s \in sightings : /\ smoke.step = "failed" => s[1] # "public"
                                           /\ trusted.step = "failed" =>
                                                s[1] # "deployment_status"}
    BY <1>11 DEF Rerun
  <2>2. /\ \A w : <<"public", w>> \in sightings' <=>
                    <<"public", w>> \in sightings /\ smoke.step # "failed"
        /\ \A w : <<"deployment_status", w>> \in sightings' <=>
                    <<"deployment_status", w>> \in sightings /\ trusted.step # "failed"
        /\ \A w : <<"workflow_run", w>> \in sightings' <=>
                    <<"workflow_run", w>> \in sightings
    BY <2>1
  <2>3. PublicRecord'
    <3>1. CASE smoke.step = "failed"
      BY <2>1, <2>2, <3>1 DEF PublicRecord, SmokeAtStart, Blocked
    <3>2. CASE smoke.step # "failed"
      BY <2>1, <2>2, <3>2 DEF PublicRecord
    <3>. QED  BY <3>1, <3>2
  <2>4. ProbeRecord(trusted, "deployment_status")'
    BY <2>1, <2>2 DEF ProbeRecord, TrustedAtStart
  <2>5. ProbeRecord(followup, "workflow_run")'
    BY <2>1, <2>2 DEF ProbeRecord
  <2>. QED  BY <2>1, <2>3, <2>4, <2>5, NothingYet DEF Settled
<1>12. CASE ChangeWorld \/ Push \/ UNCHANGED vars
  <2>1. UNCHANGED <<smoke, trusted, followup, e2e, sightings>>
    BY <1>12 DEF ChangeWorld, Push, vars
  <2>. QED  BY <2>1, SettledKept DEF PublicRecord, ProbeRecord, Settled
<1>. QED
  BY <1>1, <1>2, <1>3, <1>4, <1>5, <1>6, <1>7, <1>8, <1>9, <1>10, <1>11, <1>12 DEF Next

LEMMA Reachable == Spec => []IInv
<1>1. Init => IInv
  BY InitIInv
<1>2. IInv /\ [Next]_vars => IInv'
  BY Preserved
<1>. QED  BY <1>1, <1>2, PTL DEF Spec

-------------------------------------------------------------------------------

\* Every record, run and sighting stays in its type.
THEOREM TypeCorrect == Spec => []TypeOK
<1>1. IInv => TypeOK
  BY DEF IInv
<1>. QED  BY <1>1, Reachable, PTL

\* Whatever changes between the probes and whoever starts the run, an
\* authorization rests on one complete pass of the observer its basis names.
THEOREM AuthorizationsRestOnSightings == Spec => []AuthorizedWasSeen
<1>1. IInv => AuthorizedWasSeen
  <2>. SUFFICES ASSUME IInv, NEW mode \in Modes
                PROVE  LET basis == e2e[mode].basis IN
                       /\ basis = "public_launch_verdict" => Seen("public") \subseteq sightings
                       /\ basis = "trusted_promotion_proof" =>
                            Seen("deployment_status") \subseteq sightings
                       /\ basis = "followup_trusted_promotion_proof" =>
                            Seen("workflow_run") \subseteq sightings
    BY DEF AuthorizedWasSeen
  <2>1. e2e[mode].basis = "public_launch_verdict" =>
          \A w \in {"health", "readiness", "denial"} : <<"public", w>> \in sightings
    BY DEF IInv, Settled, SmokeSucceeded, LaunchReady, TrustOutcome, PublicRecord, Blocked
  <2>2. e2e[mode].basis = "trusted_promotion_proof" =>
          \A w \in {"health", "readiness", "denial"} : <<"deployment_status", w>> \in sightings
    BY DEF IInv, Settled, SmokeSucceeded, ProbeRecord
  <2>3. e2e[mode].basis = "followup_trusted_promotion_proof" =>
          \A w \in {"health", "readiness", "denial"} : <<"workflow_run", w>> \in sightings
    BY DEF IInv, Settled, ProbeRecord
  <2>. QED  BY <2>1, <2>2, <2>3 DEF Seen
<1>. QED  BY <1>1, Reachable, PTL

\* A promotion is built only where the public observer met the edge with every
\* probe, so it overrules nothing that observer learnt of the application.
THEOREM PromotionsOverruleNothing == Spec => []NothingSeenIsPromotedAway
<1>1. IInv => NothingSeenIsPromotedAway
  <2>. SUFFICES ASSUME IInv, NEW mode \in Modes,
                       e2e[mode].basis \notin {"none", "public_launch_verdict"},
                       NEW s \in sightings, s[1] = "public"
                PROVE  FALSE
    BY DEF NothingSeenIsPromotedAway
  <2>1. EdgeOnlyHold
    BY DEF IInv, Settled, TypeOK, E2ERun, Bases
  <2>2. smoke.health = Blocked /\ smoke.readiness = Blocked /\ smoke.denial = Blocked
    BY <2>1 DEF EdgeOnlyHold, TrustOutcome, IInv, TypeOK, SmokeJob, Blocked
  <2>3. PICK w \in {"health", "readiness", "denial", "not_ready"} : s = <<"public", w>>
    BY DEF IInv, TypeOK
  <2>. QED  BY <2>2, <2>3 DEF IInv, PublicRecord, Blocked
<1>. QED  BY <1>1, Reachable, PTL

===============================================================================
