------------------------------ MODULE ReleaseGate ------------------------------
(***************************************************************************)
(* The live-evidence release pipeline of one deployment: three GitHub      *)
(* workflows that probe a deployment at different moments, seal what they  *)
(* saw, and decide from the sealed artifacts alone whether the privileged  *)
(* authenticated end-to-end collection may run.                            *)
(*                                                                         *)
(*   Vercel Live Smoke Evidence       the jobs `smoke' and `trusted'       *)
(*   Vercel Trusted Source Follow-up  the run `followup'                   *)
(*   Authenticated E2E Evidence       the runs `e2e', started by a         *)
(*                                    follow-up or by hand                 *)
(*                                                                         *)
(* Every probe is a step of its own, because Deployment Protection, the    *)
(* provider's list of trusted sources and the serverless instance that     *)
(* answers may all change between two probes.  Building and verifying an   *)
(* artifact is a function of what the probes recorded: an independent      *)
(* verifier derives the artifact again and compares, so an artifact is     *)
(* modelled by its derivation.  The origin is the deployment's own URL     *)
(* (an answer that names another one is refused), so the revision behind   *)
(* it does not change.                                                     *)
(***************************************************************************)
EXTENDS Naturals

CONSTANTS Commits,      \* the history of main is 1 .. Commits
          MaxChanges    \* a bound on the changes of the surroundings and re-runs

ASSUME ReleaseAssumption == Commits \in Nat \ {0} /\ MaxChanges \in Nat

VARIABLES event,      \* the successful deployment the pipeline is about
          main,       \* the head of main
          world,      \* the edge in front of the deployment, and its answer
          changes,    \* how often the world has changed or jobs were run again
          smoke,      \* the public observer's job
          trusted,    \* the job that probes as a trusted source
          followup,   \* the follow-up run
          e2e,        \* the authenticated runs, by the way they started
          sightings   \* history: what the deployment itself was seen to answer,
                      \* by the attempt of each job that counts

vars == <<event, main, world, changes, smoke, trusted, followup, e2e, sightings>>

Blocked == "BLOCKED_BY_DEPLOYMENT_PROTECTION"
Contexts == {"public", "deployment_status", "workflow_run", "workflow_dispatch"}
Modes == {"automatic", "manual"}
Bases == {"none", "public_launch_verdict", "trusted_promotion_proof",
          "followup_trusted_promotion_proof"}

Event == [sha : 1 .. Commits, branch : {"main", "pull"},
          environment : {"production", "preview"}]
World == [protected : BOOLEAN, trusts : SUBSET (Contexts \ {"public"}),
          ready : BOOLEAN]

SmokeJob == [step : {"health", "readiness", "denial", "sealed", "failed"},
             health : {"none", "OBSERVED_HEALTH", Blocked},
             readiness : {"none", "READY", "CONFIG_NOT_READY", Blocked},
             denial : {"none", "ANONYMOUS_COLLECTION_DENIED", Blocked}]
TrustedJob == [step : {"authorize", "health", "readiness", "denial", "observed",
                       "skipped", "failed"},
               outcome : {"none", "REJECTED", "READY", "NOT_READY"}]
FollowupRun == [step : {"idle", "health", "readiness", "denial", "observed",
                        "success", "failed"},
                outcome : {"none", "REJECTED", "READY", "NOT_READY"},
                head : 0 .. Commits,
                admission : {"none", "ADMITTED", "HOLD_TRUSTED_SOURCE_NOT_READY",
                             "HOLD_PROVIDER_CONFIGURATION_REQUIRED", "refused"}]
E2ERun == [step : {"idle", "held", "authorized", "failed", "HOLD",
                   "AUTHENTICATED_E2E_VERIFIED"},
           basis : Bases,
           receipt : {"none", "AUTHORIZED_FOR_PRIVILEGED_E2E", "HOLD",
                      "HOLD_PROVIDER_CONFIGURATION_REQUIRED"}]

TypeOK ==
  /\ event \in Event /\ main \in 1 .. Commits
  /\ world \in World /\ changes \in 0 .. MaxChanges
  /\ smoke \in SmokeJob /\ trusted \in TrustedJob /\ followup \in FollowupRun
  /\ e2e \in [Modes -> E2ERun]
  /\ sightings \subseteq Contexts \X {"health", "readiness", "denial", "not_ready"}

SmokeAtStart == [step |-> "health", health |-> "none", readiness |-> "none",
                 denial |-> "none"]
TrustedAtStart == [step |-> "authorize", outcome |-> "none"]

Init ==
  /\ event \in Event /\ main = event.sha
  /\ world \in World /\ changes = 0
  /\ smoke = SmokeAtStart /\ trusted = TrustedAtStart
  /\ followup = [step |-> "idle", outcome |-> "none", head |-> 0,
                 admission |-> "none"]
  /\ e2e = [m \in Modes |-> [step |-> "idle", basis |-> "none", receipt |-> "none"]]
  /\ sightings = {}

-------------------------------------------------------------------------------
(* What a request meets *)

\* The edge lets a request through when nothing is protected, or when it
\* carries an identity the provider trusts.  Whether the public observer's
\* bypass secret works is part of `protected'.
Reaches(context) == ~world.protected \/ context \in world.trusts

\* An instance's readiness is fixed when it starts, and instances differ.
Readiness(context) ==
  IF ~Reaches(context) THEN Blocked
  ELSE IF world.ready THEN "READY" ELSE "CONFIG_NOT_READY"

Sees(context, what) ==
  sightings' = IF ~Reaches(context) THEN sightings
               ELSE sightings \cup
                    {<<context, IF what = "readiness" /\ ~world.ready
                                THEN "not_ready" ELSE what>>}

-------------------------------------------------------------------------------
(* Vercel Live Smoke Evidence: the public observer *)

ObserveHealth ==
  /\ smoke.step = "health"
  /\ smoke' = [smoke EXCEPT !.step = "readiness",
                            !.health = IF Reaches("public")
                                       THEN "OBSERVED_HEALTH" ELSE Blocked]
  /\ Sees("public", "health")
  /\ UNCHANGED <<event, main, world, changes, trusted, followup, e2e>>

ObserveReadiness ==
  /\ smoke.step = "readiness"
  /\ smoke' = [smoke EXCEPT !.step = "denial", !.readiness = Readiness("public")]
  /\ Sees("public", "readiness")
  /\ UNCHANGED <<event, main, world, changes, trusted, followup, e2e>>

\* The anonymous collection.  A deployment whose readiness was observed and
\* that did not deny the collection fails the job; otherwise health, trust,
\* manifest and verdict are sealed.
ObserveDenial ==
  /\ smoke.step = "denial"
  /\ LET denial == IF Reaches("public") THEN "ANONYMOUS_COLLECTION_DENIED" ELSE Blocked
     IN  smoke' = [smoke EXCEPT
           !.denial = denial,
           !.step = IF smoke.readiness # Blocked /\ denial = Blocked
                    THEN "failed" ELSE "sealed"]
  /\ Sees("public", "denial")
  /\ UNCHANGED <<event, main, world, changes, trusted, followup, e2e>>

\* READY_AND_ANONYMOUS_DENIED, CONFIG_NOT_READY_AND_ANONYMOUS_DENIED,
\* READINESS_BLOCKED_AND_ANONYMOUS_DENIED or blocked altogether.
TrustOutcome ==
  IF smoke.readiness # Blocked THEN smoke.readiness
  ELSE IF smoke.denial # Blocked THEN "READINESS_BLOCKED" ELSE Blocked

LaunchReadyWithoutHealth == TrustOutcome = "READY"

\* The launch verdict is READY_FOR_AUTHENTICATED_E2E; else it is HOLD.
LaunchReady == TrustOutcome = "READY" /\ smoke.health = "OBSERVED_HEALTH"

ReadinessBlockedHold == smoke.health = Blocked /\ smoke.readiness = Blocked

\* A HOLD that protection alone explains: both observations were blocked.
EdgeOnlyHold == smoke.health = Blocked /\ TrustOutcome = Blocked

-------------------------------------------------------------------------------
(* The probe of a trusted source, in the live-smoke run and in the follow-up *)

\* One request of the probe: the health request may be rejected, which is an
\* observation; a rejection after it fails the job.
Probe(job, context) ==
  IF job.step = "health"
  THEN IF Reaches(context) THEN [job EXCEPT !.step = "readiness"]
       ELSE [job EXCEPT !.step = "observed", !.outcome = "REJECTED"]
  ELSE IF ~Reaches(context) THEN [job EXCEPT !.step = "failed", !.outcome = "none"]
  ELSE IF job.step = "readiness"
       THEN [job EXCEPT !.step = "denial",
                        !.outcome = IF world.ready THEN "READY" ELSE "NOT_READY"]
       ELSE [job EXCEPT !.step = "observed"]

Probing == {"health", "readiness", "denial"}

\* Only a production deployment of a commit that main contains is probed.
AuthorizeTrusted ==
  /\ trusted.step = "authorize"
  /\ trusted' = [trusted EXCEPT
       !.step = IF event.environment = "production" /\ event.branch = "main"
                THEN "health" ELSE "skipped"]
  /\ UNCHANGED <<event, main, world, changes, smoke, followup, e2e, sightings>>

ProbeTrusted ==
  /\ trusted.step \in Probing
  /\ trusted' = Probe(trusted, "deployment_status")
  /\ Sees("deployment_status", trusted.step)
  /\ UNCHANGED <<event, main, world, changes, smoke, followup, e2e>>

ProbeFollowup ==
  /\ followup.step \in Probing
  /\ followup' = Probe(followup, "workflow_run")
  /\ Sees("workflow_run", followup.step)
  /\ UNCHANGED <<event, main, world, changes, smoke, trusted, e2e>>

-------------------------------------------------------------------------------
(* Vercel Trusted Source Follow-up *)

SmokeSucceeded ==
  smoke.step = "sealed" /\ trusted.step \in {"observed", "skipped"}

\* The run belongs to the head of main at the moment it starts, whatever main
\* was when the deployment was observed.
StartFollowup ==
  /\ followup.step = "idle"
  /\ SmokeSucceeded /\ event.branch = "main"
  /\ followup' = [followup EXCEPT
       !.head = main,
       !.step = IF event.environment = "production" THEN "health" ELSE "failed"]
  /\ UNCHANGED <<event, main, world, changes, smoke, trusted, e2e, sightings>>

\* What the two observations of the trusted source say about the provider.
Diagnosis ==
  IF trusted.outcome # "REJECTED" THEN "NO_PROVIDER_BLOCKER_PROVEN"
  ELSE IF followup.outcome = "REJECTED" THEN "PROVIDER_CONFIGURATION_REQUIRED"
  ELSE "FOLLOWUP_TRUST_PATH_ACCEPTED"

\* The Provider Admission Contract; `refused' when no contract is built.
Admission ==
  IF trusted.step # "observed" \/ followup.head # event.sha THEN "refused"
  ELSE CASE followup.outcome = "NOT_READY" -> "HOLD_TRUSTED_SOURCE_NOT_READY"
         [] followup.outcome = "READY"
            /\ Diagnosis = "FOLLOWUP_TRUST_PATH_ACCEPTED" -> "ADMITTED"
         [] followup.outcome = "REJECTED"
            /\ Diagnosis = "PROVIDER_CONFIGURATION_REQUIRED" ->
              "HOLD_PROVIDER_CONFIGURATION_REQUIRED"
         [] OTHER -> "refused"

Admit ==
  /\ followup.step = "observed"
  /\ followup' = [followup EXCEPT
       !.admission = Admission,
       !.step = IF Admission = "refused" THEN "failed" ELSE "success"]
  /\ UNCHANGED <<event, main, world, changes, smoke, trusted, e2e, sightings>>

-------------------------------------------------------------------------------
(* Authenticated E2E Evidence *)

\* Either promotion is defined for a production HOLD of the edge alone, and
\* building it for another one fails the run.
Promotable == ~LaunchReady /\ EdgeOnlyHold /\ event.environment = "production"

TrustedPromotion == Promotable /\ trusted.outcome = "READY"
FollowupPromotion == Promotable /\ followup.admission = "ADMITTED"

\* What the credential-free job concludes from the sealed artifacts: the
\* basis of its authorization, "none" for a HOLD, "failed" for a failed run.
\* Only an automatic run brings the admission along.
Conclusion(mode) ==
  LET admitted == mode = "automatic" /\ followup.admission = "ADMITTED" IN
  IF LaunchReady THEN "public_launch_verdict"
  ELSE CASE trusted.step = "skipped" -> "failed"
         [] trusted.step # "skipped" /\ trusted.outcome = "READY" ->
              IF TrustedPromotion THEN "trusted_promotion_proof" ELSE "failed"
         [] trusted.step # "skipped" /\ trusted.outcome # "READY" /\ admitted ->
              IF FollowupPromotion THEN "followup_trusted_promotion_proof" ELSE "failed"
         [] OTHER -> "none"

\* The receipt every decision leaves; a manual run has no diagnosis to show.
Receipt(mode) ==
  IF Conclusion(mode) # "none" THEN "AUTHORIZED_FOR_PRIVILEGED_E2E"
  ELSE IF mode = "automatic" /\ Diagnosis = "PROVIDER_CONFIGURATION_REQUIRED"
       THEN "HOLD_PROVIDER_CONFIGURATION_REQUIRED" ELSE "HOLD"

Authorize(mode) ==
  IF Conclusion(mode) = "failed" THEN e2e' = [e2e EXCEPT ![mode].step = "failed"]
  ELSE e2e' = [e2e EXCEPT ![mode] =
         [step |-> IF Conclusion(mode) = "none" THEN "held" ELSE "authorized",
          basis |-> Conclusion(mode), receipt |-> Receipt(mode)]]

\* A successful follow-up starts the run, which takes the revision from the
\* follow-up and refuses a source run of another one.
AuthorizeAutomatic ==
  /\ e2e["automatic"].step = "idle"
  /\ followup.step = "success"
  /\ IF followup.head = event.sha THEN Authorize("automatic")
     ELSE e2e' = [e2e EXCEPT !["automatic"].step = "failed"]
  /\ UNCHANGED <<event, main, world, changes, smoke, trusted, followup, sightings>>

\* An operator names the live-smoke run, the revision and the origin, at any
\* time; the run checks that they belong together.
AuthorizeManual(sha, sameOrigin) ==
  /\ e2e["manual"].step = "idle"
  /\ IF sha = event.sha /\ sameOrigin /\ SmokeSucceeded /\ event.branch = "main"
     THEN Authorize("manual")
     ELSE e2e' = [e2e EXCEPT !["manual"].step = "failed"]
  /\ UNCHANGED <<event, main, world, changes, smoke, trusted, followup, sightings>>

\* What the launch evidence and a signed attestation promote to.
Promotion(mode, outcome, status) ==
  IF e2e[mode].basis # "none" /\ outcome = "HEALTHY" /\ status = 200
  THEN "AUTHENTICATED_E2E_VERIFIED" ELSE "HOLD"

\* The privileged job builds the promotion again from the same artifacts and
\* collects with both identities; a collection that is refused, or that is
\* not a fresh attestation of this request, fails it.
Collect(mode) ==
  /\ e2e[mode].step = "authorized"
  /\ LET context == IF mode = "automatic" THEN "workflow_run" ELSE "workflow_dispatch"
     IN  \/ e2e' = [e2e EXCEPT ![mode].step = "failed"]
         \/ /\ Reaches(context) /\ world.ready
            /\ \E outcome \in {"HEALTHY", "UNHEALTHY"}, status \in {200, 500} :
                 e2e' = [e2e EXCEPT ![mode].step = Promotion(mode, outcome, status)]
  /\ UNCHANGED <<event, main, world, changes, smoke, trusted, followup, sightings>>

-------------------------------------------------------------------------------
(* The surroundings *)

\* A job fails: an endpoint that is unreachable or answers out of contract,
\* an artifact that is not available in time, a runner that is lost.
Fail ==
  /\ \/ /\ smoke.step \in Probing
        /\ smoke' = [smoke EXCEPT !.step = "failed"]
        /\ UNCHANGED <<trusted, followup, e2e>>
     \/ /\ trusted.step \in Probing \cup {"authorize"}
        /\ trusted' = [trusted EXCEPT !.step = "failed", !.outcome = "none"]
        /\ UNCHANGED <<smoke, followup, e2e>>
     \/ /\ followup.step \in Probing \cup {"observed"}
        /\ followup' = [followup EXCEPT !.step = "failed", !.outcome = "none"]
        /\ UNCHANGED <<smoke, trusted, e2e>>
     \/ /\ e2e["automatic"].step = "idle" /\ followup.step = "success"
        /\ e2e' = [e2e EXCEPT !["automatic"].step = "failed"]
        /\ UNCHANGED <<smoke, trusted, followup>>
  /\ UNCHANGED <<event, main, world, changes, sightings>>

\* An operator runs the failed jobs of the live-smoke run again; the jobs that
\* succeeded keep what an earlier attempt sealed.
Rerun ==
  /\ changes < MaxChanges
  /\ changes' = changes + 1
  /\ smoke.step \in {"sealed", "failed"}
  /\ trusted.step \in {"observed", "skipped", "failed"}
  /\ ~SmokeSucceeded
  /\ smoke' = IF smoke.step = "failed" THEN SmokeAtStart ELSE smoke
  /\ trusted' = IF trusted.step = "failed" THEN TrustedAtStart ELSE trusted
  /\ sightings' = {s \in sightings : /\ smoke.step = "failed" => s[1] # "public"
                                     /\ trusted.step = "failed" =>
                                          s[1] # "deployment_status"}
  /\ UNCHANGED <<event, main, world, followup, e2e>>

\* Protection is switched, a trusted source is registered or removed, another
\* instance answers.
ChangeWorld ==
  /\ changes < MaxChanges
  /\ changes' = changes + 1
  /\ world' \in World \ {world}
  /\ UNCHANGED <<event, main, smoke, trusted, followup, e2e, sightings>>

Push ==
  /\ main < Commits
  /\ main' = main + 1
  /\ UNCHANGED <<event, world, changes, smoke, trusted, followup, e2e, sightings>>

Next ==
  \/ ObserveHealth \/ ObserveReadiness \/ ObserveDenial
  \/ AuthorizeTrusted \/ ProbeTrusted
  \/ StartFollowup \/ ProbeFollowup \/ Admit
  \/ AuthorizeAutomatic
  \/ \E sha \in 1 .. Commits, sameOrigin \in BOOLEAN : AuthorizeManual(sha, sameOrigin)
  \/ \E mode \in Modes : Collect(mode)
  \/ Fail \/ Rerun \/ ChangeWorld \/ Push

Spec == Init /\ [][Next]_vars

-------------------------------------------------------------------------------
(* Properties *)

Seen(context) == {context} \X {"health", "readiness", "denial"}

\* An authorization of the privileged job rests on one complete pass of one
\* observer: through the identity its basis names, health, readiness and the
\* denial of an anonymous collection were each answered by the deployment
\* itself, however the edge, the instances and main moved between the probes,
\* and whoever starts the run (authorize_authenticated_e2e.py:authorize).
AuthorizedWasSeen ==
  \A mode \in Modes :
    LET basis == e2e[mode].basis IN
    /\ basis = "public_launch_verdict" => Seen("public") \subseteq sightings
    /\ basis = "trusted_promotion_proof" => Seen("deployment_status") \subseteq sightings
    /\ basis = "followup_trusted_promotion_proof" => Seen("workflow_run") \subseteq sightings

\* A promotion never overrules something the public observer learnt of the
\* application: it is built only when every one of its probes met the edge
\* (build_trusted_promotion_proof.py, build_followup_trusted_promotion.py).
NothingSeenIsPromotedAway ==
  \A mode \in Modes :
    e2e[mode].basis \notin {"none", "public_launch_verdict"} =>
      \A s \in sightings : s[1] # "public"

\* docs/launch.md: "The contract emits one of three bounded states".  As
\* documented, a follow-up that saw the deployment at the head of main ready
\* gets its contract; the code builds none when the original probe was not
\* rejected (build_vercel_provider_admission.py:derive_admission).
ContractIsEmitted ==
  followup.outcome = "READY" /\ followup.head = event.sha =>
    followup.admission # "refused"

===============================================================================
