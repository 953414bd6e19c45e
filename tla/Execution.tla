----------------------------- MODULE Execution -----------------------------
(***************************************************************************)
(* One execution with agents playing the roles                              *)
(* (src/proofos_agent/orchestration.py, run_agent_execution): the runtime    *)
(* opens the task, the planner and the executor take a turn, the executor   *)
(* claims success, and then verifier turns and collections alternate until   *)
(* a turn decides VERIFIED, the attempts run out or nothing can be collected. *)
(*                                                                         *)
(* A verifier turn is what the turn runner reports: the deterministic one    *)
(* calls the verification tool once; the model behind the Gemini one may     *)
(* call it any number of times, for another task, without being answered,    *)
(* or not at all, and may fail.  Any append to the journal may fail.          *)
(* The clock runs between any two steps.                                      *)
(***************************************************************************)
EXTENDS TaskRecord, FiniteSets

CONSTANTS Runners,          \* the agent runtimes, of "deterministic" and "gemini"
          MaxAttempts,      \* max_attempts
          MaxCalls,         \* bound on the tool calls of a model's turn
          MaxRetries,       \* retries of a model's turn (RATE_LIMIT_RETRIES, SERVER_ERROR_RETRIES)
          MaxLost           \* bound on the kinds of event whose append fails

ASSUME ExecutionAssumption ==
    /\ Times \subseteq Nat /\ MaxAttempts \in Nat \ {0} /\ MaxRetries \in Nat
    /\ Runners \subseteq {"deterministic", "gemini"}
    /\ {"tests", "runtime"} \subseteq Kinds /\ {"ci", "executor", "probe"} \subseteq Collectors
    /\ RequirementLists \subseteq Seq(Requirement)

VARIABLES pc,          \* the orchestrator's next step
          runner,      \* which turn runner plays the agents
          performed,   \* how often the executor's action ran
          invocations, \* how often the action tool counts it as run
          attempt,
          turn,        \* the model's current turn: its calls, retries, whether it failed
          decisions,   \* the decisions taken so far
          outcome,     \* final_status and failure_class
          lost,        \* events whose append failed
          noted        \* audit_failures: those the orchestrator knows of

vars == <<pc, runner, required, evidence, performed, invocations, attempt, turn, decisions,
          outcome, lost, noted, now>>
task == <<required, evidence, performed, invocations>>
talk == <<attempt, turn, decisions>>
fixed == <<runner, now>>

\* The events journaled by the orchestrator's note(), and those by the roles.
NotedEvents == {"START", "TURN", "DECISION", "NONCOMPLIANCE", "RECOVERY", "COMPLETE"}
RoleEvents  == {"PLANNED", "CI_RESULT", "ACTION", "CLAIM", "COLLECTION"}

Outcome(status, failure) == [status |-> status, failure |-> failure]

NoTurn == [calls |-> << >>, retries |-> 0, failed |-> FALSE]

Init ==
    /\ pc = "start"
    /\ runner \in Runners
    /\ required \in RequirementLists
    /\ evidence = << >>
    /\ performed = 0
    /\ invocations = 0
    /\ attempt = 1
    /\ turn = NoTurn
    /\ decisions = << >>
    /\ outcome = Outcome("ABSTAIN", "RETRY_EXHAUSTED")
    /\ lost = {}
    /\ noted = {}
    /\ now \in Times /\ \A t \in Times : now <= t

-----------------------------------------------------------------------------
\* note() of several events, after the loss of others went unnoticed: an
\* append of note() that fails is remembered.
NoteAfter(unnoticed, events) ==
    \E failing \in SUBSET events :
        /\ lost' = lost \cup failing \cup unnoticed
        /\ Cardinality(lost') <= MaxLost
        /\ noted' = noted \cup failing

Note(events) == NoteAfter({}, events)

\* A role's audit.record(): when the append fails JournalUnavailableError
\* leaves the role, and no list of the orchestrator remembers it.
Recorded == UNCHANGED <<lost, noted>>

NotRecorded(event) ==
    /\ Cardinality(lost \cup {event}) <= MaxLost
    /\ lost' = lost \cup {event}
    /\ UNCHANGED noted

Item(kind, source, sound, collector) ==
    [kind |-> kind, source |-> source, sound |-> sound, at |-> now,
     collector |-> collector, intact |-> TRUE]

-----------------------------------------------------------------------------
Start ==
    /\ pc = "start"
    /\ pc' = "open"
    /\ Note({"START"})
    /\ UNCHANGED <<task, talk, fixed, outcome>>

\* open_task(): without requirements CapabilityDenied ends the execution.
Open ==
    /\ pc = "open"
    /\ IF required = << >>
       THEN pc' = "settle" /\ outcome' = Outcome("ABSTAIN", "CAPABILITY_DENIED")
       ELSE pc' = "plan" /\ UNCHANGED outcome
    /\ UNCHANGED <<task, talk, fixed, lost, noted>>

\* The planner's turn.  What it proposes changes nothing.
Plan ==
    /\ pc = "plan"
    /\ pc' = "seed"
    /\ Note({"TURN"})
    /\ UNCHANGED <<task, talk, fixed, outcome>>

\* seed_evidence -> CiCollector.record_ci_result.
Seed ==
    /\ pc = "seed"
    /\ evidence' = Append(evidence, Item("tests", "OBSERVED", TRUE, "ci"))
    /\ \/ Recorded /\ pc' = "execute"
       \/ NotRecorded("CI_RESULT") /\ pc' = "raised"
    /\ UNCHANGED <<required, performed, invocations, talk, fixed, outcome>>

\* The executor's turn, deterministic: execute() performs the action and
\* records it.
ExecuteDirectly ==
    /\ pc = "execute" /\ runner = "deterministic"
    /\ performed' = performed + 1
    /\ \/ Note({"TURN"}) /\ pc' = "claim"
       \/ NotRecorded("ACTION") /\ pc' = "raised"
    /\ UNCHANGED <<required, evidence, invocations, talk, fixed, outcome>>

\* How often the action tool lets its calls perform.
MAX_ACTION_INVOCATIONS == 1

\* perform_action of the Gemini executor, below its ceiling (past it the tool
\* answers without effect): the call is counted once execute() has performed
\* the action and recorded it.  When the record fails the exception ends the
\* turn, or starts it again if it reads like a rate limit: the text searched
\* for "429" contains the random id of the execution.
ModelActs ==
    /\ pc = "execute" /\ runner = "gemini" /\ ~ turn.failed
    /\ invocations < MAX_ACTION_INVOCATIONS
    /\ performed' = performed + 1
    /\ \/ Recorded /\ invocations' = invocations + 1 /\ UNCHANGED turn
       \/ /\ NotRecorded("ACTION") /\ UNCHANGED invocations
          /\ \/ turn' = [turn EXCEPT !.failed = TRUE]
             \/ turn.retries < MaxRetries /\ turn' = [turn EXCEPT !.retries = @ + 1]
    /\ UNCHANGED <<pc, required, evidence, attempt, decisions, fixed, outcome>>

\* The executor's turn, Gemini, ends, failed or not: the execution goes on.
ExecutorStops ==
    /\ pc = "execute" /\ runner = "gemini"
    /\ pc' = "claim" /\ turn' = NoTurn
    /\ Note({"TURN"})
    /\ UNCHANGED <<task, attempt, decisions, fixed, outcome>>

\* Variant for the mutation checks: with a new action tool.
RetryWithNewTool ==
    /\ pc \in {"execute", "verify"} /\ runner = "gemini"
    /\ ~ turn.failed /\ turn.retries < MaxRetries
    /\ turn' = [NoTurn EXCEPT !.retries = turn.retries + 1]
    /\ invocations' = 0
    /\ UNCHANGED <<pc, required, evidence, performed, attempt, decisions, fixed,
                   outcome, lost, noted>>

\* The model's provider is over its rate or fails for the moment: what the turn
\* collected is forgotten and the model is asked again, of the same tools.
ModelRetries ==
    /\ pc \in {"execute", "verify"} /\ runner = "gemini"
    /\ ~ turn.failed /\ turn.retries < MaxRetries
    /\ turn' = [NoTurn EXCEPT !.retries = turn.retries + 1]
    /\ UNCHANGED <<pc, task, attempt, decisions, fixed, outcome, lost, noted>>

\* Executor.claim_success: a self-report of health, then the claim.
Claim ==
    /\ pc = "claim"
    /\ evidence' = Append(evidence, Item("runtime", "EXECUTOR", TRUE, "executor"))
    /\ \/ Recorded /\ pc' = "verify"
       \/ NotRecorded("CLAIM") /\ pc' = "raised"
    /\ UNCHANGED <<required, performed, invocations, talk, fixed, outcome>>

-----------------------------------------------------------------------------
(* A verifier turn.                                                         *)

\* build_verification_tool: what the tool answers when it is called now.
ToolAnswer(mine, claimed) ==
    IF mine THEN VerifyCompletion(claimed, evidence, required, now)
            ELSE Abstain("MALFORMED_INPUT", {})

Call(mine, claimed, answered) ==
    [mine |-> mine, answered |-> answered, answer |-> ToolAnswer(mine, claimed), at |-> now]

VerifyDirectly ==
    /\ pc = "verify" /\ runner = "deterministic"
    /\ pc' = "decide"
    /\ turn' = [NoTurn EXCEPT !.calls = <<Call(TRUE, TRUE, TRUE)>>]
    /\ Note({"TURN"})
    /\ UNCHANGED <<task, attempt, decisions, fixed, outcome>>

ModelCalls ==
    /\ pc = "verify" /\ runner = "gemini"
    /\ Len(turn.calls) < MaxCalls
    /\ \E mine, claimed, answered \in BOOLEAN :
          turn' = [turn EXCEPT !.calls = Append(turn.calls, Call(mine, claimed, answered))]
    /\ UNCHANGED <<pc, task, attempt, decisions, fixed, outcome, lost, noted>>

ModelStops ==
    /\ pc = "verify" /\ runner = "gemini"
    /\ pc' = "decide"
    /\ \E failed \in BOOLEAN : turn' = [turn EXCEPT !.failed = failed]
    /\ Note({"TURN"})
    /\ UNCHANGED <<task, attempt, decisions, fixed, outcome>>

-----------------------------------------------------------------------------
(* decision_from: the verdict is read from the tool's answers alone.        *)

Answered == {i \in DOMAIN turn.calls : turn.calls[i].answered}

\* The call whose answer stands: the last that completed.
StandingCall == turn.calls[CHOOSE i \in Answered : \A j \in Answered : j <= i]

\* Variant for the mutation checks: any answer that says VERIFIED stands.
BestAnswer ==
    LET verified == {i \in Answered : turn.calls[i].answer.status = "VERIFIED"}
    IN  IF verified # {} THEN turn.calls[CHOOSE i \in verified : TRUE].answer
                         ELSE StandingCall.answer

Usable ==
    /\ ~ turn.failed
    /\ Answered # {}
    /\ \A i \in DOMAIN turn.calls : turn.calls[i].mine

Decision == StandingCall.answer

\* Variant for the mutation checks: the failure class is left as it was.
NoncomplianceUnexplained ==
    /\ pc = "decide" /\ ~ Usable
    /\ pc' = "settle"
    /\ Note({"NONCOMPLIANCE"})
    /\ UNCHANGED <<task, talk, fixed, outcome>>

\* Variant for the mutation checks: the turn is taken again, uncounted.
NoncomplianceRetried ==
    /\ pc = "decide" /\ ~ Usable
    /\ pc' = "verify" /\ turn' = NoTurn
    /\ Note({"NONCOMPLIANCE"})
    /\ UNCHANGED <<task, attempt, decisions, fixed, outcome>>

Noncompliance ==
    /\ pc = "decide" /\ ~ Usable
    /\ pc' = "settle"
    /\ outcome' = Outcome("ABSTAIN", "MODEL_NONCOMPLIANCE")
    /\ Note({"NONCOMPLIANCE"})
    /\ UNCHANGED <<task, talk, fixed>>

Decide == pc = "decide" /\ Usable /\ decisions' = Append(decisions, Decision)

AcceptVerdict ==
    /\ Decide /\ Decision.status = "VERIFIED"
    /\ pc' = "settle"
    /\ outcome' = Outcome("VERIFIED", "NONE")
    /\ Note({"DECISION"})
    /\ UNCHANGED <<task, attempt, turn, fixed>>

GiveUp ==
    /\ Decide /\ Decision.status # "VERIFIED"
    /\ attempt = MaxAttempts \/ "runtime" \notin Decision.missing
    /\ pc' = "settle"
    /\ outcome' = [outcome EXCEPT !.failure = IF attempt = MaxAttempts
                                              THEN "RETRY_EXHAUSTED" ELSE "COLLECTOR_UNAVAILABLE"]
    /\ Note({"DECISION"})
    /\ UNCHANGED <<task, attempt, turn, fixed>>

RequestCollection ==
    /\ Decide /\ Decision.status # "VERIFIED"
    /\ attempt < MaxAttempts /\ "runtime" \in Decision.missing
    /\ pc' = "collect"
    /\ Note({"DECISION", "RECOVERY"})
    /\ UNCHANGED <<task, attempt, turn, fixed, outcome>>

-----------------------------------------------------------------------------
\* The planner's audit.record() fails.
PlannerRaises ==
    /\ pc = "plan" /\ pc' = "raised"
    /\ NotRecorded("PLANNED")
    /\ UNCHANGED <<task, talk, fixed, outcome>>

\* The collection observes the runtime, healthy or not, now or, by the collector's
\* clock, before, or observes nothing;
\* the collector's audit.record() may fail before or after.
Observation ==
    \/ UNCHANGED evidence
    \/ \E ok \in BOOLEAN, t \in {t \in Times : t <= now} :
          evidence' = Append(evidence, [Item("runtime", "OBSERVED", ok, "probe") EXCEPT !.at = t])

Collect ==
    /\ pc = "collect"
    /\ Observation
    /\ \/ Recorded /\ pc' = "verify" /\ attempt' = attempt + 1 /\ turn' = NoTurn
       \/ NotRecorded("COLLECTION") /\ pc' = "raised" /\ UNCHANGED <<attempt, turn>>
    /\ UNCHANGED <<required, performed, invocations, decisions, fixed, outcome>>

\* An audit failure known by now downgrades the outcome; then the end of the
\* execution is journaled and the outcome returned.
Settle ==
    /\ pc = "settle" /\ pc' = "returned"
    /\ outcome' = IF noted # {} THEN Outcome("ABSTAIN", "AUDIT_UNAVAILABLE") ELSE outcome
    /\ Note({"COMPLETE"})
    /\ UNCHANGED <<task, talk, fixed>>

Tick ==
    /\ pc \notin {"returned", "raised"}
    /\ now + 1 \in Times
    /\ now' = now + 1
    /\ UNCHANGED <<pc, runner, task, talk, outcome, lost, noted>>

Advance ==
    \/ Start \/ Open \/ Plan \/ PlannerRaises \/ Seed
    \/ ExecuteDirectly \/ ModelActs \/ ExecutorStops \/ ModelRetries \/ Claim
    \/ VerifyDirectly \/ ModelCalls \/ ModelStops
    \/ Noncompliance \/ AcceptVerdict \/ GiveUp \/ RequestCollection
    \/ Collect \/ Settle

Next == Advance \/ Tick

\* The event loop runs the coroutine on.  Assumed of what is awaited: that a collector
\* answers or its transport times out, and that a call of the model, which the turn
\* runner gives no timeout of its own, returns or raises.
Spec == Init /\ [][Next]_vars /\ WF_vars(Advance)

-----------------------------------------------------------------------------
Returned == pc = "returned"
AuditIntact == noted = {}      \* "audit_intact" of the answer

\* What a verifier turn may answer, and the classes an outcome may name.
VerdictFailures == {"NONE", "MALFORMED_INPUT", "EVIDENCE_MISSING", "EVIDENCE_UNTRUSTED",
                    "EVIDENCE_STALE", "EVIDENCE_INVALID", "EVIDENCE_TAMPERED"}
OutcomeFailures == {"NONE", "RETRY_EXHAUSTED", "CAPABILITY_DENIED", "MODEL_NONCOMPLIANCE",
                    "COLLECTOR_UNAVAILABLE", "AUDIT_UNAVAILABLE"}
Statuses == {"VERIFIED", "ABSTAIN"}
Verdicts == [status : Statuses, failure : VerdictFailures, missing : SUBSET Kinds]
ToolCalls == [mine : BOOLEAN, answered : BOOLEAN, answer : Verdicts, at : Times]
Turns == [calls : Seq(ToolCalls), retries : 0..MaxRetries, failed : BOOLEAN]

TypeOK ==
    /\ pc \in {"start", "open", "plan", "seed", "execute", "claim", "verify", "decide",
               "collect", "settle", "returned", "raised"}
    /\ runner \in Runners
    /\ required \in RequirementLists
    /\ evidence \in Seq(Evidence)
    /\ performed \in 0..(MaxRetries + 1)
    /\ invocations \in 0..MAX_ACTION_INVOCATIONS
    /\ attempt \in 1..MaxAttempts
    /\ turn \in Turns
    /\ decisions \in Seq(Verdicts)
    /\ outcome \in [status : Statuses, failure : OutcomeFailures]
    /\ lost \subseteq NotedEvents \cup RoleEvents
    /\ noted \subseteq lost \cap NotedEvents
    /\ now \in Times

\* An execution that answers VERIFIED has, for each requirement (the first of its
\* kind, as in _verify), evidence an independent collector observed, sound and within
\* its horizon when the tool last answered in the deciding turn, and none as recent
\* that is unsound; whatever the model said, asked before, or asked about other tasks.
\* "Losing the audit trail never creates evidence, so it can only downgrade the
\* outcome" (orchestration.py:143): all the orchestrator journaled before it settled is
\* durable then, and in the deterministic runtime all the roles journaled as well.
EvidencedAt(req, t) ==
    \E i \in Fresh(evidence, req, t) :
       \A j \in Fresh(evidence, req, t) : evidence[j].at >= evidence[i].at => evidence[j].sound

VerifiedIsEvidenced ==
    Returned /\ outcome.status = "VERIFIED" =>
        /\ Usable
        /\ required # << >>
        /\ \A k \in Effective(required) : EvidencedAt(required[k], StandingCall.at)
        /\ noted \subseteq {"COMPLETE"}
        /\ runner = "deterministic" => lost \subseteq {"COMPLETE"}

\* The failure class of an answer says why: exhaustion only after every attempt
\* decided, no collector only when the runtime's health was not in question,
\* noncompliance only of a turn that gave no decision.
OutcomeExplained ==
    Returned =>
        /\ outcome.status = "VERIFIED" <=> outcome.failure = "NONE"
        /\ outcome.failure = "RETRY_EXHAUSTED" => Len(decisions) = MaxAttempts
        /\ outcome.failure = "COLLECTOR_UNAVAILABLE" =>
              "runtime" \notin decisions[Len(decisions)].missing
        /\ outcome.failure = "MODEL_NONCOMPLIANCE" => Len(decisions) = attempt - 1
        /\ outcome.failure = "AUDIT_UNAVAILABLE" => ~ AuditIntact

\* The model may call the action tool as often as it likes and its turn may be
\* retried after the action ran (gemini_runner.py:112-116, 266): the action runs
\* again only when the record of its last run was lost.
ActionAtMostOnce == performed > 1 => "ACTION" \in lost

\* Every execution ends, with an answer or an exception.
Terminates == <>(pc \in {"returned", "raised"})
=============================================================================
