---------------------------- MODULE VerdictProofs ----------------------------
(***************************************************************************)
(* What holds of the verification kernel (Verifier) for any evidence and    *)
(* requirements, and from it of an execution (Execution), for any runners,  *)
(* attempts, retries, tool calls and lost journal entries, and of the        *)
(* evidence ledger (EvidenceLedger), for any grants and recordings; and what  *)
(* holds of the boundary where attestations become evidence (Ingestion), for   *)
(* any requests, collectors, clocks and relays.                                *)
(*                                                                         *)
(* The execution's argument: what the tool answered in a turn is a verdict    *)
(* on the evidence there still is (AnswersStand), each attempt has decided    *)
(* once (AttemptsCounted), and nothing but a decision makes an outcome        *)
(* (OutcomeGrounded).  A verdict is right by SatisfiedIsContract.              *)
(*                                                                         *)
(* The boundary's argument: what the relay cannot do is make a signature.  A   *)
(* signature covers the fields it was made with (SignedWell) and was made for   *)
(* a request of its nonce, evidence and the nonce it spent name one another,    *)
(* and, when the ingestor holds a capability wherever the registry grants a     *)
(* scope, a nonce is spent only by an answer that was recorded                 *)
(* (SpentIsRecorded).                                                          *)
(***************************************************************************)
EXTENDS Execution, EvidenceLedger, Ingestion, WellFoundedInduction, TLAPS

-----------------------------------------------------------------------------
(* The kernel.                                                             *)

\* A non-empty set of naturals has a least element.
LEMMA LeastNatural ==
    ASSUME NEW T, T \subseteq Nat, T # {}
    PROVE  \E x \in T : \A y \in T : x <= y
<1> DEFINE R == OpToRel(<, Nat)
<1>1. IsWellFoundedOn(R, Nat)
  BY NatLessThanWellFounded
<1>2. \A x, y \in Nat : x < y => <<x, y>> \in R
  BY DEF OpToRel
<1> HIDE DEF R
<1>3. PICK x \in T : \A y \in T : ~ (<<y, x>> \in R)
  BY <1>1, WFMin
<1> SUFFICES ASSUME NEW y \in T PROVE x <= y
  BY <1>3
<1>4. ~ (y < x)
  BY <1>2, <1>3
<1> QED
  BY <1>4

\* Of finitely many readings one is the most recent: max() in _evaluate() is
\* defined, on any non-empty selection of positions.
LEMMA MostRecentExists ==
    ASSUME NEW n \in Nat, NEW v \in [1..n -> Int],
           NEW S \in SUBSET (1..n), S # {}
    PROVE  \E i \in S : \A j \in S : v[j] <= v[i]
<1> DEFINE NoMax(T) == T # {} /\ \A i \in T : \E j \in T : v[i] < v[j]
           Bad == {m \in 0..n : \E T \in SUBSET (1..m) : NoMax(T)}
<1>0. /\ \A m \in Bad : m \in 0..n /\ \E T \in SUBSET (1..m) : NoMax(T)
      /\ \A m \in 0..n : m \notin Bad => \A T \in SUBSET (1..m) : ~ NoMax(T)
  OBVIOUS
<1> HIDE DEF Bad
<1>1. Bad = {}
  <2> SUFFICES ASSUME Bad # {} PROVE FALSE
    OBVIOUS
  <2>1. PICK m \in Bad : \A k \in Bad : m <= k
    <3>1. Bad \subseteq Nat
      BY <1>0
    <3> QED
      BY <3>1, LeastNatural
  <2>2. m \in 0..n
    BY <1>0
  <2>3. PICK T \in SUBSET (1..m) : NoMax(T)
    BY <1>0
  <2>4. m # 0
    <3>1. T # {} /\ T \subseteq 1..m
      BY <2>3
    <3>2. ASSUME m = 0 PROVE 1..m = {}
      BY <3>2
    <3> QED
      BY <3>1, <3>2
  <2> DEFINE U == T \ {m}
  <2>5. U \in SUBSET (1..(m - 1)) /\ m - 1 \in 0..n
    BY <2>2, <2>3, <2>4
  <2>6. m - 1 \notin Bad
    BY <2>1, <2>2, <2>5
  <2>7. ~ NoMax(U)
    BY <1>0, <2>5, <2>6, ZenonT(30)
  <2>8. \A i \in T : v[i] \in Int
    BY <2>2, <2>3
  <2>9. U # {}
    <3> SUFFICES ASSUME U = {} PROVE FALSE
      OBVIOUS
    <3>1. \A i \in T : i = m
      OBVIOUS
    <3>2. PICK i \in T : \E j \in T : v[i] < v[j]
      BY <2>3
    <3>3. v[m] < v[m] /\ v[m] \in Int
      BY <2>8, <3>1, <3>2
    <3> QED
      BY <3>3
  <2>10. PICK i \in U : \A j \in U : ~ (v[i] < v[j])
    BY <2>7, <2>9
  <2>11. PICK j \in T : v[i] < v[j]
    BY <2>3, <2>10
  <2>12. j = m
    BY <2>10, <2>11
  <2>13. PICK k \in T : v[m] < v[k]
    BY <2>3, <2>11, <2>12
  <2>14. k # m
    BY <2>8, <2>13, <2>12, <2>11
  <2>15. ~ (v[i] < v[k])
    BY <2>10, <2>13, <2>14
  <2>16. v[i] \in Int /\ v[m] \in Int /\ v[k] \in Int
    BY <2>8, <2>10, <2>11, <2>12, <2>13
  <2>17. v[i] < v[m]
    BY <2>11, <2>12
  <2> HIDE DEF U
  <2> QED
    BY <2>13, <2>15, <2>16, <2>17
<1>2. ~ NoMax(S)
  BY <1>0, <1>1
<1>3. PICK i \in S : \A j \in S : ~ (v[i] < v[j])
  BY <1>2
<1> QED
  BY <1>3

\* Where there is a fresh trusted observation, one governs.
LEMMA GoverningExists ==
    ASSUME NEW items \in Seq(Evidence), NEW req, NEW t, Fresh(items, req, t) # {}
    PROVE  Governing(items, req, t) # {}
<1>. DEFINE n == Len(items)
            v == [i \in 1..n |-> items[i].at]
            F == Fresh(items, req, t)
<1>1. n \in Nat /\ F \in SUBSET (1..n)
  BY DEF Fresh, Trusted, Matching
<1>2. \A i \in 1..n : items[i].at \in Int
  <2>1. \A e \in Evidence : e.at \in Times \cup {Undated}
    BY DEF Evidence
  <2>2. Times \cup {Undated} \subseteq Int
    BY ExecutionAssumption DEF Undated
  <2>3. \A i \in 1..n : items[i] \in Evidence
    OBVIOUS
  <2>. QED  BY <2>1, <2>2, <2>3
<1>3. v \in [1..n -> Int] /\ \A i \in 1..n : v[i] = items[i].at
  BY <1>2
<1>. HIDE DEF n, v, F
<1>4. PICK i \in F : \A j \in F : v[j] <= v[i]
  BY <1>1, <1>3, MostRecentExists DEF F
<1>5. \A j \in F : items[j].at <= items[i].at
  BY <1>1, <1>3, <1>4
<1>. QED  BY <1>4, <1>5 DEF Governing, F

\* A requirement is satisfied iff some fresh trusted observation is sound and
\* every one as recent as it is sound too.
LEMMA SatisfiedIsContract ==
    ASSUME NEW items \in Seq(Evidence), NEW req, NEW t
    PROVE  Satisfied(items, req, t) <=>
             \E i \in Fresh(items, req, t) :
                \A j \in Fresh(items, req, t) :
                   items[j].at >= items[i].at => items[j].sound
<1> DEFINE n == Len(items)
           v == [i \in 1..n |-> items[i].at]
           F == Fresh(items, req, t)
<1>1. n \in Nat /\ F \in SUBSET (1..n)
  BY DEF Fresh, Trusted, Matching
<1>2. \A i \in 1..n : items[i] \in Evidence
  OBVIOUS
<1>3. \A e \in Evidence : e.at \in Int
  <2>1. \A e \in Evidence : e.at \in Times \cup {Undated}
    BY DEF Evidence
  <2>2. Times \cup {Undated} \subseteq Int
    BY ExecutionAssumption DEF Undated
  <2> QED
    BY <2>1, <2>2
<1>4. v \in [1..n -> Int]
  BY <1>2, <1>3
<1>5. \A i \in F : items[i].at \in Int /\ v[i] = items[i].at
  BY <1>1, <1>2, <1>3
<1> HIDE DEF F, n, v
<1>6. ASSUME Satisfied(items, req, t)
      PROVE  \E i \in F : \A j \in F : items[j].at >= items[i].at => items[j].sound
  <2>1. PICK i \in F : \A j \in F : v[j] <= v[i]
    <3>1. F # {}
      BY <1>6 DEF Satisfied, F
    <3> QED
      BY <1>1, <1>4, <3>1, MostRecentExists
  <2>2. ASSUME NEW j \in F, items[j].at >= items[i].at PROVE items[j].sound
    <3>1. \A k \in F : items[k].at <= items[j].at
      BY <1>5, <2>1, <2>2
    <3>2. j \in Governing(items, req, t)
      BY <3>1 DEF Governing, F
    <3> QED
      BY <1>6, <3>2 DEF Satisfied, GoverningSound
  <2> QED
    BY <2>2
<1>7. ASSUME NEW i \in F, \A j \in F : items[j].at >= items[i].at => items[j].sound
      PROVE  Satisfied(items, req, t)
  <2>1. ASSUME NEW j \in Governing(items, req, t) PROVE items[j].sound
    <3>1. j \in F /\ items[i].at <= items[j].at
      BY DEF Governing, F
    <3> QED
      BY <1>5, <1>7, <3>1
  <2> QED
    BY <2>1 DEF Satisfied, GoverningSound, F
<1> QED
  BY <1>6, <1>7 DEF F

\* Each requirement list has requirements that count, unless it is empty.
LEMMA EffectiveExists ==
    ASSUME NEW reqs \in Seq(Requirement)
    PROVE  Effective(reqs) = {} <=> reqs = << >>
<1>1. ASSUME reqs = << >> PROVE Effective(reqs) = {}
  BY <1>1 DEF Effective
<1>2. ASSUME reqs # << >> PROVE 1 \in Effective(reqs)
  BY <1>2 DEF Effective
<1>. QED  BY <1>1, <1>2

\* What verify_completion answers: VERIFIED, with nothing missing and no failure, iff
\* the claim is verified; and else which kinds are, and why.
LEMMA VerdictAnswer ==
    ASSUME NEW claimed \in BOOLEAN, NEW items \in Seq(Evidence),
           NEW reqs \in Seq(Requirement), NEW t
    PROVE  LET v == VerifyCompletion(claimed, items, reqs, t)
           IN  /\ v \in Verdicts
               /\ v.status = "VERIFIED" <=> Verified(claimed, items, reqs, t)
               /\ claimed /\ Verified(TRUE, items, reqs, t) <=> v.missing = {} /\ v.failure = "NONE"
<1>. DEFINE v == VerifyCompletion(claimed, items, reqs, t)
            ns == Unsatisfied(items, reqs, t)
            kinds(ms) == {reqs[n].kind : n \in ms}
            V == Verified(claimed, items, reqs, t)
<1>1. /\ Effective(reqs) \subseteq DOMAIN reqs /\ ns \subseteq DOMAIN reqs
      /\ \A n \in DOMAIN reqs : reqs[n].kind \in Kinds
  <2>1. \A n \in DOMAIN reqs : reqs[n] \in Requirement
    OBVIOUS
  <2>. QED  BY <2>1 DEF Effective, Unsatisfied, Requirement
<1>2. ASSUME NEW failure \in VerdictFailures \ {"NONE"}, NEW missing \in SUBSET Kinds,
             v = Abstain(failure, missing), ~ V
      PROVE  /\ v \in Verdicts /\ v.status # "VERIFIED" /\ v.failure # "NONE"
  <2>. HIDE DEF v
  <2>. QED  BY <1>2 DEF Abstain, Verdicts, Statuses
<1>3. CASE ~ claimed
  <2>1. ~ V /\ v = Abstain("MALFORMED_INPUT", {})
    BY <1>3 DEF VerifyCompletion, Verified
  <2>. HIDE DEF v, V
  <2>2. v \in Verdicts /\ v.status # "VERIFIED" /\ v.failure # "NONE"
    BY <1>2, <2>1 DEF VerdictFailures
  <2>. QED  BY <1>3, <2>1, <2>2 DEF v, V
<1>4. CASE claimed /\ Effective(reqs) = {}
  <2>1. ~ V /\ v = Abstain("EVIDENCE_MISSING", {})
    BY <1>4 DEF VerifyCompletion, Verified
  <2>2. ~ Verified(TRUE, items, reqs, t)
    BY <1>4 DEF Verified
  <2>. HIDE DEF v, V
  <2>3. v \in Verdicts /\ v.status # "VERIFIED" /\ v.failure # "NONE"
    BY <1>2, <2>1 DEF VerdictFailures
  <2>. QED  BY <2>1, <2>2, <2>3 DEF v, V
<1>5. CASE claimed /\ Effective(reqs) # {} /\ ~ AllIntact(items)
  <2>1. ~ V /\ v = Abstain("EVIDENCE_TAMPERED", kinds(Effective(reqs)))
    BY <1>5 DEF VerifyCompletion, Verified
  <2>2. ~ Verified(TRUE, items, reqs, t) /\ kinds(Effective(reqs)) \in SUBSET Kinds
    BY <1>1, <1>5 DEF Verified
  <2>. HIDE DEF v, V, kinds
  <2>3. v \in Verdicts /\ v.status # "VERIFIED" /\ v.failure # "NONE"
    BY <1>2, <2>1, <2>2 DEF VerdictFailures
  <2>. QED  BY <2>1, <2>2, <2>3 DEF v, V
<1>6. CASE claimed /\ V
  <2>1. v = [status |-> "VERIFIED", failure |-> "NONE", missing |-> {}]
    BY <1>6 DEF VerifyCompletion, Verified
  <2>2. Verified(TRUE, items, reqs, t)
    BY <1>6 DEF Verified
  <2>. HIDE DEF v, V
  <2>3. v \in Verdicts /\ v.status = "VERIFIED" /\ v.failure = "NONE" /\ v.missing = {}
    BY <2>1 DEF Verdicts, Statuses, VerdictFailures
  <2>. QED  BY <1>6, <2>2, <2>3 DEF v, V
<1>7. CASE claimed /\ Effective(reqs) # {} /\ AllIntact(items) /\ ~ V
  <2>1. ns # {} /\ ~ Verified(TRUE, items, reqs, t)
    BY <1>7 DEF Verified
  <2>2. v = Abstain(FailureOf(items, reqs, t), kinds(ns))
    BY <1>7 DEF VerifyCompletion
  <2>3. FailureOf(items, reqs, t) \in VerdictFailures \ {"NONE"}
    <3>1. \A n \in ns : EvaluateFailure(items, reqs[n], t) \in VerdictFailures \ {"NONE"}
      BY DEF EvaluateFailure, VerdictFailures, Unsatisfied
    <3>. DEFINE classes == {EvaluateFailure(items, reqs[n], t) : n \in ns}
    <3>2. classes \subseteq VerdictFailures \ {"NONE"}
      BY <3>1
    <3>3. FailureOf(items, reqs, t) = IF \E c \in classes : classes = {c}
                                     THEN CHOOSE c \in classes : TRUE ELSE "EVIDENCE_MISSING"
      BY DEF FailureOf
    <3>. HIDE DEF classes
    <3>. QED  BY <3>2, <3>3 DEF VerdictFailures
  <2>4. kinds(ns) \in SUBSET Kinds /\ kinds(ns) # {}
    BY <1>1, <2>1
  <2>. HIDE DEF v, V, kinds, ns
  <2>5. v \in Verdicts /\ v.status # "VERIFIED" /\ v.failure # "NONE"
    BY <1>2, <1>7, <2>2, <2>3, <2>4
  <2>. QED  BY <1>7, <2>1, <2>5 DEF v, V
<1>. QED  BY <1>3, <1>4, <1>5, <1>6, <1>7 DEF Verified

\* The report on the single items: all requirements are satisfied iff each has
\* an item that satisfies it, what satisfies is accepted, and what is accepted is
\* sound and trusted.
LEMMA ReportProjects ==
    ASSUME NEW items \in Seq(Evidence), NEW reqs \in Seq(Requirement), NEW t
    PROVE  /\ AllIntact(items) =>
                (Unsatisfied(items, reqs, t) = {} <=>
                   \A n \in Effective(reqs) :
                      \E i \in DOMAIN items : /\ items[i].kind = reqs[n].kind
                                              /\ Satisfies(items, reqs, t, i))
           /\ \A i \in DOMAIN items :
                /\ Satisfies(items, reqs, t, i) => Accepted(items, reqs, t, i)
                /\ Accepted(items, reqs, t, i) =>
                      items[i].sound /\ items[i].source \in TRUSTED_SOURCES
<1>1. ASSUME AllIntact(items), Unsatisfied(items, reqs, t) = {}, NEW n \in Effective(reqs)
      PROVE  \E i \in DOMAIN items : /\ items[i].kind = reqs[n].kind
                                     /\ Satisfies(items, reqs, t, i)
  <2>1. Satisfied(items, reqs[n], t)
    BY <1>1 DEF Unsatisfied
  <2>2. PICK i \in Governing(items, reqs[n], t) : TRUE
    BY <2>1, GoverningExists DEF Satisfied
  <2>3. i \in DOMAIN items /\ items[i].kind = reqs[n].kind
    BY <2>2 DEF Governing, Fresh, Trusted, Matching
  <2>. QED  BY <1>1, <2>1, <2>2, <2>3 DEF Satisfies, RequirementsOf
<1>2. ASSUME NEW n \in Effective(reqs), NEW i \in DOMAIN items,
             items[i].kind = reqs[n].kind, Satisfies(items, reqs, t, i)
      PROVE  Satisfied(items, reqs[n], t)
  <2>1. PICK m \in Effective(reqs) : reqs[m].kind = items[i].kind /\ Satisfied(items, reqs[m], t)
    BY <1>2 DEF Satisfies, RequirementsOf
  <2>2. m = n
    BY <1>2, <2>1 DEF Effective
  <2>. QED  BY <2>1, <2>2
<1>3. ASSUME NEW i \in DOMAIN items, Satisfies(items, reqs, t, i)
      PROVE  Accepted(items, reqs, t, i)
  BY <1>3 DEF Satisfies, Accepted, Satisfied, GoverningSound, Governing
<1>4. ASSUME NEW i \in DOMAIN items, Accepted(items, reqs, t, i)
      PROVE  items[i].sound /\ items[i].source \in TRUSTED_SOURCES
  BY <1>4 DEF Accepted, Fresh, Trusted
<1>5. Unsatisfied(items, reqs, t) = {} <=>
        \A n \in Effective(reqs) : Satisfied(items, reqs[n], t)
  BY DEF Unsatisfied
<1>. QED  BY <1>1, <1>2, <1>3, <1>4, <1>5

\* An item that is not OBSERVED is invisible to _evaluate().
LEMMA UntrustedIsInvisible ==
    ASSUME NEW items \in Seq(Evidence), NEW e \in Evidence, e.source # "OBSERVED",
           NEW req, NEW t
    PROVE  /\ Fresh(Append(items, e), req, t) = Fresh(items, req, t)
           /\ Satisfied(Append(items, e), req, t) <=> Satisfied(items, req, t)
<1> DEFINE more == Append(items, e)
<1>1. /\ DOMAIN items \subseteq DOMAIN more
      /\ \A i \in DOMAIN items : more[i] = items[i]
      /\ \A i \in DOMAIN more : i \in DOMAIN items \/ more[i].source # "OBSERVED"
  OBVIOUS
<1> HIDE DEF more
<1>2. Fresh(more, req, t) = Fresh(items, req, t)
  BY <1>1 DEF Fresh, Trusted, Matching, TRUSTED_SOURCES
<1>3. \A i \in Fresh(items, req, t) : more[i] = items[i]
  BY <1>1 DEF Fresh, Trusted, Matching
<1>4. Governing(more, req, t) = Governing(items, req, t)
  BY <1>2, <1>3 DEF Governing
<1>5. \A i \in Governing(items, req, t) : more[i] = items[i]
  BY <1>3 DEF Governing
<1>6. Satisfied(more, req, t) <=> Satisfied(items, req, t)
  BY <1>2, <1>4, <1>5 DEF Satisfied, GoverningSound
<1> QED
  BY <1>2, <1>6 DEF more

\* What a later reading of the clock accepts, an earlier one accepted: the
\* observations that govern later are the ones that governed before.
LEMMA LaterIsStricter ==
    ASSUME NEW items \in Seq(Evidence), NEW req \in Requirement,
           NEW t \in Nat, Satisfied(items, req, t + 1)
    PROVE  Satisfied(items, req, t)
<1>1. /\ \A i \in DOMAIN items : items[i].at \in Nat \cup {-1}
      /\ req.maxAge \in Nat \cup {-1}
  <2>1. \A i \in DOMAIN items : items[i] \in Evidence
    OBVIOUS
  <2>2. \A e \in Evidence : e.at \in Times \cup {Undated}
    BY DEF Evidence
  <2>3. req.maxAge \in Times \cup {NoHorizon}
    BY DEF Requirement
  <2> QED
    BY <2>1, <2>2, <2>3, ExecutionAssumption DEF Undated, NoHorizon
<1>2. Fresh(items, req, t + 1) \subseteq Fresh(items, req, t)
  BY <1>1 DEF Fresh, Trusted, Matching, WithinHorizon, Undated, NoHorizon
<1>3. PICK k \in Fresh(items, req, t + 1) : TRUE
  BY DEF Satisfied
<1>4. ASSUME NEW i \in Governing(items, req, t) PROVE i \in Governing(items, req, t + 1)
  <2>1. /\ i \in Fresh(items, req, t)
        /\ \A j \in Fresh(items, req, t) : items[j].at <= items[i].at
    BY DEF Governing
  <2>2. items[k].at <= items[i].at
    BY <1>2, <1>3, <2>1
  <2>3. i \in DOMAIN items /\ k \in DOMAIN items
    BY <1>3, <2>1 DEF Fresh, Trusted, Matching
  <2>4. i \in Trusted(items, req)
    BY <2>1 DEF Fresh
  <2>5. WithinHorizon(items[k], req, t + 1)
    BY <1>3 DEF Fresh
  <2>6. WithinHorizon(items[i], req, t + 1)
    BY <1>1, <2>2, <2>3, <2>5 DEF WithinHorizon, Undated, NoHorizon
  <2>7. i \in Fresh(items, req, t + 1)
    BY <2>4, <2>6 DEF Fresh
  <2> QED
    BY <1>2, <2>1, <2>7 DEF Governing
<1>5. GoverningSound(items, req, t)
  BY <1>4 DEF GoverningSound, Satisfied
<1> QED
  BY <1>2, <1>3, <1>5 DEF Satisfied

-----------------------------------------------------------------------------
(* The execution.                                                          *)

\* A call of the tool was answered with a verdict on the evidence there still is.
Stands(c) ==
    \E claimed \in BOOLEAN :
        c.answer = IF c.mine THEN VerifyCompletion(claimed, evidence, required, c.at)
                             ELSE Abstain("MALFORMED_INPUT", {})

AnswersStand ==
    /\ pc \in {"start", "open", "plan", "seed", "execute", "claim"} => turn.calls = << >>
    /\ pc \in {"verify", "decide", "settle", "returned"} =>
          \A i \in DOMAIN turn.calls : Stands(turn.calls[i])

\* One decision for each attempt.
AttemptsCounted ==
    /\ pc \notin {"collect", "settle", "returned", "raised"} => Len(decisions) = attempt - 1
    /\ pc = "collect" => Len(decisions) = attempt /\ attempt < MaxAttempts

\* The outcome is undecided until the execution settles; then it says why.
OutcomeGrounded ==
    /\ pc \notin {"settle", "returned"} => outcome = Outcome("ABSTAIN", "RETRY_EXHAUSTED")
    /\ pc \in {"settle", "returned"} =>
          /\ outcome.status = "VERIFIED" <=> outcome.failure = "NONE"
          /\ outcome.status = "VERIFIED" => Usable /\ Decision.status = "VERIFIED"
          /\ outcome.failure = "RETRY_EXHAUSTED" => Len(decisions) = MaxAttempts
          /\ outcome.failure = "COLLECTOR_UNAVAILABLE" =>
                "runtime" \notin decisions[Len(decisions)].missing
          /\ outcome.failure = "MODEL_NONCOMPLIANCE" => Len(decisions) = attempt - 1
          /\ outcome.failure = "AUDIT_UNAVAILABLE" => pc = "returned" /\ noted # {}
    /\ pc = "returned" /\ outcome.status = "VERIFIED" => noted \subseteq {"COMPLETE"}

\* Without a model between them the roles raise what the trail loses.
TrailKnown == runner = "deterministic" /\ pc # "raised" => lost \subseteq noted

\* What the action ran is counted, retried or lost.
ActionsCounted ==
    /\ pc \in {"start", "open", "plan", "seed"} => performed = 0 /\ invocations = 0 /\ turn = NoTurn
    /\ runner = "deterministic" => performed <= 1 /\ (pc = "execute" => performed = 0)
    /\ runner = "gemini" /\ "ACTION" \notin lost => performed = invocations
    /\ runner = "gemini" /\ pc = "execute" =>
          performed <= turn.retries + IF turn.failed \/ invocations = 1 THEN 1 ELSE 0

IInv == TypeOK /\ AnswersStand /\ AttemptsCounted /\ OutcomeGrounded /\ TrailKnown /\ ActionsCounted

-----------------------------------------------------------------------------
\* What note() loses is remembered, and what is remembered was lost.
LEMMA Noting ==
    ASSUME TypeOK, NEW events \in SUBSET NotedEvents, Note(events)
    PROVE  /\ lost' \subseteq NotedEvents \cup RoleEvents /\ noted' \subseteq lost' \cap NotedEvents
           /\ lost \subseteq lost' /\ noted \subseteq noted' /\ noted' \subseteq noted \cup events
           /\ lost \subseteq noted => lost' \subseteq noted'
           /\ \A event \in RoleEvents : event \in lost' <=> event \in lost
BY DEF Note, NoteAfter, TypeOK, NotedEvents, RoleEvents

LEMMA NotNoting ==
    ASSUME TypeOK, NEW event \in RoleEvents, NotRecorded(event)
    PROVE  /\ lost' \subseteq NotedEvents \cup RoleEvents /\ noted' \subseteq lost' \cap NotedEvents
           /\ lost' = lost \cup {event} /\ noted' = noted
BY DEF NotRecorded, TypeOK

\* The call whose answer stands is one that was answered: the last.
LEMMA StandingAnswered ==
    ASSUME TypeOK, Answered # {}
    PROVE  \E i \in Answered : StandingCall = turn.calls[i]
<1>. DEFINE n == Len(turn.calls)
            v == [i \in 1..n |-> i]
<1>1. turn.calls \in Seq(ToolCalls) /\ n \in Nat /\ Answered \in SUBSET (1..n)
  BY DEF TypeOK, Turns, Answered
<1>2. v \in [1..n -> Int]
  OBVIOUS
<1>3. \E i \in Answered : \A j \in Answered : v[j] <= v[i]
  BY <1>1, <1>2, MostRecentExists
<1>4. \E i \in Answered : \A j \in Answered : j <= i
  BY <1>1, <1>3
<1>. QED  BY <1>4 DEF StandingCall

LEMMA DecisionTyped ==
    ASSUME TypeOK, Usable
    PROVE  /\ Decision \in Verdicts /\ Decision = StandingCall.answer
           /\ StandingCall \in ToolCalls /\ StandingCall.mine
           /\ \E i \in DOMAIN turn.calls : StandingCall = turn.calls[i]
<1>1. PICK i \in Answered : StandingCall = turn.calls[i]
  BY StandingAnswered DEF Usable
<1>2. i \in DOMAIN turn.calls /\ turn.calls \in Seq(ToolCalls)
  BY DEF Answered, TypeOK, Turns
<1>3. turn.calls[i] \in ToolCalls /\ turn.calls[i].mine
  BY <1>2 DEF Usable
<1>. QED  BY <1>1, <1>2, <1>3 DEF Decision, ToolCalls

\* Calling the tool: its answer is a verdict, or that the call was of another task.
LEMMA CallTyped ==
    ASSUME TypeOK, NEW mine \in BOOLEAN, NEW claimed \in BOOLEAN, NEW answered \in BOOLEAN
    PROVE  LET c == Call(mine, claimed, answered)
           IN  /\ c \in ToolCalls /\ c.mine = mine /\ c.at = now
               /\ c.answer = IF mine THEN VerifyCompletion(claimed, evidence, required, now)
                                     ELSE Abstain("MALFORMED_INPUT", {})
<1>1. evidence \in Seq(Evidence) /\ required \in Seq(Requirement) /\ now \in Times
  BY ExecutionAssumption DEF TypeOK
<1>2. VerifyCompletion(claimed, evidence, required, now) \in Verdicts
  BY <1>1, VerdictAnswer
<1>3. Abstain("MALFORMED_INPUT", {}) \in Verdicts
  BY DEF Abstain, Verdicts, Statuses, VerdictFailures
<1>4. ToolAnswer(mine, claimed) \in Verdicts
  BY <1>2, <1>3 DEF ToolAnswer
<1>. QED  BY <1>1, <1>4 DEF Call, ToolCalls, ToolAnswer

LEMMA ItemTyped ==
    ASSUME TypeOK, NEW kind \in Kinds, NEW source \in EvidenceSource, NEW sound \in BOOLEAN,
           NEW collector \in Collectors, NEW t \in Times
    PROVE  /\ Item(kind, source, sound, collector) \in Evidence
           /\ [Item(kind, source, sound, collector) EXCEPT !.at = t] \in Evidence
BY DEF Item, Evidence, TypeOK

\* The fields of a turn that are assigned.
LEMMA NoTurnTyped ==
    /\ NoTurn \in Turns /\ NoTurn.calls = << >> /\ NoTurn.retries = 0 /\ NoTurn.failed = FALSE
<1>1. << >> \in Seq(ToolCalls)
  OBVIOUS
<1>. QED  BY <1>1, ExecutionAssumption DEF NoTurn, Turns

LEMMA TurnField ==
    /\ \A t \in Turns, failed \in BOOLEAN : [t EXCEPT !.failed = failed] \in Turns
    /\ \A t \in Turns, retries \in 0..MaxRetries : [t EXCEPT !.retries = retries] \in Turns
    /\ \A t \in Turns, c \in ToolCalls : [t EXCEPT !.calls = Append(t.calls, c)] \in Turns
    /\ \A t \in Turns, c \in ToolCalls : [t EXCEPT !.calls = <<c>>] \in Turns
<1>1. \A c \in ToolCalls :
         <<c>> \in Seq(ToolCalls) /\ \A calls \in Seq(ToolCalls) : Append(calls, c) \in Seq(ToolCalls)
  OBVIOUS
<1>. QED  BY <1>1 DEF Turns

LEMMA Appended ==
    ASSUME NEW S, NEW seq \in Seq(S), NEW e \in S
    PROVE  Append(seq, e) \in Seq(S)
OBVIOUS

-----------------------------------------------------------------------------
(* The types.                                                              *)

LEMMA TypeStep ==
    ASSUME TypeOK, AttemptsCounted, ActionsCounted, Next
    PROVE  TypeOK'
<1>. USE DEF TypeOK, task, talk, fixed
<1>1. CASE Start
  BY <1>1, Noting DEF Start, NotedEvents
<1>2. CASE Open
  BY <1>2 DEF Open, Outcome, Statuses, OutcomeFailures
<1>3. CASE Plan
  BY <1>3, Noting DEF Plan, NotedEvents
<1>4. CASE PlannerRaises
  BY <1>4, NotNoting DEF PlannerRaises, RoleEvents
<1>5. CASE Seed
  <2>1. Item("tests", "OBSERVED", TRUE, "ci") \in Evidence
    BY ItemTyped, ExecutionAssumption DEF EvidenceSource
  <2>2. evidence' \in Seq(Evidence)
    BY <1>5, <2>1, Appended DEF Seed
  <2>. QED  BY <1>5, <2>2, NotNoting DEF Seed, Recorded, RoleEvents
<1>6. CASE ExecuteDirectly
  <2>1. performed' \in 0..(MaxRetries + 1)
    BY <1>6, ExecutionAssumption DEF ExecuteDirectly, ActionsCounted
  <2>. QED  BY <1>6, <2>1, Noting, NotNoting DEF ExecuteDirectly, RoleEvents, NotedEvents
<1>7. CASE ModelActs
  <2>1. performed' \in 0..(MaxRetries + 1) /\ invocations' \in 0..MAX_ACTION_INVOCATIONS
    BY <1>7, ExecutionAssumption DEF ModelActs, ActionsCounted, MAX_ACTION_INVOCATIONS, Turns
  <2>2. turn' \in Turns
    <3>1. ASSUME turn.retries < MaxRetries PROVE turn.retries + 1 \in 0..MaxRetries
      BY <3>1, ExecutionAssumption DEF Turns
    <3>. QED  BY <1>7, <3>1, TurnField, ZenonT(30) DEF ModelActs
  <2>. QED  BY <1>7, <2>1, <2>2, NotNoting DEF ModelActs, Recorded, RoleEvents
<1>8. CASE ExecutorStops
  BY <1>8, Noting, NoTurnTyped DEF ExecutorStops, NotedEvents
<1>9. CASE ModelRetries
  <2>1. turn' \in Turns
    <3>1. turn.retries + 1 \in 0..MaxRetries
      BY <1>9, ExecutionAssumption DEF Turns, ModelRetries
    <3>. QED  BY <1>9, <3>1, NoTurnTyped, TurnField DEF ModelRetries
  <2>. QED  BY <1>9, <2>1 DEF ModelRetries
<1>10. CASE Claim
  <2>1. Item("runtime", "EXECUTOR", TRUE, "executor") \in Evidence
    BY ItemTyped, ExecutionAssumption DEF EvidenceSource
  <2>2. evidence' \in Seq(Evidence)
    BY <1>10, <2>1, Appended DEF Claim
  <2>. QED  BY <1>10, <2>2, NotNoting DEF Claim, Recorded, RoleEvents
<1>11. CASE VerifyDirectly
  <2>1. Call(TRUE, TRUE, TRUE) \in ToolCalls
    BY CallTyped
  <2>2. turn' \in Turns
    BY <1>11, <2>1, NoTurnTyped, TurnField DEF VerifyDirectly
  <2>. QED  BY <1>11, <2>2, Noting DEF VerifyDirectly, NotedEvents
<1>12. CASE ModelCalls
  <2>1. PICK mine, claimed, answered \in BOOLEAN :
           turn' = [turn EXCEPT !.calls = Append(turn.calls, Call(mine, claimed, answered))]
    BY <1>12 DEF ModelCalls
  <2>2. Call(mine, claimed, answered) \in ToolCalls
    BY CallTyped
  <2>3. turn' \in Turns
    BY <2>1, <2>2, TurnField
  <2>. QED  BY <1>12, <2>3 DEF ModelCalls
<1>13. CASE ModelStops
  BY <1>13, Noting, TurnField DEF ModelStops, NotedEvents
<1>14. CASE Noncompliance
  BY <1>14, Noting DEF Noncompliance, Outcome, Statuses, OutcomeFailures, NotedEvents
<1>15. ASSUME Decide PROVE decisions' \in Seq(Verdicts)
  BY <1>15, DecisionTyped DEF Decide
<1>16. CASE AcceptVerdict
  BY <1>15, <1>16, Noting DEF AcceptVerdict, Outcome, Statuses, OutcomeFailures, NotedEvents
<1>17. CASE GiveUp
  <2>1. outcome' \in [status : Statuses, failure : OutcomeFailures]
    BY <1>17 DEF GiveUp, OutcomeFailures
  <2>2. decisions' \in Seq(Verdicts)
    BY <1>15, <1>17 DEF GiveUp
  <2>. QED  BY <1>17, <2>1, <2>2, Noting DEF GiveUp, NotedEvents
<1>18. CASE RequestCollection
  BY <1>15, <1>18, Noting DEF RequestCollection, NotedEvents
<1>19. CASE Collect
  <2>1. evidence' \in Seq(Evidence)
    <3>1. ASSUME NEW ok \in BOOLEAN, NEW t \in Times
          PROVE  [Item("runtime", "OBSERVED", ok, "probe") EXCEPT !.at = t] \in Evidence
      BY ItemTyped, ExecutionAssumption DEF EvidenceSource
    <3>2. \/ evidence' = evidence
          \/ \E e \in Evidence : evidence' = Append(evidence, e)
      BY <1>19, <3>1 DEF Collect, Observation
    <3>. QED  BY <3>2, Appended, SMTT(30)
  <2>2. attempt' \in 1..MaxAttempts
    BY <1>19, ExecutionAssumption DEF Collect, AttemptsCounted
  <2>. QED  BY <1>19, <2>1, <2>2, NotNoting, NoTurnTyped DEF Collect, Recorded, RoleEvents
<1>20. CASE Settle
  BY <1>20, Noting DEF Settle, Outcome, Statuses, OutcomeFailures, NotedEvents
<1>21. CASE Tick
  BY <1>21 DEF Tick
<1>. QED  BY <1>1, <1>2, <1>3, <1>4, <1>5, <1>6, <1>7, <1>8, <1>9, <1>10, <1>11, <1>12, <1>13,
             <1>14, <1>16, <1>17, <1>18, <1>19, <1>20, <1>21 DEF Next, Advance

-----------------------------------------------------------------------------
(* The other parts of the invariant, step by step.                          *)

LEMMA AnswersStep ==
    ASSUME TypeOK, AnswersStand, Next
    PROVE  AnswersStand'
<1>. USE DEF task, talk, fixed
<1>1. CASE Start \/ Open \/ Plan \/ PlannerRaises \/ Tick
  BY <1>1 DEF Start, Open, Plan, PlannerRaises, Tick, AnswersStand, Stands, TypeOK
<1>2. CASE Seed \/ ExecuteDirectly
  BY <1>2 DEF Seed, ExecuteDirectly, AnswersStand
<1>3. CASE ModelActs
  <2>1. turn'.calls = turn.calls /\ pc' = pc /\ pc = "execute"
    BY <1>3 DEF ModelActs, TypeOK, Turns
  <2>. QED  BY <2>1 DEF AnswersStand
<1>4. CASE ExecutorStops
  BY <1>4, NoTurnTyped DEF ExecutorStops, AnswersStand
<1>5. CASE ModelRetries
  <2>1. turn'.calls = << >>
    BY <1>5, NoTurnTyped DEF ModelRetries, Turns
  <2>. QED  BY <2>1 DEF AnswersStand
<1>6. CASE Claim
  BY <1>6 DEF Claim, AnswersStand
<1>7. CASE VerifyDirectly
  <2>1. turn'.calls = <<Call(TRUE, TRUE, TRUE)>> /\ UNCHANGED <<evidence, required>>
    BY <1>7, NoTurnTyped DEF VerifyDirectly, Turns
  <2>2. Stands(Call(TRUE, TRUE, TRUE))
    <3>1. ASSUME NEW yes \in BOOLEAN, yes = TRUE
          PROVE  Stands(Call(yes, yes, yes))
      BY CallTyped DEF Stands
    <3>. QED  BY <3>1, Zenon
  <2>3. PICK c : c = Call(TRUE, TRUE, TRUE)
    OBVIOUS
  <2>4. turn'.calls = <<c>> /\ Stands(c)
    BY <2>1, <2>2, <2>3, Zenon
  <2>5. \A i \in DOMAIN turn'.calls : turn'.calls[i] = c
    BY <2>4
  <2>6. evidence' = evidence /\ required' = required
    BY <2>1
  <2>7. \A i \in DOMAIN turn'.calls : Stands(turn.calls[i])'
    BY <2>4, <2>5, <2>6 DEF Stands
  <2>. QED  BY <1>7, <2>7 DEF VerifyDirectly, AnswersStand
<1>8. CASE ModelCalls
  <2>1. PICK mine, claimed, answered \in BOOLEAN :
           turn' = [turn EXCEPT !.calls = Append(turn.calls, Call(mine, claimed, answered))]
    BY <1>8 DEF ModelCalls
  <2>2. PICK c \in ToolCalls : c = Call(mine, claimed, answered) /\ Stands(c)
    BY CallTyped DEF Stands
  <2>3. turn'.calls = Append(turn.calls, c) /\ turn.calls \in Seq(ToolCalls)
    BY <2>1, <2>2 DEF TypeOK, Turns
  <2>4. \A i \in DOMAIN turn'.calls :
           turn'.calls[i] = c \/ (i \in DOMAIN turn.calls /\ turn'.calls[i] = turn.calls[i])
    BY <2>3
  <2>5. UNCHANGED <<evidence, required>> /\ pc = "verify" /\ pc' = "verify"
    BY <1>8 DEF ModelCalls
  <2>6. \A i \in DOMAIN turn'.calls : Stands(turn.calls[i])'
    BY <2>2, <2>4, <2>5 DEF Stands, AnswersStand
  <2>. QED  BY <2>5, <2>6 DEF AnswersStand
<1>9. CASE ModelStops
  <2>1. turn'.calls = turn.calls /\ UNCHANGED <<evidence, required>>
    BY <1>9 DEF ModelStops, TypeOK, Turns
  <2>. QED  BY <1>9, <2>1 DEF ModelStops, AnswersStand, Stands
<1>10. CASE Noncompliance \/ AcceptVerdict \/ GiveUp \/ Settle
  <2>1. /\ UNCHANGED <<turn, evidence, required>>
        /\ pc \in {"decide", "settle"} /\ pc' \in {"settle", "returned"}
    BY <1>10 DEF Noncompliance, AcceptVerdict, GiveUp, Settle, Decide
  <2>. QED  BY <2>1 DEF AnswersStand, Stands
<1>11. CASE RequestCollection
  BY <1>11 DEF RequestCollection, AnswersStand
<1>12. CASE Collect
  <2>1. pc' = "raised" \/ (pc' = "verify" /\ turn'.calls = << >>)
    BY <1>12, NoTurnTyped DEF Collect
  <2>. QED  BY <2>1 DEF AnswersStand
<1>. QED  BY <1>1, <1>2, <1>3, <1>4, <1>5, <1>6, <1>7, <1>8, <1>9, <1>10, <1>11, <1>12
          DEF Next, Advance

LEMMA AttemptsStep ==
    ASSUME TypeOK, AttemptsCounted, Next
    PROVE  AttemptsCounted'
<1>. USE DEF AttemptsCounted, task, talk, fixed
<1>0. /\ decisions \in Seq(Verdicts) /\ Len(decisions) \in Nat /\ attempt \in Nat
      /\ MaxAttempts \in Nat /\ attempt <= MaxAttempts
  BY ExecutionAssumption DEF TypeOK
<1>1. CASE Start \/ Open \/ Plan \/ PlannerRaises \/ Seed \/ Tick
  BY <1>1 DEF Start, Open, Plan, PlannerRaises, Seed, Tick
<1>2. CASE ExecuteDirectly \/ ModelActs \/ ExecutorStops \/ ModelRetries \/ Claim
  BY <1>2 DEF ExecuteDirectly, ModelActs, ExecutorStops, ModelRetries, Claim
<1>3. CASE VerifyDirectly \/ ModelCalls \/ ModelStops
  BY <1>3 DEF VerifyDirectly, ModelCalls, ModelStops
<1>4. CASE Noncompliance \/ AcceptVerdict \/ GiveUp \/ Settle
  BY <1>4 DEF Noncompliance, AcceptVerdict, GiveUp, Settle
<1>5. CASE RequestCollection
  <2>1. Len(decisions') = Len(decisions) + 1
    BY <1>0, <1>5, DecisionTyped DEF RequestCollection, Decide
  <2>. QED  BY <1>0, <1>5, <2>1 DEF RequestCollection, Decide
<1>6. CASE Collect
  BY <1>0, <1>6 DEF Collect
<1>. QED  BY <1>1, <1>2, <1>3, <1>4, <1>5, <1>6 DEF Next, Advance

LEMMA TrailStep ==
    ASSUME TypeOK, TrailKnown, Next
    PROVE  TrailKnown'
<1>. USE DEF TrailKnown, task, talk, fixed, NotedEvents
<1>1. CASE Start \/ Plan \/ ExecutorStops \/ VerifyDirectly \/ ModelStops \/ Settle
  BY <1>1, Noting DEF Start, Plan, ExecutorStops, VerifyDirectly, ModelStops, Settle
<1>2. CASE Noncompliance \/ AcceptVerdict \/ GiveUp \/ RequestCollection
  BY <1>2, Noting DEF Noncompliance, AcceptVerdict, GiveUp, RequestCollection, Decide
<1>3. CASE Open \/ ModelRetries \/ ModelCalls \/ Tick
  BY <1>3 DEF Open, ModelRetries, ModelCalls, Tick
<1>4. CASE PlannerRaises \/ Seed \/ Claim \/ Collect
  BY <1>4 DEF PlannerRaises, Seed, Claim, Collect, Recorded
<1>5. CASE ExecuteDirectly
  BY <1>5, Noting DEF ExecuteDirectly
<1>6. CASE ModelActs
  BY <1>6 DEF ModelActs
<1>. QED  BY <1>1, <1>2, <1>3, <1>4, <1>5, <1>6 DEF Next, Advance

LEMMA ActionsStep ==
    ASSUME TypeOK, ActionsCounted, Next
    PROVE  ActionsCounted'
<1>. USE DEF ActionsCounted, task, talk, fixed
<1>0. /\ performed \in Nat /\ invocations \in 0..1 /\ turn.retries \in Nat /\ turn.failed \in BOOLEAN
      /\ runner \in {"deterministic", "gemini"} /\ turn \in Turns
  BY ExecutionAssumption DEF TypeOK, Turns, MAX_ACTION_INVOCATIONS
<1>1. "ACTION" \in RoleEvents
  BY DEF RoleEvents
<1>2. CASE Start \/ Plan
  <2>1. "ACTION" \in lost' <=> "ACTION" \in lost
    BY <1>1, <1>2, Noting DEF Start, Plan, NotedEvents
  <2>. QED  BY <1>2, <2>1 DEF Start, Plan
<1>3. CASE Open \/ Tick
  BY <1>3 DEF Open, Tick
<1>4. CASE PlannerRaises \/ Seed \/ Claim \/ Collect
  <2>1. lost \subseteq lost' /\ UNCHANGED <<runner, performed, invocations>>
    BY <1>4 DEF PlannerRaises, Seed, Claim, Collect, Recorded, NotRecorded
  <2>2. pc' = "execute" => pc = "seed" /\ UNCHANGED turn
    BY <1>4 DEF PlannerRaises, Seed, Claim, Collect
  <2>3. pc' \notin {"start", "open", "plan", "seed"}
    BY <1>4 DEF PlannerRaises, Seed, Claim, Collect
  <2>. QED  BY <1>0, <2>1, <2>2, <2>3
<1>5. CASE ExecuteDirectly
  BY <1>0, <1>5 DEF ExecuteDirectly
<1>6. CASE ModelActs
  <2>1. CASE Recorded /\ invocations' = invocations + 1 /\ UNCHANGED turn
    BY <1>0, <1>6, <2>1 DEF ModelActs, Recorded, MAX_ACTION_INVOCATIONS
  <2>2. CASE /\ NotRecorded("ACTION") /\ UNCHANGED invocations
             /\ \/ turn' = [turn EXCEPT !.failed = TRUE]
                \/ turn.retries < MaxRetries /\ turn' = [turn EXCEPT !.retries = @ + 1]
    <3>1. "ACTION" \in lost'
      BY <2>2 DEF NotRecorded
    <3>2. \/ turn'.failed = TRUE /\ turn'.retries = turn.retries
          \/ turn'.failed = turn.failed /\ turn'.retries = turn.retries + 1
      BY <1>0, <2>2 DEF Turns
    <3>. QED  BY <1>0, <1>6, <2>2, <3>1, <3>2 DEF ModelActs, MAX_ACTION_INVOCATIONS
  <2>. QED  BY <1>6, <2>1, <2>2 DEF ModelActs
<1>7. CASE ModelRetries
  <2>1. turn'.retries = turn.retries + 1 /\ turn'.failed = FALSE /\ turn.failed = FALSE
    BY <1>0, <1>7, NoTurnTyped DEF ModelRetries, Turns
  <2>. QED  BY <1>0, <1>7, <2>1 DEF ModelRetries
<1>8. CASE ExecutorStops \/ VerifyDirectly \/ ModelStops \/ Settle
           \/ Noncompliance \/ AcceptVerdict \/ GiveUp \/ RequestCollection
  <2>1. "ACTION" \in lost' <=> "ACTION" \in lost
    BY <1>1, <1>8, Noting DEF ExecutorStops, VerifyDirectly, ModelStops, Settle, NotedEvents,
       Noncompliance, AcceptVerdict, GiveUp, RequestCollection
  <2>2. /\ UNCHANGED <<runner, performed, invocations>>
        /\ pc' \in {"claim", "decide", "returned", "settle", "collect"}
    BY <1>8 DEF ExecutorStops, VerifyDirectly, ModelStops, Settle,
       Noncompliance, AcceptVerdict, GiveUp, RequestCollection, Decide
  <2>. QED  BY <1>0, <2>1, <2>2
<1>9. CASE ModelCalls
  BY <1>9 DEF ModelCalls
<1>. QED  BY <1>2, <1>3, <1>4, <1>5, <1>6, <1>7, <1>8, <1>9 DEF Next, Advance

LEMMA OutcomeStep ==
    ASSUME TypeOK, AttemptsCounted, OutcomeGrounded, Next
    PROVE  OutcomeGrounded'
<1>. USE DEF OutcomeGrounded, task, talk, fixed
<1>0. /\ decisions \in Seq(Verdicts) /\ Len(decisions) \in Nat
      /\ outcome \in [status : Statuses, failure : OutcomeFailures]
      /\ noted \subseteq NotedEvents
  BY DEF TypeOK
<1>1. CASE Start \/ Plan \/ PlannerRaises \/ Seed \/ Tick
  BY <1>1 DEF Start, Plan, PlannerRaises, Seed, Tick, Usable, Decision, StandingCall, Answered
<1>2. CASE Open
  BY <1>2 DEF Open, Outcome
<1>3. CASE ExecuteDirectly \/ ModelActs \/ ExecutorStops \/ ModelRetries \/ Claim
  BY <1>3 DEF ExecuteDirectly, ModelActs, ExecutorStops, ModelRetries, Claim
<1>4. CASE VerifyDirectly \/ ModelCalls \/ ModelStops \/ RequestCollection \/ Collect
  BY <1>4 DEF VerifyDirectly, ModelCalls, ModelStops, RequestCollection, Collect, Decide
<1>5. CASE Noncompliance
  BY <1>0, <1>5 DEF Noncompliance, Outcome, AttemptsCounted
<1>6. CASE AcceptVerdict
  <2>1. Usable' /\ Decision'.status = "VERIFIED"
    BY <1>6 DEF AcceptVerdict, Decide, Usable, Decision, StandingCall, Answered
  <2>. QED  BY <1>6, <2>1 DEF AcceptVerdict, Outcome
<1>7. CASE GiveUp
  <2>1. /\ Len(decisions') = attempt /\ decisions'[Len(decisions')] = Decision
    BY <1>0, <1>7, DecisionTyped DEF GiveUp, Decide, AttemptsCounted, TypeOK
  <2>2. /\ outcome'.status = "ABSTAIN"
        /\ outcome'.failure = IF attempt = MaxAttempts
                              THEN "RETRY_EXHAUSTED" ELSE "COLLECTOR_UNAVAILABLE"
    BY <1>7 DEF GiveUp, Decide, Outcome
  <2>. QED  BY <1>7, <2>1, <2>2 DEF GiveUp
<1>8. CASE Settle
  <2>1. /\ UNCHANGED <<turn, decisions, attempt, evidence, required>> /\ pc' = "returned"
        /\ pc = "settle" /\ noted \subseteq noted' /\ noted' \subseteq noted \cup {"COMPLETE"}
    BY <1>8, Noting DEF Settle, NotedEvents
  <2>2. CASE noted # {}
    BY <1>8, <2>1, <2>2 DEF Settle, Outcome
  <2>3. CASE noted = {}
    <3>1. outcome' = outcome
      BY <1>8, <2>3 DEF Settle
    <3>2. outcome.status = "VERIFIED" => Usable' /\ Decision'.status = "VERIFIED"
      BY <2>1 DEF Usable, Decision, StandingCall, Answered
    <3>. QED  BY <2>1, <2>3, <3>1, <3>2
  <2>. QED  BY <2>2, <2>3
<1>. QED  BY <1>1, <1>2, <1>3, <1>4, <1>5, <1>6, <1>7, <1>8 DEF Next, Advance

LEMMA InitIInv == Init => IInv
<1>. SUFFICES ASSUME Init PROVE IInv
  OBVIOUS
<1>1. TypeOK
  BY ExecutionAssumption, NoTurnTyped
  DEF Init, TypeOK, MAX_ACTION_INVOCATIONS, Outcome, Statuses, OutcomeFailures
<1>2. AnswersStand /\ AttemptsCounted /\ OutcomeGrounded /\ TrailKnown /\ ActionsCounted
  BY NoTurnTyped DEF Init, AnswersStand, AttemptsCounted, OutcomeGrounded, TrailKnown, ActionsCounted
<1>. QED  BY <1>1, <1>2 DEF IInv

LEMMA Preserved == IInv /\ [Next]_vars => IInv'
<1>1. CASE Next
  BY <1>1, TypeStep, AnswersStep, AttemptsStep, OutcomeStep, TrailStep, ActionsStep DEF IInv
<1>2. CASE UNCHANGED vars
  BY <1>2 DEF vars, IInv, TypeOK, AnswersStand, Stands, AttemptsCounted, OutcomeGrounded, TrailKnown,
              ActionsCounted, Usable, Decision, StandingCall, Answered
<1>. QED  BY <1>1, <1>2

-----------------------------------------------------------------------------
\* Every variable of an execution keeps its type, its counts their bounds.
THEOREM TypeCorrect == Spec => []TypeOK
<1>1. IInv => TypeOK
  BY DEF IInv
<1>. QED  BY InitIInv, Preserved, <1>1, PTL DEF Spec

\* run_agent_execution() answers VERIFIED only on evidence: each requirement had a sound
\* observation, and none as recent was unsound, when the tool last answered; and what the
\* orchestrator journaled until then is durable.
THEOREM NoVerdictWithoutEvidence == Spec => []VerifiedIsEvidenced
<1>1. IInv => VerifiedIsEvidenced
  <2>. SUFFICES ASSUME IInv, Returned, outcome.status = "VERIFIED"
               PROVE  /\ Usable /\ required # << >>
                      /\ \A k \in Effective(required) : EvidencedAt(required[k], StandingCall.at)
                      /\ noted \subseteq {"COMPLETE"}
                      /\ runner = "deterministic" => lost \subseteq {"COMPLETE"}
    BY DEF VerifiedIsEvidenced
  <2>1. /\ Usable /\ Decision.status = "VERIFIED" /\ noted \subseteq {"COMPLETE"}
        /\ runner = "deterministic" => lost \subseteq noted
    BY DEF IInv, OutcomeGrounded, TrailKnown, Returned
  <2>2. evidence \in Seq(Evidence) /\ required \in Seq(Requirement)
    BY ExecutionAssumption DEF IInv, TypeOK
  <2>3. Decision = StandingCall.answer /\ StandingCall.mine /\ Stands(StandingCall)
    BY <2>1, DecisionTyped DEF IInv, AnswersStand, Returned
  <2>4. PICK claimed \in BOOLEAN :
           Decision = VerifyCompletion(claimed, evidence, required, StandingCall.at)
    BY <2>3 DEF Stands
  <2>5. Verified(claimed, evidence, required, StandingCall.at)
    BY <2>1, <2>2, <2>4, VerdictAnswer
  <2>6. /\ required # << >>
        /\ \A k \in Effective(required) : Satisfied(evidence, required[k], StandingCall.at)
    BY <2>2, <2>5, EffectiveExists DEF Verified, Unsatisfied
  <2>7. \A k \in Effective(required) : EvidencedAt(required[k], StandingCall.at)
    BY <2>2, <2>6, SatisfiedIsContract DEF EvidencedAt
  <2>. QED  BY <2>1, <2>6, <2>7
<1>. QED  BY InitIInv, Preserved, <1>1, PTL DEF Spec

\* The failure class of an answer is the reason the execution ended as it did.
THEOREM AnswersSayWhy == Spec => []OutcomeExplained
<1>1. IInv => OutcomeExplained
  BY DEF IInv, OutcomeGrounded, OutcomeExplained, Returned, AuditIntact
<1>. QED  BY InitIInv, Preserved, <1>1, PTL DEF Spec

\* However often the model calls the tool and its turn is retried, the executor's action
\* runs again only when the record of a run was lost.
THEOREM ActionRunsOnce == Spec => []ActionAtMostOnce
<1>1. IInv => ActionAtMostOnce
  <2>. SUFFICES ASSUME IInv, performed > 1, "ACTION" \notin lost PROVE FALSE
    BY DEF ActionAtMostOnce
  <2>1. runner \in {"deterministic", "gemini"} /\ invocations \in 0..1
    BY ExecutionAssumption DEF IInv, TypeOK, MAX_ACTION_INVOCATIONS
  <2>. QED  BY <2>1 DEF IInv, ActionsCounted, TypeOK
<1>. QED  BY InitIInv, Preserved, <1>1, PTL DEF Spec

-----------------------------------------------------------------------------
(* The ledger.                                                             *)

\* What is recorded is evidence, and tasks are opened with requirements.
LEMMA LedgerConstants ==
    /\ Times \subseteq Nat
           /\ Recordable \subseteq Evidence
           /\ RequirementLists \subseteq Seq(Requirement)
BY ExecutionAssumption, RecordableAssumption

LEMMA LedgerTypes ==
    ASSUME LedgerTypeOK
    PROVE  /\ evidence \in Seq(Evidence) /\ required \in Seq(Requirement)
           /\ now \in Nat
<1>1. << >> \in Seq(Requirement)
  OBVIOUS
<1>. QED  BY <1>1, LedgerConstants DEF LedgerTypeOK

\* Types: the ledger holds evidence, requirements and grants of the wiring.
THEOREM LedgerTypeCorrect == LedgerSpec => []LedgerTypeOK
<1>1. LedgerInit => LedgerTypeOK
  <2>1. << >> \in Seq(Evidence)
    OBVIOUS
  <2> QED
    BY <2>1 DEF LedgerInit, LedgerTypeOK
<1>2. LedgerTypeOK /\ [LedgerNext]_ledgerVars => LedgerTypeOK'
  <2> SUFFICES ASSUME LedgerTypeOK, [LedgerNext]_ledgerVars PROVE LedgerTypeOK'
    OBVIOUS
  <2> USE DEF LedgerTypeOK
  <2>1. CASE \E g \in Grantable : GrantObservation(g)
    BY <2>1 DEF GrantObservation
  <2>2. CASE Seal
    BY <2>2 DEF Seal
  <2>3. CASE \E reqs \in RequirementLists : OpenTask(reqs)
    BY <2>3 DEF OpenTask
  <2>4. CASE \E e \in Recordable : RecordObservation(e)
    BY <2>4, LedgerConstants DEF RecordObservation, RecordItem
  <2>5. CASE \E e \in Recordable : RecordClaim(e)
    BY <2>5, LedgerConstants DEF RecordClaim, RecordItem
  <2>6. CASE LedgerTick
    BY <2>6 DEF LedgerTick
  <2>7. CASE UNCHANGED ledgerVars
    BY <2>7 DEF ledgerVars
  <2> QED
    BY <2>1, <2>2, <2>3, <2>4, <2>5, <2>6, <2>7 DEF LedgerNext
<1> QED
  BY <1>1, <1>2, PTL DEF LedgerSpec

\* Authority: every OBSERVED item of the ledger was written by an identity the
\* wiring had granted its kind (_check_grant), whatever grants are presented.
THEOREM ObservationsAreGranted == LedgerSpec => []ObservedUnderGrant
<1>1. LedgerInit => ObservedUnderGrant
  BY DEF LedgerInit, ObservedUnderGrant
<1>2. LedgerTypeOK /\ ObservedUnderGrant /\ [LedgerNext]_ledgerVars => ObservedUnderGrant'
  <2> SUFFICES ASSUME LedgerTypeOK, ObservedUnderGrant, [LedgerNext]_ledgerVars
               PROVE ObservedUnderGrant'
    OBVIOUS
  <2>1. CASE \E g \in Grantable : GrantObservation(g)
    BY <2>1 DEF GrantObservation, ObservedUnderGrant
  <2>2. CASE Seal
    BY <2>2 DEF Seal, ObservedUnderGrant
  <2>3. CASE \E reqs \in RequirementLists : OpenTask(reqs)
    BY <2>3 DEF OpenTask, ObservedUnderGrant
  <2>4. CASE \E e \in Recordable : RecordObservation(e)
    <3>1. PICK e \in Recordable : RecordObservation(e)
      BY <2>4
    <3>2. PICK g \in grants : e.kind \in g.kinds /\ e.collector = g.collector
      BY <3>1 DEF RecordObservation, Presented, GrantCovers
    <3>3. evidence' = Append(evidence, e) /\ grants' = grants
      BY <3>1 DEF RecordObservation, RecordItem
    <3>4. evidence \in Seq(Evidence)
      BY LedgerTypes
    <3>5. \A i \in DOMAIN evidence' : \/ i \in DOMAIN evidence /\ evidence'[i] = evidence[i]
                                      \/ evidence'[i] = e
      BY <3>3, <3>4
    <3> QED
      BY <3>2, <3>3, <3>5 DEF ObservedUnderGrant
  <2>5. CASE \E e \in Recordable : RecordClaim(e)
    <3>1. PICK e \in Recordable : RecordClaim(e)
      BY <2>5
    <3>2. evidence' = Append(evidence, e) /\ grants' = grants /\ e.source # "OBSERVED"
      BY <3>1 DEF RecordClaim, RecordItem
    <3>3. evidence \in Seq(Evidence)
      BY LedgerTypes
    <3>4. \A i \in DOMAIN evidence' : \/ i \in DOMAIN evidence /\ evidence'[i] = evidence[i]
                                      \/ evidence'[i] = e
      BY <3>2, <3>3
    <3> QED
      BY <3>2, <3>4 DEF ObservedUnderGrant
  <2>6. CASE LedgerTick
    BY <2>6 DEF LedgerTick, ObservedUnderGrant
  <2>7. CASE UNCHANGED ledgerVars
    BY <2>7 DEF ledgerVars, ObservedUnderGrant
  <2> QED
    BY <2>1, <2>2, <2>3, <2>4, <2>5, <2>6, <2>7 DEF LedgerNext
<1> QED
  BY <1>1, <1>2, LedgerTypeCorrect, PTL DEF LedgerSpec

\* The verdict: verify_completion answers VERIFIED exactly when the documented
\* contract holds, and otherwise abstains naming a failure or what is missing.
THEOREM VerdictMeetsContract == LedgerSpec => []VerdictIsContract
<1>1. LedgerTypeOK => VerdictIsContract
  <2>. SUFFICES ASSUME LedgerTypeOK PROVE VerdictIsContract
    OBVIOUS
  <2>. DEFINE V == Verified(TRUE, evidence, required, now)
              v == VerifyCompletion(TRUE, evidence, required, now)
  <2>1. evidence \in Seq(Evidence) /\ required \in Seq(Requirement)
    BY LedgerTypes
  <2>2. V <=> Contract
    BY <2>1, EffectiveExists, SatisfiedIsContract
       DEF Contract, Verified, Unsatisfied, AllIntact
  <2>3. (v.status = "VERIFIED" <=> V) /\ (V <=> v.missing = {} /\ v.failure = "NONE")
    BY <2>1, VerdictAnswer
  <2>. HIDE DEF v, V
  <2>. QED  BY <2>2, <2>3 DEF VerdictIsContract, Verdict, v, V
<1>. QED  BY <1>1, LedgerTypeCorrect, PTL

\* The report: a task is VERIFIED iff each requirement has an item reported as
\* satisfying it, and nothing unsound or self-reported is reported as accepted.
THEOREM ReportIsOfTheVerdict == LedgerSpec => []AssessmentsAgree
<1>1. LedgerTypeOK => AssessmentsAgree
  <2>. SUFFICES ASSUME LedgerTypeOK PROVE AssessmentsAgree
    OBVIOUS
  <2>1. evidence \in Seq(Evidence) /\ required \in Seq(Requirement)
    BY LedgerTypes
  <2>2. required # << >> /\ AllIntact(evidence) =>
           (Verified(TRUE, evidence, required, now)
              <=> Unsatisfied(evidence, required, now) = {})
    BY <2>1, EffectiveExists DEF Verified
  <2>. QED  BY <2>1, <2>2, ReportProjects DEF AssessmentsAgree, Verdict
<1>. QED  BY <1>1, LedgerTypeCorrect, PTL

\* Self-reports: recording evidence that was not observed never turns the
\* verdict of verify_completion to VERIFIED.
THEOREM SelfReportsNeverHelp == LedgerSpec => SelfReportNeverHelps
<1> DEFINE Step == Len(evidence') = Len(evidence) + 1
                   /\ evidence'[Len(evidence')].source # "OBSERVED"
                   => (Verdict' => Verdict)
<1>1. LedgerTypeOK /\ [LedgerNext]_ledgerVars => [Step]_ledgerVars
  <2> SUFFICES ASSUME LedgerTypeOK, LedgerNext,
                      Len(evidence') = Len(evidence) + 1,
                      evidence'[Len(evidence')].source # "OBSERVED",
                      Verdict'
               PROVE  Verdict
    OBVIOUS
  <2>0. Verified(TRUE, evidence', required', now')
    BY DEF Verdict
  <2>1. evidence \in Seq(Evidence) /\ Len(evidence) \in Nat
    BY LedgerTypes
  <2>2. evidence' # evidence
    BY <2>1
  <2>3. ~ \E g \in Grantable : GrantObservation(g)
    BY <2>2 DEF GrantObservation
  <2>4. ~ Seal /\ ~ LedgerTick
    BY <2>2 DEF Seal, LedgerTick
  <2>5. ~ \E reqs \in RequirementLists : OpenTask(reqs)
    BY <2>1 DEF OpenTask
  <2>6. PICK e \in Recordable : RecordItem(e)
    BY <2>3, <2>4, <2>5 DEF LedgerNext, RecordObservation, RecordClaim
  <2>7. /\ evidence' = Append(evidence, e)
        /\ required' = required /\ now' = now
    BY <2>6 DEF RecordItem
  <2>8. e \in Evidence
    BY LedgerConstants
  <2>9. e.source # "OBSERVED"
    BY <2>1, <2>7, <2>8
  <2>10. \A req : Satisfied(evidence', req, now') <=> Satisfied(evidence, req, now)
    BY <2>1, <2>7, <2>8, <2>9, UntrustedIsInvisible
  <2>11. AllIntact(evidence') => AllIntact(evidence)
    BY <2>1, <2>7 DEF AllIntact
  <2>12. Verified(TRUE, evidence, required, now)
    BY <2>0, <2>7, <2>10, <2>11 DEF Verified, Unsatisfied
  <2> QED
    BY <2>12 DEF Verdict
<1> QED
  BY <1>1, LedgerTypeCorrect, PTL DEF LedgerSpec, SelfReportNeverHelps

\* Time: as the clock advances the verdict can be lost and never gained; an
\* old success does not come back when the failure that superseded it expires.
THEOREM WaitingNeverHelps == LedgerSpec => TimeOnlyExpires
<1> DEFINE Step == now' # now => (Verdict' => Verdict)
<1>1. LedgerTypeOK /\ [LedgerNext]_ledgerVars => [Step]_ledgerVars
  <2> SUFFICES ASSUME LedgerTypeOK, LedgerNext, now' # now, Verdict' PROVE Verdict
    OBVIOUS
  <2>1. LedgerTick
    BY DEF LedgerNext, GrantObservation, Seal, OpenTask, RecordObservation, RecordClaim, RecordItem
  <2>2. now' = now + 1 /\ evidence' = evidence /\ required' = required
    BY <2>1 DEF LedgerTick
  <2>3. evidence \in Seq(Evidence) /\ required \in Seq(Requirement) /\ now \in Nat
    BY LedgerTypes
  <2>4. Verified(TRUE, evidence', required', now')
    BY DEF Verdict
  <2>5. \A n \in Effective(required) : required[n] \in Requirement
    BY <2>3 DEF Effective
  <2>6. \A n \in Effective(required) :
           Satisfied(evidence, required[n], now + 1) => Satisfied(evidence, required[n], now)
    BY <2>3, <2>5, LaterIsStricter
  <2>7. Verified(TRUE, evidence, required, now)
    BY <2>2, <2>4, <2>6 DEF Verified, Unsatisfied
  <2> QED
    BY <2>7 DEF Verdict
<1> QED
  BY <1>1, LedgerTypeCorrect, PTL DEF LedgerSpec, TimeOnlyExpires

-----------------------------------------------------------------------------
(* The ingestion boundary.                                                   *)

\* A signature covers the fields of its attestation, which were asked for.
SignedWell ==
    \A a \in signed :
        /\ a.sig.over = a.body
        /\ a.body.nonce \in Issued
        /\ nonces[a.body.nonce].target = a.body.target

\* What spent a nonce is evidence.
SpentIsRecorded ==
    \A n \in Issued : \A s \in nonces[n].spentBy :
        \E i \in DOMAIN recorded : recorded[i].sig = s /\ recorded[i].body.nonce = n

IngestionInv ==
    /\ IngestionTypeOK
    /\ \A n \in Issued : nonces[n] \in NonceRecord
    /\ SignedWell
    /\ RecordedIsAttested
    /\ OneObservationPerRequest

WiredInv == IngestionInv /\ (Wired => SpentIsRecorded /\ AcceptedIsRecorded)

-----------------------------------------------------------------------------
(* What arrives.                                                            *)

\* An attestation, as signed or altered, with the signature it was given.
Arrived(raw) == raw \in AttestationSet /\ \E a \in signed : raw.sig = a.sig

LEMMA Clocks ==
    Readings \subseteq Nat /\ Ahead \subseteq Nat /\ MaxAge \in Nat /\ Skew \in Nat
BY ClockAssumption

LEMMA DeliverIsIngest ==
    ASSUME IngestionTypeOK, Deliver
    PROVE  \E raw : \E n \in Issued : Arrived(raw) /\ Ingest(raw, nonces[n].target, n)
<1>0. PICK a \in signed : \E raw \in {a} \cup Altered(a) : \E n \in Issued :
         Ingest(raw, nonces[n].target, n)
  BY DEF Deliver
<1>1. PICK raw \in {a} \cup Altered(a) : \E n \in Issued : Ingest(raw, nonces[n].target, n)
  BY <1>0
<1>2. /\ a \in AttestationSet /\ Readings \subseteq Int /\ clock \in Int
      /\ Issued \subseteq Nonces /\ \A m \in Issued : nonces[m].target \in Targets
  BY Clocks DEF IngestionTypeOK
<1>3. raw \in AttestationSet /\ raw.sig = a.sig
  <2>1. CASE raw = a
    BY <1>2, <2>1
  <2>2. CASE \E o \in Outcomes : raw = [a EXCEPT !.body.outcome = o]
    BY <1>2, <2>2 DEF AttestationSet, PayloadSet
  <2>3. CASE raw = [a EXCEPT !.body.at = clock]
    BY <1>2, <2>3 DEF AttestationSet, PayloadSet
  <2>4. CASE \E c \in DOMAIN Registry : raw = [a EXCEPT !.body.collector = c]
    BY <1>2, <2>4 DEF AttestationSet, PayloadSet
  <2>5. ASSUME NEW m \in Issued,
               raw = [a EXCEPT !.body.nonce = m, !.body.target = nonces[m].target]
        PROVE  raw \in AttestationSet /\ raw.sig = a.sig
    BY <1>2, <2>5 DEF AttestationSet, PayloadSet
  <2> QED  BY <1>1, <2>1, <2>2, <2>3, <2>4, <2>5 DEF Altered
<1> QED  BY <1>1, <1>3 DEF Arrived

\* A signature that verifies was made over these fields: nothing was altered.
LEMMA ValidIsSigned ==
    ASSUME IngestionTypeOK, SignedWell, NEW raw, Arrived(raw), SignatureValid(raw)
    PROVE  raw \in signed /\ raw.sig.over = raw.body
<1>1. PICK a \in signed : raw.sig = a.sig  BY DEF Arrived
<1>2. a \in AttestationSet /\ raw \in AttestationSet  BY DEF IngestionTypeOK, Arrived
<1>3. raw.sig.over = raw.body
  BY DEF SignatureValid
<1>4. a.body = raw.body  BY <1>1, <1>3 DEF SignedWell
<1>5. a = raw  BY <1>1, <1>2, <1>4 DEF AttestationSet
<1> QED  BY <1>3, <1>5

-----------------------------------------------------------------------------
(* The initial state.                                                        *)

LEMMA IngestionInitially == IngestionInit => WiredInv
<1> SUFFICES ASSUME IngestionInit PROVE WiredInv
  OBVIOUS
<1>1. Issued = {}
  BY DEF IngestionInit, Issued
<1>2. recorded = << >> /\ recorded \in Seq(AttestationSet) /\ DOMAIN recorded = {}
  BY DEF IngestionInit
<1>3. IngestionTypeOK
  BY <1>1, <1>2 DEF IngestionInit, IngestionTypeOK
<1>4. SignedWell /\ RecordedIsAttested /\ OneObservationPerRequest /\ AcceptedIsRecorded
  BY <1>1, <1>2 DEF IngestionInit, SignedWell, RecordedIsAttested, OneObservationPerRequest,
                    AcceptedIsRecorded
<1> QED  BY <1>1, <1>3, <1>4 DEF WiredInv, IngestionInv, SpentIsRecorded

-----------------------------------------------------------------------------
(* Requests, observations and the clock.                                     *)

LEMMA RequestStep ==
    ASSUME WiredInv, NEW target \in Targets, NEW n \in Nonces, Request(target, n)
    PROVE  WiredInv'
<1>0. IngestionInv  BY DEF WiredInv
<1>1. /\ Issued' = Issued \cup {n} /\ n \notin Issued
      /\ nonces'[n] = [target |-> target, spentBy |-> {}]
      /\ \A m \in Issued : nonces'[m] = nonces[m]
      /\ UNCHANGED <<signed, recorded, accepted, refused, clock>>
  BY DEF Request, Issued
<1>2. [target |-> target, spentBy |-> {}] \in NonceRecord
  BY DEF NonceRecord
<1>3. IngestionTypeOK' /\ \A m \in Issued' : nonces'[m] \in NonceRecord
  BY <1>0, <1>1, <1>2 DEF IngestionInv, IngestionTypeOK
<1>4. SignedWell' /\ OneObservationPerRequest'
  BY <1>0, <1>1 DEF IngestionInv, SignedWell, OneObservationPerRequest
<1>5. RecordedIsAttested'
  BY <1>0, <1>1 DEF IngestionInv, RecordedIsAttested, InScope
<1>6. Wired => SpentIsRecorded' /\ AcceptedIsRecorded'
  BY <1>1 DEF WiredInv, SpentIsRecorded, AcceptedIsRecorded
<1> QED  BY <1>3, <1>4, <1>5, <1>6 DEF WiredInv, IngestionInv

LEMMA ObserveStep ==
    ASSUME WiredInv,
           NEW p \in Processes, NEW n \in Issued, NEW o \in Outcomes, NEW d \in Ahead,
           Observe(p, n, o, d)
    PROVE  WiredInv'
<1>0. IngestionInv  BY DEF WiredInv
<1> DEFINE body == Payload(nonces[n].target, n, p, o, clock + d)
           a == Attestation(body, Keys[p])
<1>1. /\ signed' = signed \cup {a}
      /\ UNCHANGED <<nonces, recorded, accepted, refused, clock>> /\ Issued' = Issued
  BY DEF Observe, Issued
<1>2. /\ body \in PayloadSet
      /\ body.nonce = n /\ body.target = nonces[n].target
  <2>1. clock + d \in Int /\ n \in Nonces /\ nonces[n].target \in Targets
    <3>1. clock \in Nat /\ d \in Nat
      BY <1>0, Clocks DEF IngestionInv, IngestionTypeOK
    <3>2. n \in Nonces /\ nonces[n].target \in Targets
      BY <1>0 DEF IngestionInv, IngestionTypeOK
    <3>. QED  BY <3>1, <3>2
  <2> QED  BY <2>1 DEF Payload, PayloadSet
<1> HIDE DEF body
<1>3. a \in AttestationSet /\ a.body = body /\ a.sig.over = body
  BY <1>2 DEF Attestation, AttestationSet, Signature
<1> HIDE DEF a
<1>4. IngestionTypeOK' /\ \A m \in Issued' : nonces'[m] \in NonceRecord
  BY <1>0, <1>1, <1>3 DEF IngestionInv, IngestionTypeOK
<1>5. SignedWell'
  BY <1>0, <1>1, <1>2, <1>3 DEF IngestionInv, SignedWell
<1>6. RecordedIsAttested' /\ OneObservationPerRequest'
  BY <1>0, <1>1 DEF IngestionInv, RecordedIsAttested,
                                          OneObservationPerRequest, InScope
<1>7. Wired => SpentIsRecorded' /\ AcceptedIsRecorded'
  BY <1>1 DEF WiredInv, SpentIsRecorded, AcceptedIsRecorded
<1> QED  BY <1>4, <1>5, <1>6, <1>7 DEF WiredInv, IngestionInv

\* Steps that leave nonces, signatures and evidence alone and accept nothing new.
LEMMA IngestionUnchanged ==
    ASSUME WiredInv, UNCHANGED <<nonces, signed, recorded, accepted>>,
           clock' \in Readings, refused' \in BOOLEAN
    PROVE  WiredInv'
<1>0. IngestionInv /\ Issued' = Issued  BY DEF WiredInv, Issued
<1>1. IngestionTypeOK' /\ \A m \in Issued' : nonces'[m] \in NonceRecord
  BY <1>0 DEF IngestionInv, IngestionTypeOK
<1>2. SignedWell' /\ RecordedIsAttested' /\ OneObservationPerRequest'
  BY <1>0 DEF IngestionInv, SignedWell, RecordedIsAttested, OneObservationPerRequest, InScope
<1>3. Wired => SpentIsRecorded' /\ AcceptedIsRecorded'
  BY <1>0 DEF WiredInv, SpentIsRecorded, AcceptedIsRecorded
<1> QED  BY <1>1, <1>2, <1>3 DEF WiredInv, IngestionInv

-----------------------------------------------------------------------------
(* A call of ingest().                                                       *)

LEMMA DuplicateStep ==
    ASSUME WiredInv, NEW raw, NEW n \in Issued, Arrived(raw),
           AcceptDuplicate(raw, nonces[n].target, n)
    PROVE  WiredInv'
<1>0. IngestionInv /\ IngestionTypeOK /\ SignedWell  BY DEF WiredInv, IngestionInv
<1>1. /\ accepted' = accepted \cup {raw} /\ refused' = FALSE
      /\ UNCHANGED <<nonces, signed, recorded, clock>> /\ Issued' = Issued
  BY DEF AcceptDuplicate, Issued
<1>2. /\ SignatureValid(raw) /\ raw.body.nonce \in Issued
      /\ nonces[raw.body.nonce].spentBy = {raw.sig}
  BY DEF AcceptDuplicate, Admissible, NonceBinds, IsDuplicate
<1>3. raw \in signed /\ raw.sig.over = raw.body
  BY <1>0, <1>2, ValidIsSigned
<1>4. IngestionTypeOK' /\ \A m \in Issued' : nonces'[m] \in NonceRecord
  BY <1>0, <1>1 DEF IngestionInv, IngestionTypeOK, Arrived
<1>5. SignedWell' /\ RecordedIsAttested' /\ OneObservationPerRequest'
  BY <1>0, <1>1 DEF IngestionInv, SignedWell, RecordedIsAttested, OneObservationPerRequest, InScope
<1>6. ASSUME Wired PROVE SpentIsRecorded' /\ AcceptedIsRecorded'
  <2>1. SpentIsRecorded /\ AcceptedIsRecorded  BY <1>6 DEF WiredInv
  <2>2. PICK i \in DOMAIN recorded : recorded[i].sig = raw.sig
    BY <1>2, <2>1 DEF SpentIsRecorded
  <2>3. recorded[i] \in signed
    BY <1>0 DEF IngestionInv, RecordedIsAttested
  <2>4. recorded[i] = raw
    <3>1. recorded[i].body = raw.body
      BY <1>0, <1>3, <2>2, <2>3 DEF SignedWell
    <3>2. recorded[i] \in AttestationSet /\ raw \in AttestationSet
      BY <1>0, <1>3, <2>3 DEF IngestionTypeOK
    <3> QED  BY <2>2, <3>1, <3>2 DEF AttestationSet
  <2> QED  BY <1>1, <2>1, <2>4 DEF SpentIsRecorded, AcceptedIsRecorded
<1> QED  BY <1>4, <1>5, <1>6 DEF WiredInv, IngestionInv

\* The registry's scope and the wiring give the capability.
LEMMA WiredHasCapability ==
    ASSUME Wired, NEW a, InScope(a)
    PROVE  HasCapability(a)
  BY DEF Wired, InScope, HasCapability

LEMMA FirstStep ==
    ASSUME WiredInv, NEW raw, NEW n \in Issued, Arrived(raw),
           AcceptFirst(raw, nonces[n].target, n)
    PROVE  WiredInv'
<1>0. IngestionInv /\ IngestionTypeOK /\ SignedWell /\ RecordedIsAttested  BY DEF WiredInv, IngestionInv
<1>1. /\ InScope(raw) /\ SignatureValid(raw) /\ raw.body.nonce = n
      /\ raw.body.target = nonces[n].target /\ nonces[n].spentBy = {}
  BY DEF AcceptFirst, Admissible, AnswersRequest, NonceBinds, SpendsNonce
<1>2. raw \in signed /\ raw \in AttestationSet /\ raw.sig.over = raw.body
      /\ raw.sig.key = Registry[raw.body.collector].key /\ raw.sig \in Signature
  BY <1>0, <1>1, ValidIsSigned DEF SignatureValid, IngestionTypeOK, AttestationSet
<1>3. /\ Issued' = Issued /\ nonces'[n] = [target |-> nonces[n].target, spentBy |-> {raw.sig}]
      /\ \A m \in Issued : m # n => nonces'[m] = nonces[m]
  BY <1>0, <1>1 DEF AcceptFirst, Spend, Issued, IngestionInv, NonceRecord
<1>4. UNCHANGED <<signed, clock>> /\ refused' \in BOOLEAN
  BY DEF AcceptFirst, HasCapability
<1>5. [target |-> nonces[n].target, spentBy |-> {raw.sig}] \in NonceRecord
  BY <1>0, <1>2 DEF IngestionInv, NonceRecord
<1>6. \A m \in Issued' : nonces'[m] \in NonceRecord
  BY <1>0, <1>3, <1>5 DEF IngestionInv
<1>7. SignedWell'
  BY <1>0, <1>1, <1>3, <1>4 DEF SignedWell
<1>8. \A i \in DOMAIN recorded : recorded[i].body.nonce # n
  <2> SUFFICES ASSUME NEW i \in DOMAIN recorded, recorded[i].body.nonce = n PROVE FALSE
    OBVIOUS
  <2>1. nonces[n] = [target |-> recorded[i].body.target, spentBy |-> {recorded[i].sig}]
    BY <1>0 DEF RecordedIsAttested
  <2>2. nonces[n].spentBy = {recorded[i].sig}  BY <2>1
  <2> QED  BY <1>1, <2>2
<1>9. CASE HasCapability(raw)
  <2>1. recorded' = Append(recorded, raw) /\ accepted' = accepted \cup {raw}
    BY <1>9 DEF AcceptFirst
  <2>2. /\ recorded \in Seq(AttestationSet) /\ recorded' \in Seq(AttestationSet)
        /\ DOMAIN recorded' = DOMAIN recorded \cup {Len(recorded) + 1}
        /\ recorded'[Len(recorded) + 1] = raw
        /\ \A i \in DOMAIN recorded : i # Len(recorded) + 1 /\ recorded'[i] = recorded[i]
    BY <1>0, <1>2, <2>1 DEF IngestionTypeOK
  <2>3. IngestionTypeOK'
    BY <1>0, <1>2, <1>3, <1>4, <1>6, <2>1, <2>2 DEF IngestionTypeOK, NonceRecord
  <2>4. RecordedIsAttested'
    <3>1. ASSUME NEW i \in DOMAIN recorded', NEW b, b = recorded'[i]
          PROVE  /\ b \in signed' /\ InScope(b) /\ b.sig.key = Registry[b.body.collector].key
                 /\ b.body.nonce \in Issued'
                 /\ nonces'[b.body.nonce] = [target |-> b.body.target, spentBy |-> {b.sig}]
      <4>1. CASE i = Len(recorded) + 1
        BY <1>1, <1>2, <1>3, <1>4, <2>2, <3>1, <4>1
      <4>2. CASE i # Len(recorded) + 1
        <5>1. i \in DOMAIN recorded /\ b = recorded[i]  BY <2>2, <3>1, <4>2
        <5> QED  BY <1>0, <1>3, <1>4, <1>8, <5>1 DEF RecordedIsAttested
      <4> QED  BY <4>1, <4>2
    <3> QED  BY <3>1 DEF RecordedIsAttested, InScope
  <2>5. OneObservationPerRequest'
    BY <1>0, <1>1, <1>8, <2>2 DEF IngestionInv, OneObservationPerRequest
  <2>6. ASSUME Wired PROVE SpentIsRecorded' /\ AcceptedIsRecorded'
    <3>1. SpentIsRecorded /\ AcceptedIsRecorded  BY <2>6 DEF WiredInv
    <3>2. SpentIsRecorded'
      <4> SUFFICES ASSUME NEW m \in Issued, NEW s \in nonces'[m].spentBy
                   PROVE  \E i \in DOMAIN recorded' :
                             recorded'[i].sig = s /\ recorded'[i].body.nonce = m
        BY <1>3 DEF SpentIsRecorded
      <4>1. CASE m = n
        BY <1>1, <1>3, <2>2, <4>1
      <4>2. CASE m # n
        <5>1. PICK i \in DOMAIN recorded : recorded[i].sig = s /\ recorded[i].body.nonce = m
          BY <1>3, <3>1, <4>2 DEF SpentIsRecorded
        <5> QED  BY <2>2, <5>1
      <4> QED  BY <4>1, <4>2
    <3>3. AcceptedIsRecorded'
      BY <2>1, <2>2, <3>1 DEF AcceptedIsRecorded
    <3> QED  BY <3>2, <3>3
  <2> QED  BY <1>6, <1>7, <2>3, <2>4, <2>5, <2>6 DEF WiredInv, IngestionInv
<1>10. CASE ~ HasCapability(raw)
  <2>1. UNCHANGED <<recorded, accepted>> /\ ~ Wired
    BY <1>1, <1>10, WiredHasCapability DEF AcceptFirst
  <2>2. IngestionTypeOK'
    BY <1>0, <1>3, <1>4, <1>6, <2>1 DEF IngestionTypeOK, NonceRecord
  <2>3. RecordedIsAttested' /\ OneObservationPerRequest'
    BY <1>0, <1>3, <1>4, <1>8, <2>1 DEF IngestionInv, RecordedIsAttested,
                                          OneObservationPerRequest, InScope
  <2> QED  BY <1>6, <1>7, <2>1, <2>2, <2>3 DEF WiredInv, IngestionInv
<1> QED  BY <1>9, <1>10

LEMMA IngestionStep ==
    ASSUME WiredInv, [IngestionNext]_ingestionVars
    PROVE  WiredInv'
<1>0. IngestionTypeOK /\ clock \in Readings /\ refused \in BOOLEAN
  BY DEF WiredInv, IngestionInv, IngestionTypeOK
<1>1. CASE UNCHANGED ingestionVars
  BY <1>0, <1>1, IngestionUnchanged DEF ingestionVars
<1>2. ASSUME NEW target \in Targets, NEW n \in Nonces, Request(target, n) PROVE WiredInv'
  BY <1>2, RequestStep
<1>3. ASSUME NEW p \in Processes, NEW n \in Issued, NEW o \in Outcomes, NEW d \in Ahead,
             Observe(p, n, o, d)
      PROVE  WiredInv'
  BY <1>3, ObserveStep
<1>4. CASE Deliver
  <2>1. PICK raw : \E n \in Issued : Arrived(raw) /\ Ingest(raw, nonces[n].target, n)
    BY <1>0, <1>4, DeliverIsIngest
  <2>2. PICK n \in Issued : Arrived(raw) /\ Ingest(raw, nonces[n].target, n)
    BY <2>1
  <2>3. CASE Reject(raw, nonces[n].target, n)
    BY <1>0, <2>3, IngestionUnchanged DEF Reject
  <2>4. CASE AcceptDuplicate(raw, nonces[n].target, n)
    BY <2>2, <2>4, DuplicateStep
  <2>5. CASE AcceptFirst(raw, nonces[n].target, n)
    BY <2>2, <2>5, FirstStep
  <2> QED  BY <2>2, <2>3, <2>4, <2>5 DEF Ingest
<1>5. CASE IngestionTick
  BY <1>0, <1>5, IngestionUnchanged DEF IngestionTick
<1> QED  BY <1>1, <1>2, <1>3, <1>4, <1>5 DEF IngestionNext

-----------------------------------------------------------------------------
(* The theorems.                                                            *)

THEOREM IngestionInvariance == IngestionSpec => []WiredInv
<1>1. WiredInv /\ [IngestionNext]_ingestionVars => WiredInv'
  BY IngestionStep
<1> QED  BY <1>1, IngestionInitially, PTL DEF IngestionSpec

\* Every value the state takes has its type.
THEOREM IngestionTypeCorrect == IngestionSpec => []IngestionTypeOK
<1>1. WiredInv => IngestionTypeOK  BY DEF WiredInv, IngestionInv
<1> QED  BY <1>1, IngestionInvariance, PTL

\* One request yields at most one item of evidence.
THEOREM OnePerRequest == IngestionSpec => []OneObservationPerRequest
<1>1. WiredInv => OneObservationPerRequest  BY DEF WiredInv, IngestionInv
<1> QED  BY <1>1, IngestionInvariance, PTL

\* Evidence is what a collector in scope signed for a nonce issued for that.
THEOREM EvidenceIsAttested == IngestionSpec => []RecordedIsAttested
<1>1. WiredInv => RecordedIsAttested  BY DEF WiredInv, IngestionInv
<1> QED  BY <1>1, IngestionInvariance, PTL

\* With every scope of the registry wired to a capability, ingest() accepts only
\* what is in the ledger.
THEOREM AcceptanceMeansRecorded ==
    ASSUME Wired
    PROVE  IngestionSpec => []AcceptedIsRecorded
<1>1. WiredInv => AcceptedIsRecorded  BY DEF WiredInv
<1> QED  BY <1>1, IngestionInvariance, PTL

\* With the same wiring, whatever was replayed, relabelled or refused before, the
\* genuine answer to a request nothing is recorded for is admissible.
THEOREM GenuineAnswersAdmitted ==
    ASSUME Wired
    PROVE  IngestionSpec => []GenuineAnswerAdmitted
<1>1. WiredInv => GenuineAnswerAdmitted
  <2> SUFFICES ASSUME WiredInv, NEW a \in signed, InScope(a), SignatureValid(a),
                      StillCounts(a), \A i \in DOMAIN recorded : recorded[i].body.nonce # a.body.nonce
               PROVE  /\ Admissible(a, nonces[a.body.nonce].target, a.body.nonce)
                      /\ SpendsNonce(a)
    BY DEF GenuineAnswerAdmitted
  <2>1. a.body.nonce \in Issued /\ nonces[a.body.nonce].target = a.body.target
    BY DEF WiredInv, IngestionInv, SignedWell
  <2>2. SpendsNonce(a)
    BY <2>1 DEF WiredInv, SpentIsRecorded, SpendsNonce
  <2>3. Timely(a)
    <3>1. a.body.at \in Int
      BY DEF WiredInv, IngestionInv, IngestionTypeOK, AttestationSet, PayloadSet
    <3>2. clock \in Nat
      BY ClockAssumption DEF WiredInv, IngestionInv, IngestionTypeOK
    <3> QED  BY <3>1, <3>2, ClockAssumption DEF StillCounts, Timely
  <2> QED  BY <2>1, <2>2, <2>3 DEF Admissible, AnswersRequest, NonceBinds
<1> QED  BY <1>1, IngestionInvariance, PTL

\* With the same wiring, a refused call spends no nonce and records nothing.
THEOREM RefusalsSpendNothing ==
    ASSUME Wired
    PROVE  IngestionSpec => RefusalSpendsNothing
<1> DEFINE Kept == refused' /\ Issued' = Issued => nonces' = nonces /\ recorded' = recorded
<1>1. ASSUME WiredInv, [IngestionNext]_ingestionVars PROVE [Kept]_ingestionVars
  <2>0. IngestionTypeOK  BY <1>1 DEF WiredInv, IngestionInv
  <2>1. CASE UNCHANGED ingestionVars
    BY <2>1
  <2>2. ASSUME NEW target \in Targets, NEW n \in Nonces, Request(target, n) PROVE Kept
    BY <2>2 DEF Request, Issued
  <2>3. ASSUME NEW p \in Processes, NEW n \in Issued, NEW o \in Outcomes, NEW d \in Ahead,
               Observe(p, n, o, d)
        PROVE  Kept
    BY <2>3 DEF Observe
  <2>4. CASE Deliver
    <3>1. PICK raw : \E n \in Issued : Ingest(raw, nonces[n].target, n)
      BY <2>0, <2>4, DeliverIsIngest
    <3>2. PICK n \in Issued : Ingest(raw, nonces[n].target, n)
      BY <3>1
    <3>3. CASE Reject(raw, nonces[n].target, n) \/ AcceptDuplicate(raw, nonces[n].target, n)
      BY <3>3 DEF Reject, AcceptDuplicate
    <3>4. CASE AcceptFirst(raw, nonces[n].target, n)
      BY <3>4, WiredHasCapability DEF AcceptFirst, Admissible
    <3> QED  BY <3>2, <3>3, <3>4 DEF Ingest
  <2>5. CASE IngestionTick
    BY <2>5 DEF IngestionTick
  <2> QED  BY <1>1, <2>1, <2>2, <2>3, <2>4, <2>5 DEF IngestionNext
<1>2. WiredInv /\ [IngestionNext]_ingestionVars => [Kept]_ingestionVars
  BY <1>1
<1> QED  BY <1>2, IngestionInvariance, PTL DEF IngestionSpec, RefusalSpendsNothing
=============================================================================
