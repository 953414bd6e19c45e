----------------------------- MODULE Ingestion -----------------------------
(***************************************************************************)
(* The ingestion boundary (src/proofos/ingestion.py) between the runtime    *)
(* and the collector processes: the runtime asks for an observation with a   *)
(* single-use nonce, a collector process answers with a signed attestation, *)
(* and the ingestor turns an attestation into OBSERVED evidence or into     *)
(* nothing.  Requests and attestations may be lost, delayed, duplicated,     *)
(* answered twice, delivered to another request or altered on the way.      *)
(*                                                                         *)
(* A signature is modelled as the key that made it and the payload it       *)
(* covers; it verifies when both are as expected.  The free-text detail of  *)
(* an attestation is not signed and decides nothing: it is left out, as are *)
(* the schema and version checks of data that never parses.                 *)
(***************************************************************************)
EXTENDS Integers, Sequences, FiniteSets

CONSTANTS Nonces,       \* what secrets.token_hex may return
          Targets,      \* [execution, task, kind, profile] the runtime asks about
          Processes,    \* collector processes
          Keys,         \* their keys: Keys[p]
          Registry,     \* CollectorRegistry: id -> [key, active, kinds, profiles]
          Capabilities, \* the ingestor's ObservationCapability: id -> kinds
          MaxAge,       \* freshness horizon of the observation
          Skew,         \* CLOCK_SKEW_TOLERANCE_SECONDS
          Readings,     \* readings of the runtime's clock
          Ahead,        \* how far a collector's clock may be ahead of it
          MaxSigned     \* bound on the attestations signed

ASSUME ClockAssumption ==
    Readings \subseteq Nat /\ Ahead \subseteq Nat /\ MaxAge \in Nat /\ Skew \in Nat

\* Wiring of build_attested_fleet: what the registry lets a collector attest
\* to, the ingestor may write on its behalf.
Wired == \A c \in DOMAIN Registry :
            c \in DOMAIN Capabilities /\ Registry[c].kinds \subseteq Capabilities[c]

VARIABLES nonces,    \* NonceLedger._records: issued nonce -> [target, spentBy],
                     \* spentBy holding the signature that spent it, if any; the
                     \* target's profile is only the waiting caller's
          signed,    \* attestations collectors have signed
          recorded,  \* the attestations recorded as OBSERVED evidence, in order
          accepted,  \* the attestations ingest() answered accepted=True
          refused,   \* whether the last call of ingest() was refused
          clock

ingestionVars == <<nonces, signed, recorded, accepted, refused, clock>>

Outcomes == {"HEALTHY", "UNHEALTHY_STATUS"}

\* The signed fields of an attestation that properties tell apart.
Payload(target, nonce, collector, outcome, at) ==
    [target |-> target, nonce |-> nonce, collector |-> collector, outcome |-> outcome, at |-> at]

Attestation(payload, key) == [body |-> payload, sig |-> [key |-> key, over |-> payload]]

IngestionInit ==
    /\ nonces = << >>
    /\ signed = {}
    /\ recorded = << >>
    /\ accepted = {}
    /\ refused = FALSE
    /\ clock \in Readings /\ \A t \in Readings : clock <= t

Issued == DOMAIN nonces

-----------------------------------------------------------------------------
\* AttestedCollector.collect_runtime -> NonceLedger.issue: the nonce is minted
\* before the request leaves.
Request(target, n) ==
    /\ n \in Nonces \ Issued
    /\ nonces' = [m \in Issued \cup {n} |->
                    IF m = n THEN [target |-> target, spentBy |-> {}] ELSE nonces[m]]
    /\ UNCHANGED <<signed, recorded, accepted, refused, clock>>

\* A collector process handles a request it received, once or again, under its
\* own clock and its own name (collector app: POST /v1/collect).
Observe(p, n, outcome, ahead) ==
    /\ n \in Issued
    /\ Cardinality(signed) < MaxSigned
    /\ LET body == Payload(nonces[n].target, n, p, outcome, clock + ahead)
       IN  signed' = signed \cup {Attestation(body, Keys[p])}
    /\ UNCHANGED <<nonces, recorded, accepted, refused, clock>>

-----------------------------------------------------------------------------
(* AttestationIngestor._ingest: a call for the request of nonce n.          *)

\* 3-5: the collector is registered, active and in scope, and the signature is
\* its own over exactly these fields.
InScope(a) ==
    /\ a.body.collector \in DOMAIN Registry
    /\ Registry[a.body.collector].active
    /\ a.body.target.kind \in Registry[a.body.collector].kinds
    /\ a.body.target.profile \in Registry[a.body.collector].profiles

\* Variant for the mutation checks: the right key over any payload.
SignedAnything(a) == a.sig.key = Registry[a.body.collector].key

SignatureValid(a) == a.sig = [key |-> Registry[a.body.collector].key, over |-> a.body]

\* 6-9: the signed fields are what this call asked for.
AnswersRequest(a, target, n) == a.body.target = target /\ a.body.nonce = n

\* 10: neither from the future nor older than the horizon.
Timely(a) == a.body.at <= clock + Skew /\ a.body.at >= clock - MaxAge

\* 11: NonceLedger.consume.  The nonce's record has no profile.
NonceBinds(a, target) ==
    /\ a.body.nonce \in Issued
    /\ \A field \in {"execution", "task", "kind"} :
          nonces[a.body.nonce].target[field] = target[field]

\* Variant for the mutation checks: a spent nonce is spent again.
SpendAgain(a) == nonces[a.body.nonce].spentBy # {a.sig}
SpendsNonce(a) == nonces[a.body.nonce].spentBy = {}
IsDuplicate(a) == nonces[a.body.nonce].spentBy = {a.sig}

\* 12: a capability to write this collector's observation of this kind.
HasCapability(a) ==
    /\ a.body.collector \in DOMAIN Capabilities
    /\ a.body.target.kind \in Capabilities[a.body.collector]

\* Checks 3 to 10, and those of the nonce that refuse it.
Admissible(a, target, n) ==
    /\ InScope(a)
    /\ SignatureValid(a)
    /\ AnswersRequest(a, target, n)
    /\ Timely(a)
    /\ NonceBinds(a, target)
    /\ SpendsNonce(a) \/ IsDuplicate(a)

Spend(a) == nonces' = [nonces EXCEPT ![a.body.nonce].spentBy = {a.sig}]

\* Variant for the mutation checks: the nonce is spent before the checks.
RejectSpending(a, target, n) ==
    /\ ~ Admissible(a, target, n)
    /\ refused' = TRUE
    /\ IF a.body.nonce \in Issued /\ SpendsNonce(a) THEN Spend(a) ELSE UNCHANGED nonces
    /\ UNCHANGED <<signed, recorded, accepted, clock>>

Reject(a, target, n) ==
    /\ ~ Admissible(a, target, n)
    /\ refused' = TRUE
    /\ UNCHANGED <<nonces, signed, recorded, accepted, clock>>

\* The identical attestation again: a retry, answered without recording.
AcceptDuplicate(a, target, n) ==
    /\ Admissible(a, target, n) /\ IsDuplicate(a)
    /\ accepted' = accepted \cup {a}
    /\ refused' = FALSE
    /\ UNCHANGED <<nonces, signed, recorded, clock>>

\* The first admissible answer spends the nonce and becomes evidence; without
\* a capability for its collector it is refused, the nonce already spent.
AcceptFirst(a, target, n) ==
    /\ Admissible(a, target, n) /\ SpendsNonce(a)
    /\ Spend(a)
    /\ IF HasCapability(a)
       THEN recorded' = Append(recorded, a) /\ accepted' = accepted \cup {a}
       ELSE UNCHANGED <<recorded, accepted>>
    /\ refused' = ~ HasCapability(a)
    /\ UNCHANGED <<signed, clock>>

Ingest(a, target, n) ==
    \/ Reject(a, target, n)
    \/ AcceptDuplicate(a, target, n)
    \/ AcceptFirst(a, target, n)

-----------------------------------------------------------------------------
\* What a relay may make of an attestation: another outcome, a later time,
\* another collector's name, or the answer to another request.
Altered(a) ==
    {[a EXCEPT !.body.outcome = o] : o \in Outcomes}
    \cup {[a EXCEPT !.body.at = clock]}
    \cup {[a EXCEPT !.body.collector = c] : c \in DOMAIN Registry}
    \cup {[a EXCEPT !.body.nonce = m, !.body.target = nonces[m].target] : m \in Issued}

\* Any attestation ever signed may arrive at the call of any nonce, or late.
Deliver == \E a \in signed : \E raw \in {a} \cup Altered(a) :
              \E n \in Issued : Ingest(raw, nonces[n].target, n)

IngestionTick ==
    /\ clock + 1 \in Readings
    /\ clock' = clock + 1
    /\ UNCHANGED <<nonces, signed, recorded, accepted, refused>>

IngestionNext ==
    \/ \E target \in Targets, n \in Nonces : Request(target, n)
    \/ \E p \in Processes, n \in Issued, o \in Outcomes, d \in Ahead : Observe(p, n, o, d)
    \/ Deliver
    \/ IngestionTick

IngestionSpec == IngestionInit /\ [][IngestionNext]_ingestionVars

-----------------------------------------------------------------------------
PayloadSet == [target : Targets, nonce : Nonces, collector : Processes \cup DOMAIN Registry,
               outcome : Outcomes, at : Int]
Signature == [key : {Keys[p] : p \in Processes}, over : PayloadSet]
AttestationSet == [body : PayloadSet, sig : Signature]
NonceRecord == [target : Targets, spentBy : SUBSET Signature]

IngestionTypeOK ==
    /\ Issued \subseteq Nonces
    /\ \A n \in Issued : nonces[n].target \in Targets /\ nonces[n].spentBy \subseteq Signature
    /\ signed \subseteq AttestationSet
    /\ recorded \in Seq(AttestationSet)
    /\ accepted \subseteq AttestationSet
    /\ refused \in BOOLEAN
    /\ clock \in Readings

\* However often an attestation is presented and however many a request was
\* answered with, one request yields one item of evidence.
OneObservationPerRequest ==
    \A i, j \in DOMAIN recorded : recorded[i].body.nonce = recorded[j].body.nonce => i = j

\* Evidence is what a registered collector in scope signed, to the letter, for
\* a nonce this runtime had issued for that execution, task, kind and profile.
RecordedIsAttested ==
    \A i \in DOMAIN recorded :
        LET a == recorded[i]
        IN  /\ a \in signed
            /\ InScope(a)
            /\ a.sig.key = Registry[a.body.collector].key
            /\ a.body.nonce \in Issued
            /\ nonces[a.body.nonce] = [target |-> a.body.target, spentBy |-> {a.sig}]

\* ingest() answers accepted only for an observation that is in the ledger: a
\* retry is told "duplicate" when, and only when, the first call recorded.
AcceptedIsRecorded == \A a \in accepted : \E i \in DOMAIN recorded : recorded[i] = a

\* When an answer still counts: up to the moment it is exactly as old as the horizon,
\* as for the contract it is collected for (verifier.py:325-330), and from a clock
\* that is ahead by no more than the tolerance.
StillCounts(a) == a.body.at \in (clock - MaxAge) .. (clock + Skew)

\* No replay, relabelling or refused call, and no clock at the edge of its tolerance,
\* can keep out the genuine answer to a request: while nothing is recorded for it, an
\* attestation in scope that still counts is admissible.
GenuineAnswerAdmitted ==
    \A a \in signed :
        /\ InScope(a) /\ SignatureValid(a) /\ StillCounts(a)
        /\ \A i \in DOMAIN recorded : recorded[i].body.nonce # a.body.nonce
        => Admissible(a, nonces[a.body.nonce].target, a.body.nonce) /\ SpendsNonce(a)

\* "spend the nonce, last, so a rejected attestation does not burn it"
\* (ingestion.py:278): a refused call leaves nonces and evidence as they were.
RefusalSpendsNothing ==
    [][refused' /\ Issued' = Issued => nonces' = nonces /\ recorded' = recorded]_ingestionVars
=============================================================================
