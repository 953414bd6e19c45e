------------------------ MODULE FirestoreWitnessProofs ------------------------
(***************************************************************************)
(* Theorems about the two durable witness ledgers, FirestoreWitness and        *)
(* FileWitness, for any writers, envelopes, stamps and losses.                *)
(*                                                                         *)
(* In Firestore (Inv): until documents are lost the records are the prefixes   *)
(* of the head.  What a call read is a prefix of the head too, and stays one,   *)
(* so a create that succeeds extends the head it was computed from.  After a     *)
(* loss either every promised record is still a prefix of the head (Kept) or a   *)
(* record is left beyond the head (Orphaned), which no audit passes and whose    *)
(* version no create can pass.                                                 *)
(*                                                                         *)
(* In files (FilesInv): the versions are without a gap and written but for the   *)
(* last (Growing), as a writer creates only after it has read all that are       *)
(* listed.  A failure of the power may leave an unreadable directory of synced   *)
(* files (Ruined), which every later call refuses.  A record that passed the     *)
(* barriers has its entry synced, and so has every one below it.                *)
(***************************************************************************)
EXTENDS FirestoreWitness, FileWitness, TLAPS, SequenceTheorems, FiniteSetTheorems

Observations == [envelope : Envelopes, stamp : Stamps]

\* A record is a chain of observations: version after version of one source.
Chains ==
    {r \in Seq(Observations) :
        \A i \in DOMAIN r : /\ r[i].envelope.version = i
                            /\ (i > 1 => SameSource(r[i].envelope, r[i - 1].envelope))}

UpTo(r, n) == SubSeq(r, 1, n)
Prefixes(r, n) == [v \in 1 .. n |-> UpTo(r, v)]

-----------------------------------------------------------------------------
(* Histories and what they extend.                                           *)

LEMMA PrefixIs ==
    ASSUME NEW S, NEW r \in Seq(S), NEW s \in Seq(S)
    PROVE  Extends(r, s) <=> Len(r) <= Len(s) /\ \A i \in 1 .. Len(r) : r[i] = s[i]
<1>1. Len(r) \in Nat /\ Len(s) \in Nat
  OBVIOUS
<1>2. ASSUME Len(r) <= Len(s)
      PROVE  r = SubSeq(s, 1, Len(r)) <=> \A i \in 1 .. Len(r) : r[i] = s[i]
  <2>1. \A i \in 1 .. Len(r) : s[i] \in S
    BY <1>1, <1>2
  <2>2. /\ SubSeq(s, 1, Len(r)) \in Seq(S)
        /\ Len(SubSeq(s, 1, Len(r))) = IF 1 <= Len(r) THEN Len(r) - 1 + 1 ELSE 0
        /\ \A i \in 1 .. Len(r) - 1 + 1 : SubSeq(s, 1, Len(r))[i] = s[1 + i - 1]
    BY <1>1, <2>1, SubSeqProperties
  <2>3. /\ Len(SubSeq(s, 1, Len(r))) = Len(r)
        /\ \A i \in 1 .. Len(r) : SubSeq(s, 1, Len(r))[i] = s[i]
    BY <1>1, <2>2
  <2>4. ASSUME \A i \in 1 .. Len(r) : r[i] = s[i]
        PROVE  r = SubSeq(s, 1, Len(r))
    BY <2>2, <2>3, <2>4, SeqEqual
  <2>. QED  BY <2>3, <2>4
<1>. QED  BY <1>2 DEF Extends

LEMMA PrefixOrder ==
    ASSUME NEW S, NEW r \in Seq(S), NEW s \in Seq(S)
    PROVE  /\ Extends(r, r) /\ Extends(<< >>, r)
           /\ Extends(r, s) /\ Len(r) = Len(s) => r = s
           /\ \A t \in Seq(S) : Extends(r, s) /\ Extends(s, t) => Extends(r, t)
           /\ \A e \in S : Extends(r, Append(r, e))
<1>1. Extends(r, r) /\ Extends(<< >>, r)
  <2>1. << >> \in Seq(S) /\ Len(<< >>) = 0
    BY EmptySeq
  <2>2. Extends(r, r)
    BY PrefixIs
  <2>3. Extends(<< >>, r)
    <3>. DEFINE none == << >>
    <3>1. none \in Seq(S) /\ Len(none) = 0 /\ Len(r) \in Nat
      BY <2>1
    <3>. HIDE DEF none
    <3>2. Len(none) <= Len(r) /\ \A i \in 1 .. Len(none) : none[i] = r[i]
      BY <3>1
    <3>3. Extends(none, r)
      BY <3>1, <3>2, PrefixIs
    <3>. QED  BY <3>3 DEF none
  <2>. QED  BY <2>2, <2>3
<1>2. ASSUME Extends(r, s), Len(r) = Len(s)
      PROVE  r = s
  <2>1. \A i \in 1 .. Len(r) : r[i] = s[i]
    BY <1>2, PrefixIs
  <2>. QED  BY <1>2, <2>1, SeqEqual
<1>3. ASSUME NEW t \in Seq(S), Extends(r, s), Extends(s, t)
      PROVE  Extends(r, t)
  <2>1. /\ Len(r) <= Len(s) /\ Len(s) <= Len(t)
        /\ \A i \in 1 .. Len(r) : r[i] = s[i]
        /\ \A i \in 1 .. Len(s) : s[i] = t[i]
    BY <1>3, PrefixIs
  <2>2. Len(r) \in Nat /\ Len(s) \in Nat /\ Len(t) \in Nat
    OBVIOUS
  <2>3. Len(r) <= Len(t)
    BY <2>1, <2>2
  <2>4. ASSUME NEW i \in 1 .. Len(r) PROVE r[i] = t[i]
    <3>1. i \in 1 .. Len(s)
      BY <2>1, <2>2
    <3>. QED  BY <2>1, <3>1
  <2>. QED  BY <2>3, <2>4, PrefixIs
<1>4. ASSUME NEW e \in S
      PROVE  Extends(r, Append(r, e))
  <2>1. /\ Append(r, e) \in Seq(S) /\ Len(Append(r, e)) = Len(r) + 1
        /\ \A i \in 1 .. Len(r) : Append(r, e)[i] = r[i]
    BY AppendProperties
  <2>2. Len(r) \in Nat
    OBVIOUS
  <2>. DEFINE longer == Append(r, e)
  <2>. HIDE DEF longer
  <2>3. Len(r) <= Len(longer) /\ (\A i \in 1 .. Len(r) : r[i] = longer[i]) /\ longer \in Seq(S)
    BY <2>1, <2>2 DEF longer
  <2>4. Extends(r, longer)
    BY <2>3, PrefixIs
  <2>. QED  BY <2>4 DEF longer
<1>. QED  BY <1>1, <1>2, <1>3, <1>4

LEMMA Cut ==
    ASSUME NEW S, NEW s \in Seq(S), NEW n \in 0 .. Len(s)
    PROVE  /\ UpTo(s, n) \in Seq(S) /\ Len(UpTo(s, n)) = n
           /\ \A i \in 1 .. n : UpTo(s, n)[i] = s[i]
           /\ Extends(UpTo(s, n), s)
<1>1. Len(s) \in Nat /\ \A i \in 1 .. n : s[i] \in S
  OBVIOUS
<1>2. /\ SubSeq(s, 1, n) \in Seq(S)
      /\ Len(SubSeq(s, 1, n)) = IF 1 <= n THEN n - 1 + 1 ELSE 0
      /\ \A i \in 1 .. n - 1 + 1 : SubSeq(s, 1, n)[i] = s[1 + i - 1]
  BY <1>1, SubSeqProperties
<1>3. /\ UpTo(s, n) \in Seq(S) /\ Len(UpTo(s, n)) = n
      /\ \A i \in 1 .. n : UpTo(s, n)[i] = s[i]
  BY <1>1, <1>2 DEF UpTo
<1>. QED  BY <1>1, <1>3, PrefixIs

LEMMA CutWhole ==
    ASSUME NEW S, NEW s \in Seq(S)
    PROVE  UpTo(s, Len(s)) = s /\ UpTo(s, 0) = << >>
  BY SubSeqFull, SubSeqEmpty DEF UpTo

LEMMA CutOfPrefix ==
    ASSUME NEW S, NEW r \in Seq(S), NEW s \in Seq(S), Extends(r, s), NEW n \in 0 .. Len(r)
    PROVE  UpTo(r, n) = UpTo(s, n)
<1>1. Len(r) <= Len(s) /\ \A i \in 1 .. Len(r) : r[i] = s[i]
  BY PrefixIs
<1>2. Len(r) \in Nat /\ Len(s) \in Nat /\ n \in 0 .. Len(s)
  BY <1>1
<1>3. /\ UpTo(r, n) \in Seq(S) /\ Len(UpTo(r, n)) = n /\ \A i \in 1 .. n : UpTo(r, n)[i] = r[i]
  BY Cut
<1>4. /\ UpTo(s, n) \in Seq(S) /\ Len(UpTo(s, n)) = n /\ \A i \in 1 .. n : UpTo(s, n)[i] = s[i]
  BY <1>2, Cut
<1>5. \A i \in 1 .. n : UpTo(r, n)[i] = UpTo(s, n)[i]
  BY <1>1, <1>2, <1>3, <1>4, SMTT(30)
<1>. QED  BY <1>3, <1>4, <1>5, SeqEqual

\* A chain is what it ends with, its length the version of that.
LEMMA ChainFacts ==
    ASSUME NEW r \in Chains
    PROVE  /\ r \in Seq(Observations) /\ Len(r) \in Nat /\ DOMAIN r = 1 .. Len(r)
           /\ r # << >> => /\ Len(r) >= 1 /\ Latest(r).version = Len(r)
                           /\ Latest(r) \in Envelopes
           /\ r = << >> => Len(r) = 0
<1>1. r \in Seq(Observations) /\ Len(r) \in Nat /\ DOMAIN r = 1 .. Len(r)
  BY DEF Chains
<1>2. ASSUME r # << >>
      PROVE  Len(r) >= 1 /\ Latest(r).version = Len(r) /\ Latest(r) \in Envelopes
  <2>1. Len(r) \in Nat \ {0}
    BY <1>1, <1>2, EmptySeq
  <2>2. Len(r) \in DOMAIN r /\ r[Len(r)] \in Observations
    BY <1>1, <2>1
  <2>3. r[Len(r)].envelope.version = Len(r)
    BY <2>2 DEF Chains
  <2>. QED  BY <2>1, <2>2, <2>3 DEF Latest, Observations
<1>3. Len(<< >>) = 0
  BY EmptySeq
<1>. QED  BY <1>1, <1>2, <1>3

LEMMA NoChain == << >> \in Chains
  BY EmptySeq DEF Chains

\* What follows a chain makes a longer one.
LEMMA ChainGrows ==
    ASSUME NEW r \in Chains, NEW envelope \in Envelopes, NEW stamp \in Stamps,
           Follows(envelope, r)
    PROVE  LET s == Append(r, Observation(envelope, stamp))
           IN  /\ s \in Chains /\ s # << >> /\ Len(s) = Len(r) + 1 /\ Extends(r, s)
               /\ Version(s) = Len(s) /\ Latest(s) = envelope /\ envelope.version = Len(s)
<1> DEFINE o == Observation(envelope, stamp)
           s == Append(r, o)
<1>1. o \in Observations /\ o.envelope = envelope
  BY DEF Observation, Observations
<1>. HIDE DEF o
<1>2. r \in Seq(Observations) /\ Len(r) \in Nat /\ DOMAIN r = 1 .. Len(r)
  BY ChainFacts
<1>3. /\ s \in Seq(Observations) /\ s # << >> /\ Len(s) = Len(r) + 1
      /\ (\A i \in 1 .. Len(r) : s[i] = r[i]) /\ s[Len(r) + 1] = o
  BY <1>1, <1>2, AppendProperties
<1>4. DOMAIN s = 1 .. Len(r) + 1
  BY <1>2, <1>3
<1>5. Extends(r, s)
  BY <1>1, <1>2, PrefixOrder
<1>6. /\ envelope.version = Len(r) + 1
      /\ (Len(r) + 1 > 1 => SameSource(envelope, r[Len(r)].envelope))
  <2>1. CASE r = << >>
    BY <2>1, ChainFacts DEF Follows
  <2>2. CASE r # << >>
    BY <1>2, <2>2, ChainFacts DEF Follows, Latest
  <2>. QED  BY <2>1, <2>2
<1>. HIDE DEF s
<1>7. s \in Chains
  <2>1. ASSUME NEW i \in DOMAIN s
        PROVE  /\ s[i].envelope.version = i
               /\ (i > 1 => SameSource(s[i].envelope, s[i - 1].envelope))
    <3>1. CASE i = Len(r) + 1
      <4>1. Len(r) + 1 > 1 => s[i - 1] = r[Len(r)]
        BY <1>2, <1>3, <3>1
      <4>. QED  BY <1>1, <1>3, <1>6, <3>1, <4>1
    <3>2. CASE i \in 1 .. Len(r)
      <4>1. s[i] = r[i] /\ (i > 1 => s[i - 1] = r[i - 1])
        BY <1>2, <1>3, <3>2
      <4>2. /\ r[i].envelope.version = i
            /\ (i > 1 => SameSource(r[i].envelope, r[i - 1].envelope))
        BY <1>2, <3>2 DEF Chains
      <4>. QED  BY <4>1, <4>2
    <3>. QED  BY <1>2, <1>4, <3>1, <3>2
  <2>. QED  BY <1>3, <2>1 DEF Chains
<1>8. Latest(s) = envelope
  BY <1>1, <1>2, <1>3 DEF Latest
<1>. QED  BY <1>2, <1>3, <1>5, <1>6, <1>7, <1>8 DEF s, o, Version

LEMMA ChainCut ==
    ASSUME NEW r \in Chains, NEW n \in 0 .. Len(r)
    PROVE  UpTo(r, n) \in Chains /\ Len(UpTo(r, n)) = n
<1>1. /\ r \in Seq(Observations) /\ Len(r) \in Nat /\ DOMAIN r = 1 .. Len(r)
  BY ChainFacts
<1>2. /\ UpTo(r, n) \in Seq(Observations) /\ Len(UpTo(r, n)) = n
      /\ \A i \in 1 .. n : UpTo(r, n)[i] = r[i]
  BY <1>1, Cut
<1>3. DOMAIN UpTo(r, n) = 1 .. n
  BY <1>1, <1>2
<1>4. \A i \in 1 .. n : /\ r[i].envelope.version = i
                        /\ (i > 1 => SameSource(r[i].envelope, r[i - 1].envelope))
  BY <1>1 DEF Chains
<1>. QED  BY <1>1, <1>2, <1>3, <1>4 DEF Chains

\* The records of a chain verify (VerifyRecords).
LEMMA PrefixesVerify ==
    ASSUME NEW r \in Chains, NEW n \in 0 .. Len(r)
    PROVE  VerifyRecords(Prefixes(r, n))
<1>1. /\ r \in Seq(Observations) /\ Len(r) \in Nat /\ DOMAIN r = 1 .. Len(r)
  BY ChainFacts
<1>2. DOMAIN Prefixes(r, n) = 1 .. n /\ \A v \in 1 .. n : Prefixes(r, n)[v] = UpTo(r, v)
  BY DEF Prefixes
<1>3. ASSUME NEW i \in 1 .. n
      PROVE  /\ UpTo(r, i) # << >> /\ Latest(UpTo(r, i)) = r[i].envelope
             /\ r[i].envelope.version = i
             /\ Before(UpTo(r, i)) = UpTo(r, i - 1)
  <2>1. i \in 0 .. Len(r) /\ i - 1 \in 0 .. Len(r) /\ i \in DOMAIN r
    BY <1>1
  <2>2. /\ UpTo(r, i) \in Seq(Observations) /\ Len(UpTo(r, i)) = i
        /\ (\A j \in 1 .. i : UpTo(r, i)[j] = r[j]) /\ Extends(UpTo(r, i), r)
    BY <1>1, <2>1, Cut
  <2>3. UpTo(r, i) # << >>
    BY <2>2, EmptySeq
  <2>4. UpTo(UpTo(r, i), i - 1) = UpTo(r, i - 1)
    BY <1>1, <2>1, <2>2, CutOfPrefix
  <2>5. r[i].envelope.version = i
    BY <2>1 DEF Chains
  <2>. QED  BY <2>2, <2>3, <2>4, <2>5 DEF Latest, Before, UpTo
<1>4. ASSUME NEW i \in 1 .. n, i > 1
      PROVE  i - 1 \in 1 .. n /\ SameSource(r[i].envelope, r[i - 1].envelope)
  BY <1>1, <1>4 DEF Chains
<1>5. UpTo(r, 0) = << >>
  BY <1>1, CutWhole
<1>6. ASSUME NEW i \in 1 .. n
      PROVE  /\ UpTo(r, i) # << >> /\ Latest(UpTo(r, i)).version = i
             /\ Before(UpTo(r, i)) = IF i = 1 THEN << >> ELSE UpTo(r, i - 1)
             /\ i > 1 => SameSource(Latest(UpTo(r, i)), Latest(UpTo(r, i - 1)))
  <2>1. i > 1 => Latest(UpTo(r, i - 1)) = r[i - 1].envelope
    BY <1>3, <1>4
  <2>2. i = 1 => i - 1 = 0
    OBVIOUS
  <2>3. Before(UpTo(r, i)) = IF i = 1 THEN << >> ELSE UpTo(r, i - 1)
    BY <1>3, <1>5, <2>2
  <2>. QED  BY <1>3, <1>4, <2>1, <2>3
<1>7. \A i \in 1 .. n : i = 1 \/ i - 1 \in 1 .. n
  OBVIOUS
<1>. QED  BY <1>2, <1>6, <1>7 DEF VerifyRecords

-----------------------------------------------------------------------------
(* The inductive invariant.                                                 *)

Calls == [at : {"idle", "head", "record", "commit", "return", "resolve", "resolve_record"},
          envelope : Envelopes \cup {NoEnvelope}, stamp : Stamps \cup {0},
          head : Chains, record : Chains]

Ledgers == UNION {[V -> Chains] : V \in SUBSET Nat}

Audits == [at : {"idle", "records", "done"}, records : Ledgers, promised : SUBSET Chains,
           head : Chains, clean : BOOLEAN]

\* A document of a version is a chain that ends at it.
Copies(documents) ==
    /\ documents \in Ledgers /\ IsFiniteSet(DOMAIN documents)
    /\ \A v \in DOMAIN documents : v \in Nat \ {0} /\ Len(documents[v]) = v

\* What is stored is of chains, and all of one until documents are lost.
Documents ==
    /\ head \in Chains /\ Copies(records)
    /\ loss \in {"none", "some", "all"}
    /\ loss = "none" => records = Prefixes(head, Len(head))

\* Every promised record is in the history of the head, or a document is left that
\* stands for what was lost: it is past the head, and its version is never created.
Kept == \A r \in answered : Extends(r, head)
Orphaned(documents) == \E u \in DOMAIN documents : u > Len(head)

Answers ==
    /\ answered \subseteq Chains
    /\ loss = "none" => Kept
    /\ loss = "some" => Kept \/ Orphaned(records)

\* What a call has read is in the history, and what was recorded since is stored.
Held(c) ==
    /\ c.at # "idle" => /\ c.envelope \in Envelopes /\ c.stamp \in Stamps
                        /\ c.stamp >= c.envelope.issued
    /\ c.at \in {"record", "resolve_record", "commit"} => Extends(c.head, head)
    /\ c.at \in {"record", "resolve_record"} => c.head # << >>
    /\ c.at \in {"record", "commit"} => Len(c.head) + 1 .. Len(head) \subseteq DOMAIN records
    /\ c.at = "commit" => /\ Follows(c.envelope, c.head)
                          /\ c.record = Append(c.head, Observation(c.envelope, c.stamp))
    /\ c.at = "return" => c.record # << >> /\ Extends(c.record, head)
    /\ c.at = "resolve" /\ loss = "none" => c.envelope.version <= Len(head)

Calling == call \in [Writers -> Calls] /\ \A w \in Writers : Held(call[w])

\* What an audit has read was stored, and stands for what was promised by then.
Auditing ==
    audit.at = "records" =>
        /\ Copies(audit.records) /\ DOMAIN audit.records \subseteq DOMAIN records
        /\ audit.promised \subseteq answered
        /\ loss = "none" => \E n \in 0 .. Len(head) : audit.records = Prefixes(head, n)
        /\ loss = "some" => Kept \/ Orphaned(audit.records)

Audited == audit \in Audits /\ Auditing /\ FalseAlarmsAreRaces /\ VerifiedIsComplete

Inv == Documents /\ Answers /\ Calling /\ Audited

-----------------------------------------------------------------------------
(* Steps of a call that store nothing.                                       *)

LEMMA StampsAndVersions ==
    /\ \A stamp \in Stamps : stamp \in Nat
    /\ \A envelope \in Envelopes : envelope.version \in Nat \ {0} /\ envelope.issued \in Nat
  BY ObservationsAssumption

LEMMA NoDocuments == << >> \in Ledgers /\ DOMAIN << >> = {}
<1>. DEFINE none == [v \in {} |-> << >>]
<1>1. none = << >>
  OBVIOUS
<1>2. none \in [{} -> Chains]
  OBVIOUS
<1>3. {} \in SUBSET Nat
  OBVIOUS
<1>. HIDE DEF none
<1>4. none \in Ledgers
  BY <1>2, <1>3 DEF Ledgers
<1>. QED  BY <1>1, <1>4 DEF none

LEMMA PrefixesNone ==
    ASSUME NEW r \in Chains
    PROVE  Prefixes(r, 0) = << >>
<1>1. 1 .. 0 = {}
  OBVIOUS
<1>2. Prefixes(r, 0) = [v \in {} |-> UpTo(r, v)]
  BY <1>1 DEF Prefixes
<1>. QED  BY <1>2

LEMMA CallStep ==
    ASSUME Inv, UNCHANGED <<records, head, audit, loss>>,
           NEW w \in Writers, NEW c \in Calls, Held(c), call' = [call EXCEPT ![w] = c],
           \/ answered' = answered
           \/ \E r \in Chains : r # << >> /\ Extends(r, head) /\ answered' = answered \cup {r}
    PROVE  Inv' /\ [Promise!Next]_Promise!vars
<1>1. Documents'
  BY DEF Inv, Documents, Copies
<1>2. Answers' /\ answered \subseteq answered' /\ (Kept => Kept')
  BY DEF Inv, Answers, Kept, Orphaned
<1>3. Calling'
  <2>1. call \in [Writers -> Calls] /\ \A x \in Writers : Held(call[x])
    BY DEF Inv, Calling
  <2>2. call' \in [Writers -> Calls]
    BY <2>1
  <2>3. \A x \in Writers : call'[x] = IF x = w THEN c ELSE call[x]
    BY <2>1
  <2>4. \A x \in Writers : Held(call'[x])
    BY <2>1, <2>3
  <2>5. ASSUME NEW x \in Writers
        PROVE  Held(call[x])'
    BY <2>4 DEF Held
  <2>. QED  BY <2>2, <2>5 DEF Calling
<1>4. Audited'
  <2>1. audit \in Audits /\ Auditing /\ FalseAlarmsAreRaces /\ VerifiedIsComplete
    BY DEF Inv, Audited
  <2>2. Auditing'
    BY <1>2, <2>1 DEF Auditing, Copies, Orphaned
  <2>. QED  BY <2>1, <2>2 DEF Audited, FalseAlarmsAreRaces, VerifiedIsComplete
<1>5. [Promise!Next]_Promise!vars
  <2>1. CASE answered' = answered
    BY <2>1 DEF Promise!vars
  <2>2. ASSUME NEW r \in Chains, r # << >>, Extends(r, head), answered' = answered \cup {r}
        PROVE  Promise!Next
    <3>1. Len(r) \in 0 .. Len(head) /\ r = SubSeq(head, 1, Len(r))
      <4>1. Len(r) \in Nat /\ Len(head) \in Nat
        BY ChainFacts DEF Inv, Documents
      <4>. QED  BY <2>2, <4>1 DEF Extends
    <3>2. r \in Promise!Histories \ {<< >>}
      BY <2>2, <3>1 DEF Promise!Histories
    <3>. QED  BY <2>2, <3>2 DEF Promise!Next, Promise!Answer
  <2>. QED  BY <2>1, <2>2
<1>. QED  BY <1>1, <1>2, <1>3, <1>4, <1>5 DEF Inv

\* A call that is over.
LEMMA IdleHeld == Idle \in Calls /\ Held(Idle)
<1>1. Idle.at = "idle"
  BY DEF Idle
<1>2. Idle \in Calls
  BY NoChain DEF Idle, Calls
<1>. QED  BY <1>1, <1>2 DEF Held

LEMMA CallRaises ==
    ASSUME Inv, UNCHANGED <<records, head, audit, loss>>, NEW w \in Writers, Raises(w)
    PROVE  Inv' /\ [Promise!Next]_Promise!vars
  BY IdleHeld, CallStep DEF Raises, Becomes

LEMMA CallReturns ==
    ASSUME Inv, UNCHANGED <<records, head, audit, loss>>, NEW w \in Writers,
           NEW r \in Chains, r # << >>, Extends(r, head), Returns(w, r)
    PROVE  Inv' /\ [Promise!Next]_Promise!vars
  BY IdleHeld, CallStep DEF Returns, Becomes

LEMMA ObserveStep ==
    ASSUME Inv, NEW w \in Writers, NEW envelope \in Envelopes, NEW stamp \in Stamps,
           Observe(w, envelope, stamp)
    PROVE  Inv' /\ [Promise!Next]_Promise!vars
<1>. DEFINE c == [Idle EXCEPT !.at = "head", !.envelope = envelope, !.stamp = stamp]
<1>1. PICK none \in Chains : none = << >>
  BY NoChain
<1>2. Idle \in [at : {"idle"}, envelope : {NoEnvelope}, stamp : {0}, head : Chains, record : Chains]
  BY <1>1 DEF Idle
<1>4. /\ c \in Calls /\ c.at = "head" /\ c.envelope = envelope /\ c.stamp = stamp
  BY <1>2 DEF Calls
<1>3. /\ stamp >= envelope.issued /\ UNCHANGED <<records, head, audit, loss, answered>>
      /\ call' = [call EXCEPT ![w] = c]
  BY DEF Observe, Becomes, stored
<1>. HIDE DEF c
<1>5. Held(c)
  BY <1>3, <1>4 DEF Held
<1>. QED  BY <1>3, <1>4, <1>5, CallStep

LEMMA TransitionStep ==
    ASSUME Inv, UNCHANGED <<records, head, audit, loss>>,
           NEW w \in Writers, call[w].at # "idle",
           NEW latest \in Chains, Extends(latest, head),
           Len(latest) + 1 .. Len(head) \subseteq DOMAIN records,
           Transition(w, latest)
    PROVE  Inv' /\ [Promise!Next]_Promise!vars
<1>1. CASE Raises(w)
  BY <1>1, CallRaises
<1>2. CASE Replays(call[w].envelope, latest) /\ Returns(w, latest)
  BY <1>2, CallReturns DEF Replays
<1>3. CASE /\ Follows(call[w].envelope, latest)
           /\ Becomes(w, [call[w] EXCEPT
                !.at = "commit", !.head = latest,
                !.record = Append(latest, Observation(call[w].envelope, call[w].stamp))])
           /\ UNCHANGED answered
  <2>1. /\ call[w] \in Calls /\ call[w].envelope \in Envelopes /\ call[w].stamp \in Stamps
        /\ call[w].stamp >= call[w].envelope.issued
    BY DEF Inv, Calling, Held
  <2>2. PICK b \in Calls : b = call[w]
    BY <2>1
  <2>3. /\ b.envelope \in Envelopes /\ b.stamp \in Stamps /\ b.stamp >= b.envelope.issued
        /\ Follows(b.envelope, latest)
    BY <1>3, <2>1, <2>2
  <2>4. PICK s : s = Append(latest, Observation(b.envelope, b.stamp))
    OBVIOUS
  <2>5. s \in Chains
    BY <2>3, <2>4, ChainGrows
  <2>. DEFINE c == [b EXCEPT !.at = "commit", !.head = latest, !.record = s]
  <2>6. call' = [call EXCEPT ![w] = c] /\ UNCHANGED answered
    BY <1>3, <2>2, <2>4 DEF Becomes
  <2>7. /\ c \in Calls /\ c.at = "commit" /\ c.head = latest /\ c.record = s
        /\ c.envelope = b.envelope /\ c.stamp = b.stamp
    BY <2>5 DEF Calls
  <2>. HIDE DEF c
  <2>8. Held(c)
    BY <2>3, <2>4, <2>7 DEF Held
  <2>. QED  BY <2>6, <2>7, <2>8, CallStep
<1>. QED  BY <1>1, <1>2, <1>3 DEF Transition

\* A call that goes to another place, and may take the head with it.
LEMMA CallMoves ==
    ASSUME Inv, UNCHANGED <<records, head, audit, loss, answered>>,
           NEW w \in Writers, NEW c \in Calls, call[w].at # "idle",
           call' = [call EXCEPT ![w] = c],
           c.envelope = call[w].envelope, c.stamp = call[w].stamp,
           \/ c.at = "head"
           \/ c.at \in {"record", "resolve_record"} /\ c.head = head /\ head # << >>
           \/ c.at = "resolve" /\ (loss = "none" => c.envelope.version <= Len(head))
    PROVE  Inv' /\ [Promise!Next]_Promise!vars
<1>1. /\ c.envelope \in Envelopes /\ c.stamp \in Stamps /\ c.stamp >= c.envelope.issued
  BY DEF Inv, Calling, Held
<1>2. Extends(head, head) /\ Len(head) + 1 .. Len(head) = {}
  <2>1. head \in Seq(Observations) /\ Len(head) \in Nat
    BY ChainFacts DEF Inv, Documents
  <2>. QED  BY <2>1, PrefixOrder
<1>3. Held(c)
  BY <1>1, <1>2 DEF Held
<1>. QED  BY <1>3, CallStep

-----------------------------------------------------------------------------
(* The commit.                                                              *)

LEMMA HeadChain ==
    ASSUME Inv
    PROVE  /\ head \in Chains /\ head \in Seq(Observations) /\ Len(head) \in Nat
           /\ DOMAIN records \subseteq Nat \ {0}
           /\ head = << >> => Len(head) = 0
           /\ head # << >> => Version(head) = Len(head) /\ Len(head) >= 1
           /\ loss = "none" => /\ DOMAIN records = 1 .. Len(head)
                               /\ head # << >> => records[Len(head)] = head
<1>1. /\ head \in Chains /\ head \in Seq(Observations) /\ Len(head) \in Nat
      /\ DOMAIN records \subseteq Nat \ {0}
      /\ loss = "none" => records = Prefixes(head, Len(head))
  BY ChainFacts DEF Inv, Documents, Copies
<1>2. /\ head = << >> => Len(head) = 0
      /\ head # << >> => Version(head) = Len(head) /\ Len(head) >= 1
  BY <1>1, ChainFacts DEF Version
<1>3. UpTo(head, Len(head)) = head
  BY <1>1, CutWhole
<1>4. DOMAIN Prefixes(head, Len(head)) = 1 .. Len(head)
  BY DEF Prefixes
<1>5. ASSUME head # << >>
      PROVE  Prefixes(head, Len(head))[Len(head)] = head
  <2>1. Len(head) \in 1 .. Len(head)
    BY <1>1, <1>2, <1>5
  <2>. QED  BY <1>3, <2>1 DEF Prefixes
<1>. QED  BY <1>1, <1>2, <1>4, <1>5

\* What a call holds, it holds when a record is added to the history.
LEMMA HeldGrows ==
    ASSUME NEW c \in Calls, Held(c), head \in Chains, head' \in Chains,
           Extends(head, head'), Len(head') = Len(head) + 1,
           DOMAIN records' = DOMAIN records \cup {Len(head) + 1}, loss' = loss
    PROVE  Held(c)'
<1>1. /\ head \in Seq(Observations) /\ head' \in Seq(Observations)
      /\ Len(head) \in Nat /\ Len(head') \in Nat
  BY ChainFacts
<1>2. c.head \in Chains /\ c.record \in Chains /\ c.envelope \in Envelopes \cup {NoEnvelope}
  BY DEF Calls
<1>3. /\ c.head \in Seq(Observations) /\ c.record \in Seq(Observations) /\ Len(c.head) \in Nat
  BY <1>2, ChainFacts
<1>4. /\ Extends(c.head, head) => Extends(c.head, head')
      /\ Extends(c.record, head) => Extends(c.record, head')
  BY <1>1, <1>3, PrefixOrder
<1>5. Len(c.head) + 1 .. Len(head) \subseteq DOMAIN records
        => Len(c.head) + 1 .. Len(head') \subseteq DOMAIN records'
  BY <1>1, <1>3
<1>6. c.at = "resolve" => c.envelope.version \in Nat
  BY StampsAndVersions DEF Held
<1>7. c.at = "resolve" /\ loss' = "none" => c.envelope.version <= Len(head')
  BY <1>1, <1>6 DEF Held
<1>. QED  BY <1>4, <1>5, <1>7 DEF Held

\* What is committed follows the head, in a version that is new.
LEMMA CommitFacts ==
    ASSUME Inv, NEW w \in Writers, At(w, "commit"), CreatesSucceed(w)
    PROVE  /\ call[w] \in Calls /\ call[w].head = head
           /\ call[w].envelope \in Envelopes /\ call[w].stamp \in Stamps
           /\ call[w].stamp >= call[w].envelope.issued
           /\ Follows(call[w].envelope, head)
           /\ call[w].record = Append(head, Observation(call[w].envelope, call[w].stamp))
           /\ Version(call[w].record) = Len(head) + 1 /\ Len(head) + 1 \notin DOMAIN records
           /\ call[w].record \in Chains /\ call[w].record # << >>
           /\ Len(call[w].record) = Len(head) + 1 /\ Extends(head, call[w].record)
<1>1. call[w] \in Calls /\ call[w].at = "commit" /\ Held(call[w])
  BY DEF Inv, Calling, At
<1>2. PICK c \in Calls : c = call[w] /\ c.at = "commit"
  BY <1>1
<1>3. /\ c.envelope \in Envelopes /\ c.stamp \in Stamps /\ c.stamp >= c.envelope.issued
      /\ Extends(c.head, head) /\ Len(c.head) + 1 .. Len(head) \subseteq DOMAIN records
      /\ Follows(c.envelope, c.head)
      /\ c.record = Append(c.head, Observation(c.envelope, c.stamp))
  BY <1>1, <1>2 DEF Held
<1>4. c.head \in Chains /\ c.head \in Seq(Observations) /\ Len(c.head) \in Nat
  BY ChainFacts DEF Calls
<1>5. /\ c.record \in Chains /\ c.record # << >> /\ Len(c.record) = Len(c.head) + 1
      /\ Extends(c.head, c.record) /\ Version(c.record) = Len(c.record)
  BY <1>3, <1>4, ChainGrows
<1>6. Version(c.record) \notin DOMAIN records
  BY <1>2 DEF CreatesSucceed
<1>7. head \in Seq(Observations) /\ Len(head) \in Nat
  BY HeadChain
<1>8. c.head = head
  <2>1. Len(c.head) <= Len(head)
    BY <1>3 DEF Extends
  <2>2. Len(c.head) = Len(head)
    BY <1>3, <1>4, <1>5, <1>6, <1>7, <2>1
  <2>. QED  BY <1>3, <1>4, <1>7, <2>2, PrefixOrder
<1>. QED  BY <1>2, <1>3, <1>5, <1>6, <1>8

LEMMA RecordedIs ==
    ASSUME Inv, NEW s \in Chains, NEW n \in Nat, n = Len(head) + 1, Len(s) = n,
           Extends(head, s), n \notin DOMAIN records,
           records' = [v \in DOMAIN records \cup {n} |-> IF v = n THEN s ELSE records[v]],
           head' = s, loss' = loss
    PROVE  Documents'
<1>1. PICK h \in Chains : h = head
  BY HeadChain
<1>2. /\ h \in Seq(Observations) /\ s \in Seq(Observations) /\ Len(h) \in Nat
      /\ n = Len(h) + 1 /\ Extends(h, s)
  BY <1>1, ChainFacts
<1>3. Copies(records')
  <2>1. PICK V \in SUBSET Nat : records \in [V -> Chains]
    BY DEF Inv, Documents, Copies, Ledgers
  <2>2. records' \in [V \cup {n} -> Chains] /\ V \cup {n} \in SUBSET Nat
    BY <2>1
  <2>3. records' \in Ledgers
    BY <2>2 DEF Ledgers
  <2>4. \A v \in DOMAIN records' : v \in Nat \ {0} /\ Len(records'[v]) = v
    <3>1. \A v \in DOMAIN records : v \in Nat \ {0} /\ Len(records[v]) = v
      BY DEF Inv, Documents, Copies
    <3>2. \A v \in DOMAIN records' : \/ (v = n /\ records'[v] = s)
                                    \/ (v \in DOMAIN records /\ records'[v] = records[v])
      BY <2>1
    <3>. QED  BY <1>2, <3>1, <3>2
  <2>5. IsFiniteSet(DOMAIN records \cup {n})
    BY FS_AddElement DEF Inv, Documents, Copies
  <2>6. DOMAIN records' = DOMAIN records \cup {n}
    OBVIOUS
  <2>. QED  BY <2>3, <2>4, <2>5, <2>6 DEF Copies
<1>4. ASSUME loss = "none"
      PROVE  records' = Prefixes(s, n)
  <2>1. records = Prefixes(h, Len(h))
    BY <1>1, <1>4 DEF Inv, Documents
  <2>2. DOMAIN records = 1 .. Len(h) /\ \A v \in 1 .. Len(h) : records[v] = UpTo(h, v)
    BY <2>1 DEF Prefixes
  <2>3. \A v \in 1 .. Len(h) : UpTo(h, v) = UpTo(s, v)
    BY <1>2, CutOfPrefix
  <2>4. UpTo(s, n) = s
    BY <1>2, CutWhole
  <2>5. DOMAIN records \cup {n} = 1 .. n
    BY <1>2, <2>2
  <2>6. \A v \in 1 .. n : (IF v = n THEN s ELSE records[v]) = UpTo(s, v)
    BY <1>2, <2>2, <2>3, <2>4
  <2>. QED  BY <2>5, <2>6 DEF Prefixes
<1>5. loss' \in {"none", "some", "all"}
  BY DEF Inv, Documents
<1>. QED  BY <1>3, <1>4, <1>5 DEF Documents, Copies

LEMMA CommitStep ==
    ASSUME Inv, NEW w \in Writers, Commit(w)
    PROVE  Inv' /\ [Promise!Next]_Promise!vars
<1>1. /\ At(w, "commit") /\ CreatesSucceed(w) /\ Writes(w)
      /\ Goes(w, "return") \/ UNCHANGED call
      /\ UNCHANGED <<audit, answered, observations, loss>>
  BY DEF Commit
<1>2. PICK c \in Calls : c = call[w]
  BY <1>1, CommitFacts
<1>3. PICK h \in Chains : h = head
  BY HeadChain
<1>4. /\ c.envelope \in Envelopes /\ c.stamp \in Stamps /\ c.stamp >= c.envelope.issued
      /\ Follows(c.envelope, h) /\ c.record = Append(h, Observation(c.envelope, c.stamp))
      /\ Len(h) + 1 \notin DOMAIN records /\ Version(c.record) = Len(h) + 1
      /\ c.record \in Chains /\ c.record # << >>
      /\ Len(c.record) = Len(h) + 1 /\ Extends(h, c.record)
  BY <1>1, <1>2, <1>3, CommitFacts
<1>5. PICK s \in Chains : s = c.record
  BY <1>4
<1>6. /\ h \in Seq(Observations) /\ s \in Seq(Observations) /\ Len(h) \in Nat
      /\ Len(s) = Len(h) + 1 /\ Extends(h, s)
  BY <1>4, <1>5, ChainFacts
<1>7. PICK n \in Nat : n = Len(h) + 1
  BY <1>6
<1>8. /\ head' = s
      /\ records' = [v \in DOMAIN records \cup {n} |-> IF v = n THEN s ELSE records[v]]
  BY <1>1, <1>2, <1>4, <1>5, <1>7 DEF Writes, Recorded
<1>9. Documents'
  BY <1>1, <1>3, <1>4, <1>6, <1>7, <1>8, RecordedIs
<1>10. DOMAIN records' = DOMAIN records \cup {n}
  BY <1>8
<1>11. answered \subseteq Chains /\ (Kept => Kept')
  <2>1. answered \subseteq Chains
    BY DEF Inv, Answers
  <2>2. \A r \in answered : r \in Seq(Observations)
    BY <2>1, ChainFacts
  <2>3. \A r \in answered : Extends(r, h) => Extends(r, s)
    BY <1>6, <2>2, PrefixOrder
  <2>. QED  BY <1>1, <1>3, <1>8, <2>1, <2>3 DEF Kept
<1>12. ASSUME NEW documents, DOMAIN documents \subseteq DOMAIN records, Orphaned(documents)
       PROVE  Orphaned(documents)'
  <2>1. PICK u \in DOMAIN documents : u > Len(h)
    BY <1>3, <1>12 DEF Orphaned
  <2>2. u \in Nat /\ u # n
    BY <1>4, <1>7, <1>12, <2>1, HeadChain
  <2>3. u > Len(s)
    BY <1>6, <1>7, <2>1, <2>2
  <2>. QED  BY <1>8, <2>3 DEF Orphaned
<1>13. Answers'
  <2>1. Orphaned(records) => Orphaned(records)'
    <3>1. ASSUME Orphaned(records)
          PROVE  \E u \in DOMAIN records : u > Len(s)
      <4>1. PICK documents : documents = records
        OBVIOUS
      <4>2. Orphaned(documents)'
        BY <1>12, <3>1, <4>1 DEF Orphaned
      <4>. QED  BY <1>8, <4>1, <4>2 DEF Orphaned
    <3>. QED  BY <1>8, <1>10, <3>1 DEF Orphaned
  <2>. QED  BY <1>1, <1>11, <2>1 DEF Inv, Answers
<1>14. Calling'
  <2>1. call \in [Writers -> Calls] /\ \A x \in Writers : Held(call[x])
    BY DEF Inv, Calling
  <2>2. ASSUME NEW b \in Calls, Held(b)
        PROVE  Held(b)'
    BY <1>1, <1>3, <1>6, <1>7, <1>8, <1>10, <2>2, HeldGrows
  <2>3. CASE UNCHANGED call
    <3>1. ASSUME NEW x \in Writers
          PROVE  Held(call[x])'
      <4>1. PICK b \in Calls : b = call[x] /\ Held(b)
        BY <2>1 DEF Held
      <4>2. Held(b)'
        BY <2>2, <4>1
      <4>. QED  BY <2>3, <4>1, <4>2 DEF Held
    <3>. QED  BY <2>1, <2>3, <3>1 DEF Calling
  <2>4. CASE Goes(w, "return")
    <3>. DEFINE d == [c EXCEPT !.at = "return"]
    <3>1. d \in Calls /\ d.at = "return" /\ d.envelope = c.envelope /\ d.stamp = c.stamp /\ d.record = s
      BY <1>5 DEF Calls
    <3>2. call' = [call EXCEPT ![w] = d]
      BY <1>2, <2>4 DEF Goes, Becomes
    <3>. HIDE DEF d
    <3>3. Held(d)'
      <4>1. s # << >> /\ Extends(s, s)
        BY <1>4, <1>5, <1>6, PrefixOrder
      <4>. QED  BY <1>4, <1>8, <3>1, <4>1 DEF Held
    <3>4. ASSUME NEW x \in Writers
          PROVE  Held(call[x])'
      <4>1. CASE x = w
        <5>1. call'[x] = d
          BY <2>1, <3>2, <4>1
        <5>. QED  BY <3>3, <5>1 DEF Held
      <4>2. CASE x # w
        <5>1. PICK b \in Calls : b = call[x] /\ Held(b)
          BY <2>1 DEF Held
        <5>2. call'[x] = b
          BY <2>1, <3>2, <4>2, <5>1
        <5>3. Held(b)'
          BY <2>2, <5>1
        <5>. QED  BY <5>2, <5>3 DEF Held
      <4>. QED  BY <4>1, <4>2
    <3>5. call' \in [Writers -> Calls]
      BY <2>1, <3>1, <3>2
    <3>. QED  BY <3>4, <3>5 DEF Calling
  <2>. QED  BY <1>1, <2>3, <2>4
<1>15. Audited'
  <2>1. audit \in Audits /\ Auditing /\ FalseAlarmsAreRaces /\ VerifiedIsComplete
    BY DEF Inv, Audited
  <2>2. Auditing'
    <3>. SUFFICES ASSUME audit.at = "records"
                  PROVE  Auditing'
      BY <1>1 DEF Auditing
    <3>1. PICK documents : documents = audit.records
      OBVIOUS
    <3>2. /\ Copies(documents) /\ DOMAIN documents \subseteq DOMAIN records
          /\ audit.promised \subseteq answered
          /\ loss = "none" => \E m \in 0 .. Len(h) : documents = Prefixes(h, m)
          /\ loss = "some" => Kept \/ Orphaned(documents)
      BY <1>3, <2>1, <3>1 DEF Auditing, Copies, Orphaned
    <3>3. \A m \in 0 .. Len(h) : m \in 0 .. Len(s) /\ Prefixes(h, m) = Prefixes(s, m)
      <4>1. ASSUME NEW m \in 0 .. Len(h)
            PROVE  \A v \in 1 .. m : UpTo(h, v) = UpTo(s, v)
        BY <1>6, CutOfPrefix
      <4>. QED  BY <1>6, <4>1 DEF Prefixes
    <3>4. loss = "some" => Kept' \/ Orphaned(documents)'
      BY <1>11, <1>12, <3>2
    <3>. QED  BY <1>1, <1>8, <1>10, <3>1, <3>2, <3>3, <3>4 DEF Auditing, Copies, Orphaned
  <2>. QED  BY <1>1, <2>1, <2>2 DEF Audited, FalseAlarmsAreRaces, VerifiedIsComplete
<1>16. Promise!Next
  <2>1. Promise!Accept(c.envelope, c.stamp)
    BY <1>1, <1>3, <1>4, <1>5, <1>8
       DEF Promise!Accept, Promise!Follows, Promise!SameSource, Promise!Latest,
           Promise!Observation, Follows, SameSource, Latest, Observation
  <2>. QED  BY <1>4, <2>1 DEF Promise!Next
<1>. QED  BY <1>9, <1>13, <1>14, <1>15, <1>16 DEF Inv

-----------------------------------------------------------------------------
(* The other steps of a call.                                                *)

\* A call that is not idle, as a value.
LEMMA Called ==
    ASSUME Inv, NEW w \in Writers
    PROVE  \E b \in Calls : b = call[w] /\ Held(b)
  BY DEF Inv, Calling, Held

LEMMA ReadHeadStep ==
    ASSUME Inv, NEW w \in Writers, ReadHead(w)
    PROVE  Inv' /\ [Promise!Next]_Promise!vars
<1>1. /\ call[w].at = "head" /\ UNCHANGED <<records, head, audit, loss>>
      /\ \/ head = << >> /\ Transition(w, << >>)
         \/ /\ head # << >> /\ UNCHANGED answered
            /\ Becomes(w, [call[w] EXCEPT !.at = "record", !.head = head])
  BY DEF ReadHead, At, stored
<1>2. PICK h \in Chains : h = head
  BY HeadChain
<1>3. CASE head = << >> /\ Transition(w, << >>)
  <2>1. Transition(w, h)
    BY <1>2, <1>3
  <2>2. Extends(h, head) /\ Len(h) + 1 .. Len(head) \subseteq DOMAIN records
    <3>1. Len(h) \in Nat /\ Extends(h, h)
      BY ChainFacts, PrefixOrder
    <3>2. Len(h) + 1 .. Len(h) = {}
      BY <3>1
    <3>. QED  BY <1>2, <3>1, <3>2
  <2>. QED  BY <1>1, <2>1, <2>2, TransitionStep
<1>4. CASE /\ head # << >> /\ UNCHANGED answered
           /\ Becomes(w, [call[w] EXCEPT !.at = "record", !.head = head])
  <2>1. PICK b \in Calls : b = call[w]
    BY Called
  <2>. DEFINE c == [b EXCEPT !.at = "record", !.head = h]
  <2>2. call' = [call EXCEPT ![w] = c]
    BY <1>2, <1>4, <2>1 DEF Becomes
  <2>3. /\ c \in Calls /\ c.at = "record" /\ c.head = h
        /\ c.envelope = b.envelope /\ c.stamp = b.stamp
    BY DEF Calls
  <2>. HIDE DEF c
  <2>. QED  BY <1>1, <1>2, <1>4, <2>1, <2>2, <2>3, CallMoves
<1>. QED  BY <1>1, <1>3, <1>4

LEMMA ReadRecordStep ==
    ASSUME Inv, NEW w \in Writers, ReadRecord(w)
    PROVE  Inv' /\ [Promise!Next]_Promise!vars
<1>1. /\ call[w].at = "record" /\ UNCHANGED <<records, head, audit, loss>>
      /\ Transition(w, call[w].head) \/ Raises(w)
  BY DEF ReadRecord, At, stored
<1>2. PICK b \in Calls : b = call[w] /\ Held(b)
  BY Called
<1>3. CASE Transition(w, call[w].head)
  <2>1. /\ b.head \in Chains /\ Extends(b.head, head)
        /\ Len(b.head) + 1 .. Len(head) \subseteq DOMAIN records
    BY <1>1, <1>2 DEF Held, Calls
  <2>2. Transition(w, b.head)
    BY <1>2, <1>3
  <2>. QED  BY <1>1, <2>1, <2>2, TransitionStep
<1>. QED  BY <1>1, <1>3, CallRaises

LEMMA ReturnStep ==
    ASSUME Inv, NEW w \in Writers, Return(w)
    PROVE  Inv' /\ [Promise!Next]_Promise!vars
<1>1. /\ call[w].at = "return" /\ UNCHANGED <<records, head, audit, loss>>
      /\ Returns(w, call[w].record)
  BY DEF Return, At, stored
<1>2. PICK b \in Calls : b = call[w] /\ Held(b)
  BY Called
<1>3. b.record \in Chains /\ b.record # << >> /\ Extends(b.record, head)
  BY <1>1, <1>2 DEF Held, Calls
<1>4. Returns(w, b.record)
  BY <1>1, <1>2
<1>. QED  BY <1>1, <1>3, <1>4, CallReturns

LEMMA AbortStep ==
    ASSUME Inv, NEW w \in Writers, Abort(w)
    PROVE  Inv' /\ [Promise!Next]_Promise!vars
<1>1. /\ call[w].at = "commit" /\ UNCHANGED <<records, head, audit, loss, answered>>
      /\ call' = [call EXCEPT ![w] =
                      [call[w] EXCEPT !.at = "head", !.head = << >>, !.record = << >>]]
  BY DEF Abort, At, stored, Becomes
<1>2. PICK b \in Calls : b = call[w]
  BY Called
<1>3. PICK none \in Chains : none = << >>
  BY NoChain
<1>. DEFINE c == [b EXCEPT !.at = "head", !.head = none, !.record = none]
<1>4. call' = [call EXCEPT ![w] = c]
  BY <1>1, <1>2, <1>3
<1>5. c \in Calls /\ c.at = "head" /\ c.envelope = b.envelope /\ c.stamp = b.stamp
  BY DEF Calls
<1>. HIDE DEF c
<1>. QED  BY <1>1, <1>2, <1>4, <1>5, CallMoves

\* Refused: while no document is lost, the version of the call was recorded.
LEMMA RefusedStep ==
    ASSUME Inv, NEW w \in Writers, Refused(w)
    PROVE  Inv' /\ [Promise!Next]_Promise!vars
<1>1. /\ call[w].at = "commit" /\ UNCHANGED <<records, head, audit, loss, answered>>
      /\ ~ CreatesSucceed(w)
      /\ call' = [call EXCEPT ![w] = [call[w] EXCEPT !.at = "resolve"]]
  BY DEF Refused, At, stored, Goes, Becomes
<1>2. PICK b \in Calls : b = call[w] /\ Held(b)
  BY Called
<1>3. PICK h \in Chains : h = head
  BY HeadChain
<1>. DEFINE c == [b EXCEPT !.at = "resolve"]
<1>4. call' = [call EXCEPT ![w] = c]
  BY <1>1, <1>2
<1>5. c \in Calls /\ c.at = "resolve" /\ c.envelope = b.envelope /\ c.stamp = b.stamp
  BY DEF Calls
<1>. HIDE DEF c
<1>6. ASSUME loss = "none"
      PROVE  c.envelope.version <= Len(h)
  <2>1. /\ b.envelope \in Envelopes /\ b.stamp \in Stamps
        /\ Follows(b.envelope, b.head) /\ b.head \in Chains
        /\ b.record = Append(b.head, Observation(b.envelope, b.stamp))
    BY <1>1, <1>2 DEF Held, Calls
  <2>2. Version(b.record) = b.envelope.version
    BY <2>1, ChainGrows
  <2>3. /\ Len(h) \in Nat /\ DOMAIN records = 1 .. Len(h)
        /\ h # << >> => Len(h) >= 1
    BY <1>3, <1>6, HeadChain
  <2>4. CASE Version(b.record) \in DOMAIN records
    BY <1>5, <2>2, <2>3, <2>4
  <2>5. CASE b.head = << >> /\ h # << >>
    <3>1. b.envelope.version = 1
      BY <2>1, <2>5 DEF Follows
    <3>. QED  BY <1>5, <2>3, <2>5, <3>1
  <2>. QED  BY <1>1, <1>2, <1>3, <2>4, <2>5 DEF CreatesSucceed
<1>. QED  BY <1>1, <1>2, <1>3, <1>4, <1>5, <1>6, CallMoves

LEMMA ResolveHeadStep ==
    ASSUME Inv, NEW w \in Writers, ResolveHead(w)
    PROVE  Inv' /\ [Promise!Next]_Promise!vars
<1>1. /\ call[w].at = "resolve" /\ UNCHANGED <<records, head, audit, loss>>
      /\ \/ Raises(w)
         \/ /\ head # << >> /\ UNCHANGED answered
            /\ Becomes(w, [call[w] EXCEPT !.at = "resolve_record", !.head = head])
  BY DEF ResolveHead, At, stored
<1>2. PICK h \in Chains : h = head
  BY HeadChain
<1>3. CASE /\ head # << >> /\ UNCHANGED answered
           /\ Becomes(w, [call[w] EXCEPT !.at = "resolve_record", !.head = head])
  <2>1. PICK b \in Calls : b = call[w]
    BY Called
  <2>. DEFINE c == [b EXCEPT !.at = "resolve_record", !.head = h]
  <2>2. call' = [call EXCEPT ![w] = c]
    BY <1>2, <1>3, <2>1 DEF Becomes
  <2>3. /\ c \in Calls /\ c.at = "resolve_record" /\ c.head = h
        /\ c.envelope = b.envelope /\ c.stamp = b.stamp
    BY DEF Calls
  <2>. HIDE DEF c
  <2>. QED  BY <1>1, <1>2, <1>3, <2>1, <2>2, <2>3, CallMoves
<1>. QED  BY <1>1, <1>3, CallRaises

LEMMA ResolveRecordStep ==
    ASSUME Inv, NEW w \in Writers, ResolveRecord(w)
    PROVE  Inv' /\ [Promise!Next]_Promise!vars
<1>1. /\ call[w].at = "resolve_record" /\ UNCHANGED <<records, head, audit, loss>>
      /\ Returns(w, call[w].head) \/ Raises(w)
  BY DEF ResolveRecord, At, stored
<1>2. PICK b \in Calls : b = call[w] /\ Held(b)
  BY Called
<1>3. b.head \in Chains /\ b.head # << >> /\ Extends(b.head, head)
  BY <1>1, <1>2 DEF Held, Calls
<1>4. CASE Returns(w, call[w].head)
  BY <1>1, <1>2, <1>3, <1>4, CallReturns
<1>. QED  BY <1>1, <1>4, CallRaises

LEMMA FailStep ==
    ASSUME Inv, NEW w \in Writers, Fail(w)
    PROVE  Inv' /\ [Promise!Next]_Promise!vars
  BY CallRaises DEF Fail, stored

-----------------------------------------------------------------------------
(* The audit, and the loss of documents.                                     *)

LEMMA AuditRecordsStep ==
    ASSUME Inv, AuditRecords
    PROVE  Inv' /\ [Promise!Next]_Promise!vars
<1>1. /\ UNCHANGED <<records, head, call, answered, loss>>
      /\ audit' = [NoAudit EXCEPT !.at = "records", !.records = records, !.promised = answered]
  BY DEF AuditRecords, stored
<1>2. records \in Ledgers /\ answered \subseteq Chains /\ Copies(records)
  BY DEF Inv, Documents, Copies, Answers
<1>3. PICK none \in Chains : none = << >>
  BY NoChain
<1>4. audit' = [at |-> "records", records |-> records, promised |-> answered,
                head |-> none, clean |-> TRUE]
  BY <1>1, <1>3 DEF NoAudit
<1>5. /\ audit' \in Audits /\ audit'.at = "records"
      /\ audit'.records = records /\ audit'.promised = answered
  BY <1>2, <1>4 DEF Audits
<1>6. Documents' /\ Answers'
  BY <1>1 DEF Inv, Documents, Copies, Answers, Kept, Orphaned
<1>7. Calling'
  BY <1>1 DEF Inv, Calling, Held
<1>8. Auditing'
  <2>1. PICK documents : documents = records /\ Copies(documents)
    BY <1>2
  <2>2. loss = "none" => \E n \in 0 .. Len(head) : documents = Prefixes(head, n)
    <3>1. Len(head) \in 0 .. Len(head)
      BY HeadChain
    <3>. QED  BY <2>1, <3>1 DEF Inv, Documents
  <2>3. loss = "some" => Kept \/ Orphaned(documents)
    BY <2>1 DEF Inv, Answers, Orphaned
  <2>4. audit'.records = documents
    BY <1>5, <2>1
  <2>. QED  BY <1>1, <1>5, <2>1, <2>2, <2>3, <2>4 DEF Auditing, Copies, Kept, Orphaned
<1>9. FalseAlarmsAreRaces' /\ VerifiedIsComplete'
  BY <1>5 DEF FalseAlarmsAreRaces, VerifiedIsComplete
<1>10. UNCHANGED Promise!vars
  BY <1>1 DEF Promise!vars
<1>. QED  BY <1>5, <1>6, <1>7, <1>8, <1>9, <1>10 DEF Inv, Audited

\* What the auditor finds clean ends with the head, and has nothing past it.
LEMMA CleanEnds ==
    ASSUME NEW documents, Copies(documents), NEW h \in Chains, Clean(documents, h)
    PROVE  DOMAIN documents = 1 .. Len(h)
<1>. DEFINE n == Cardinality(DOMAIN documents)
<1>1. /\ DOMAIN documents = 1 .. n
      /\ h = IF documents = << >> THEN << >> ELSE documents[n]
  BY DEF Clean, Chain
<1>2. CASE documents = << >>
  <2>1. h = << >> /\ DOMAIN documents = {}
    BY <1>1, <1>2, NoDocuments
  <2>2. Len(h) = 0
    BY <2>1, ChainFacts
  <2>3. 1 .. 0 = {}
    OBVIOUS
  <2>. QED  BY <2>1, <2>2, <2>3
<1>3. CASE documents # << >>
  <2>1. DOMAIN documents # {}
    <3>1. PICK V \in SUBSET Nat : documents \in [V -> Chains]
      BY DEF Copies, Ledgers
    <3>. QED  BY <1>3, <3>1
  <2>2. PICK v \in DOMAIN documents : TRUE
    BY <2>1
  <2>3. n \in Nat
    BY FS_CardinalityType DEF Copies
  <2>4. n \in DOMAIN documents /\ h = documents[n]
    BY <1>1, <1>3, <2>2, <2>3
  <2>5. Len(h) = n
    BY <2>4 DEF Copies
  <2>. QED  BY <1>1, <2>5
<1>. QED  BY <1>2, <1>3

\* What is still as it was written is clean.
LEMMA PrefixesAreClean ==
    ASSUME NEW h \in Chains
    PROVE  /\ Clean(Prefixes(h, Len(h)), h)
           /\ \A n \in 0 .. Len(h) : Cardinality(DOMAIN Prefixes(h, n)) = n
<1>1. h \in Seq(Observations) /\ Len(h) \in Nat /\ (h # << >> => Len(h) >= 1) /\ Len(h) \in 0 .. Len(h)
  BY ChainFacts
<1>2. ASSUME NEW n \in 0 .. Len(h)
      PROVE  DOMAIN Prefixes(h, n) = 1 .. n /\ Cardinality(1 .. n) = n
  <2>1. n \in Nat /\ 1 \in Int /\ n \in Int /\ n - 1 + 1 = n /\ (1 > n => n = 0)
    BY <1>1
  <2>2. Cardinality(1 .. n) = IF 1 > n THEN 0 ELSE n - 1 + 1
    BY <2>1, FS_Interval
  <2>. QED  BY <2>1, <2>2 DEF Prefixes
<1>3. PICK n \in 0 .. Len(h) : n = Len(h)
  BY <1>1
<1>4. PICK P : P = Prefixes(h, n)
  OBVIOUS
<1>5. DOMAIN P = 1 .. n /\ Cardinality(DOMAIN P) = n /\ \A v \in 1 .. n : P[v] = UpTo(h, v)
  BY <1>2, <1>4 DEF Prefixes
<1>6. P = [v \in 1 .. n |-> P[v]]
  BY <1>4 DEF Prefixes
<1>7. Chain(P)
  <2>1. VerifyRecords(P)
    BY <1>4, PrefixesVerify
  <2>2. VerifyRecords([v \in 1 .. n |-> P[v]])
    BY <1>6, <2>1
  <2>3. VerifyRecords([v \in 1 .. Cardinality(DOMAIN P) |-> P[v]])
    BY <1>5, <2>2
  <2>. QED  BY <1>5, <2>3 DEF Chain
<1>8. h = IF P = << >> THEN << >> ELSE P[n]
  <2>1. CASE P = << >>
    <3>1. n = 0
      <4>1. 1 .. n = {}
        BY <1>5, <2>1, NoDocuments
      <4>. QED  BY <1>1, <1>3, <4>1
    <3>. QED  BY <1>1, <1>3, <2>1, <3>1
  <2>2. CASE P # << >>
    <3>1. n # 0
      BY <1>4, <2>2, PrefixesNone
    <3>2. n \in 1 .. n
      BY <1>1, <1>3, <3>1
    <3>3. UpTo(h, n) = h
      BY <1>1, <1>3, CutWhole
    <3>. QED  BY <1>5, <2>2, <3>2, <3>3
  <2>. QED  BY <2>1, <2>2
<1>9. Clean(P, h)
  BY <1>5, <1>7, <1>8 DEF Clean
<1>. QED  BY <1>2, <1>3, <1>4, <1>9

LEMMA AuditHeadStep ==
    ASSUME Inv, AuditHead
    PROVE  Inv' /\ [Promise!Next]_Promise!vars
<1>1. /\ UNCHANGED <<records, head, call, answered, loss>> /\ audit.at = "records"
      /\ audit' = [audit EXCEPT !.at = "done", !.head = head, !.clean = Clean(audit.records, head)]
  BY DEF AuditHead, stored
<1>2. PICK h \in Chains : h = head
  BY HeadChain
<1>3. PICK documents \in Ledgers : documents = audit.records
  BY DEF Inv, Audited, Audits
<1>4. PICK b \in BOOLEAN : b <=> Clean(documents, h)
  OBVIOUS
<1>5. /\ audit' \in Audits /\ audit'.at = "done" /\ audit'.head = h
      /\ audit'.records = documents /\ audit'.promised = audit.promised
      /\ audit'.clean <=> Clean(documents, h)
  <2>1. audit \in Audits
    BY DEF Inv, Audited
  <2>2. audit'.clean <=> Clean(documents, h)
    BY <1>1, <1>2, <1>3, <2>1 DEF Audits
  <2>3. Clean(documents, h) \in BOOLEAN
    BY DEF Clean, Chain
  <2>4. Clean(audit.records, head) \in BOOLEAN
    BY <1>2, <1>3, <2>3
  <2>5. audit' \in Audits
    BY <1>1, <1>2, <2>1, <2>4 DEF Audits
  <2>6. /\ audit'.at = "done" /\ audit'.head = h
        /\ audit'.records = documents /\ audit'.promised = audit.promised
    BY <1>1, <1>2, <1>3, <2>1 DEF Audits
  <2>. QED  BY <2>2, <2>5, <2>6
<1>6. /\ Copies(documents) /\ audit.promised \subseteq answered
      /\ loss = "none" => \E n \in 0 .. Len(h) : documents = Prefixes(h, n)
      /\ loss = "some" => Kept \/ Orphaned(documents)
      /\ loss \in {"none", "some", "all"}
  BY <1>1, <1>2, <1>3 DEF Inv, Audited, Auditing, Documents, Copies, Orphaned
<1>7. Documents' /\ Answers'
  BY <1>1 DEF Inv, Documents, Copies, Answers, Kept, Orphaned
<1>8. Calling'
  BY <1>1 DEF Inv, Calling, Held
<1>9. Auditing'
  BY <1>5 DEF Auditing
<1>10. FalseAlarmsAreRaces'
  <2>1. ASSUME ~ Clean(documents, h), loss = "none"
        PROVE  Len(h) > Cardinality(DOMAIN documents)
    <3>1. PICK n \in 0 .. Len(h) : documents = Prefixes(h, n)
      BY <1>6, <2>1
    <3>2. n # Len(h) /\ Cardinality(DOMAIN documents) = n
      BY <2>1, <3>1, PrefixesAreClean
    <3>3. Len(h) \in Nat
      BY ChainFacts
    <3>. QED  BY <3>2, <3>3
  <2>. QED  BY <1>1, <1>5, <2>1 DEF FalseAlarmsAreRaces
<1>11. VerifiedIsComplete'
  <2>1. ASSUME Clean(documents, h), loss # "all"
        PROVE  \A r \in audit.promised : Extends(r, h)
    <3>1. ~ Orphaned(documents)
      <4>1. DOMAIN documents = 1 .. Len(h) /\ Len(h) \in Nat
        BY <1>6, <2>1, CleanEnds, ChainFacts
      <4>. QED  BY <1>2, <4>1 DEF Orphaned
    <3>2. Kept
      BY <1>6, <2>1, <3>1 DEF Inv, Answers
    <3>. QED  BY <1>2, <1>6, <3>2 DEF Kept
  <2>. QED  BY <1>1, <1>5, <2>1 DEF VerifiedIsComplete
<1>12. UNCHANGED Promise!vars
  BY <1>1 DEF Promise!vars
<1>. QED  BY <1>5, <1>7, <1>8, <1>9, <1>10, <1>11, <1>12 DEF Inv, Audited

LEMMA LoseStep ==
    ASSUME Inv, Lose
    PROVE  Inv' /\ [Promise!Next]_Promise!vars
<1>1. /\ loss = "none" /\ head # << >> /\ audit.at # "records"
      /\ \A w \in Writers : call[w].at = "idle"
      /\ UNCHANGED <<call, audit, answered>>
  BY DEF Lose, At
<1>2. PICK versions \in SUBSET DOMAIN records :
          /\ records' = [v \in versions |-> records[v]]
          /\ head' \in {head, << >>}
          /\ loss' = IF versions = {} /\ head' = << >> THEN "all" ELSE "some"
  BY DEF Lose
<1>3. PICK h \in Chains : h = head
  BY HeadChain
<1>4. PICK none \in Chains : none = << >> /\ Len(none) = 0
  BY NoChain, ChainFacts
<1>5. Copies(records')
  <2>1. PICK V \in SUBSET Nat : records \in [V -> Chains]
    BY DEF Inv, Documents, Copies, Ledgers
  <2>2. records' \in [versions -> Chains] /\ versions \in SUBSET Nat
    BY <1>2, <2>1
  <2>3. IsFiniteSet(versions)
    BY FS_Subset DEF Inv, Documents, Copies
  <2>4. \A v \in DOMAIN records : v \in Nat \ {0} /\ Len(records[v]) = v
    BY DEF Inv, Documents, Copies
  <2>5. records' \in Ledgers /\ DOMAIN records' = versions
    BY <2>2 DEF Ledgers
  <2>. QED  BY <1>2, <2>3, <2>4, <2>5 DEF Copies
<1>6. Documents'
  BY <1>2, <1>3, <1>4, <1>5 DEF Documents, Copies
<1>7. Answers'
  <2>1. answered \subseteq Chains /\ Kept
    BY <1>1 DEF Inv, Answers
  <2>2. CASE head' = head
    BY <1>1, <1>2, <2>1, <2>2 DEF Answers, Kept
  <2>3. CASE head' = << >> /\ versions # {}
    <3>1. PICK u \in versions : u \in Nat \ {0}
      BY <2>3, HeadChain
    <3>2. Len(head') = 0 /\ u \in DOMAIN records'
      BY <1>2, <1>4, <2>3
    <3>3. Orphaned(records)'
      BY <3>1, <3>2 DEF Orphaned
    <3>. QED  BY <1>1, <1>2, <2>1, <3>3 DEF Answers
  <2>4. CASE head' = << >> /\ versions = {}
    BY <1>1, <1>2, <2>1, <2>4 DEF Answers
  <2>. QED  BY <1>2, <2>2, <2>3, <2>4
<1>8. Calling'
  BY <1>1 DEF Inv, Calling, Held
<1>9. Audited'
  BY <1>1, <1>2 DEF Inv, Audited, Auditing, FalseAlarmsAreRaces, VerifiedIsComplete
<1>10. Promise!Next
  <2>1. Len(h) \in Nat /\ UpTo(h, Len(h)) = h /\ UpTo(h, 0) = << >>
    BY ChainFacts, CutWhole
  <2>2. h = SubSeq(h, 1, Len(h)) /\ << >> = SubSeq(h, 1, 0)
        /\ 0 \in 0 .. Len(h) /\ Len(h) \in 0 .. Len(h)
    BY <2>1 DEF UpTo
  <2>3. head' \in Promise!Histories
    BY <1>2, <1>3, <2>2 DEF Promise!Histories
  <2>. QED  BY <1>1, <2>3 DEF Promise!Next, Promise!LoseEnd
<1>. QED  BY <1>6, <1>7, <1>8, <1>9, <1>10 DEF Inv

-----------------------------------------------------------------------------
(* The theorems.                                                             *)

LEMMA InvInit == Init => Inv /\ Promise!Init
<1>. SUFFICES ASSUME Init
              PROVE  Inv /\ Promise!Init
  OBVIOUS
<1>1. /\ records = << >> /\ head = << >> /\ call = [w \in Writers |-> Idle]
      /\ audit = NoAudit /\ answered = {} /\ loss = "none"
  BY DEF Init
<1>2. head \in Chains /\ Len(head) = 0
  BY <1>1, NoChain, ChainFacts
<1>3. Copies(records)
  BY <1>1, NoDocuments, FS_EmptySet DEF Copies
<1>4. records = Prefixes(head, Len(head))
  BY <1>1, <1>2, PrefixesNone
<1>5. Calling
  BY <1>1, IdleHeld DEF Calling
<1>6. audit \in Audits /\ audit.at = "idle"
  BY <1>1, NoChain, NoDocuments DEF NoAudit, Audits
<1>7. Audited
  BY <1>6 DEF Audited, Auditing, FalseAlarmsAreRaces, VerifiedIsComplete
<1>8. Documents /\ Answers
  BY <1>1, <1>2, <1>3, <1>4 DEF Documents, Answers, Kept
<1>. QED  BY <1>1, <1>5, <1>7, <1>8 DEF Inv, Promise!Init

LEMMA InvStep == Inv /\ [Next]_vars => Inv' /\ [Promise!Next]_Promise!vars
<1>. SUFFICES ASSUME Inv, [Next]_vars
              PROVE  Inv' /\ [Promise!Next]_Promise!vars
  OBVIOUS
<1>1. ASSUME NEW w \in Writers, NEW envelope \in Envelopes, NEW stamp \in Stamps,
             Observe(w, envelope, stamp)
      PROVE  Inv' /\ [Promise!Next]_Promise!vars
  BY <1>1, ObserveStep
<1>2. ASSUME NEW w \in Writers, ReadHead(w) \/ ReadRecord(w)
      PROVE  Inv' /\ [Promise!Next]_Promise!vars
  BY <1>2, ReadHeadStep, ReadRecordStep
<1>3. ASSUME NEW w \in Writers, Commit(w) \/ Return(w) \/ Abort(w) \/ Refused(w)
      PROVE  Inv' /\ [Promise!Next]_Promise!vars
  BY <1>3, CommitStep, ReturnStep, AbortStep, RefusedStep
<1>4. ASSUME NEW w \in Writers, ResolveHead(w) \/ ResolveRecord(w) \/ Fail(w)
      PROVE  Inv' /\ [Promise!Next]_Promise!vars
  BY <1>4, ResolveHeadStep, ResolveRecordStep, FailStep
<1>5. CASE AuditRecords \/ AuditHead \/ Lose
  BY <1>5, AuditRecordsStep, AuditHeadStep, LoseStep
<1>6. CASE UNCHANGED vars
  <2>1. UNCHANGED <<records, head, call, audit, answered, loss>>
    BY <1>6 DEF vars
  <2>2. Documents' /\ Answers'
    BY <2>1 DEF Inv, Documents, Copies, Answers, Kept, Orphaned
  <2>3. Calling'
    BY <2>1 DEF Inv, Calling, Held
  <2>4. Audited'
    BY <2>1 DEF Inv, Audited, Auditing, Copies, Kept, Orphaned,
                FalseAlarmsAreRaces, VerifiedIsComplete
  <2>. QED  BY <2>1, <2>2, <2>3, <2>4 DEF Inv, Promise!vars
<1>. QED  BY <1>1, <1>2, <1>3, <1>4, <1>5, <1>6 DEF Next

LEMMA InvAlways == Spec => []Inv
<1>1. Init => Inv
  BY InvInit
<1>2. Inv /\ [Next]_vars => Inv'
  BY InvStep
<1>. QED  BY <1>1, <1>2, PTL DEF Spec

\* A writer of the Firestore ledger whose commit is refused while no document is
\* lost finds what it lost to (LostRacesAreTold): _resolve_create_race's reports of a
\* missing head or record and of a ledger that "advanced unexpectedly" are of damage.
THEOREM LosersAreTold == Spec => []LostRacesAreTold
<1>1. Inv => LostRacesAreTold
  <2>. SUFFICES ASSUME Inv, NEW w \in Writers, At(w, "resolve"), loss = "none"
                PROVE  head # << >> /\ Backed(head) /\ ~ Follows(call[w].envelope, head)
    BY DEF LostRacesAreTold
  <2>1. PICK b \in Calls : b = call[w] /\ Held(b)
    BY Called
  <2>2. /\ b.envelope \in Envelopes /\ b.envelope.version \in Nat \ {0}
        /\ b.envelope.version <= Len(head)
    BY <2>1, StampsAndVersions DEF Held, At
  <2>3. /\ head # << >> /\ Version(head) = Len(head) /\ Len(head) \in Nat
        /\ DOMAIN records = 1 .. Len(head) /\ records[Len(head)] = head
    BY <2>2, HeadChain
  <2>4. Backed(head)
    BY <2>2, <2>3 DEF Backed
  <2>5. ~ Follows(b.envelope, head)
    BY <2>2, <2>3 DEF Follows, Version
  <2>. QED  BY <2>1, <2>3, <2>4, <2>5
<1>. QED  BY <1>1, InvAlways, PTL

\* verify() of a Firestore ledger that lost no document reports trouble only when a
\* checkpoint was recorded between its two reads (FalseAlarmsAreRaces).
THEOREM AlarmsAreRaces == Spec => []FalseAlarmsAreRaces
<1>1. Inv => FalseAlarmsAreRaces
  BY DEF Inv, Audited
<1>. QED  BY <1>1, InvAlways, PTL

\* A Firestore ledger that verifies holds every record it had answered with when
\* verify() began, unless all its documents were lost (VerifiedIsComplete).
THEOREM CleanIsComplete == Spec => []VerifiedIsComplete
<1>1. Inv => VerifiedIsComplete
  BY DEF Inv, Audited
<1>. QED  BY <1>1, InvAlways, PTL

\* The head of the Firestore ledger is the history a witness promises to keep
\* (WitnessHistory), of which a loss of documents takes the end only.
THEOREM KeepsTheHistory == Spec => ImplementsWitnessHistory
<1>1. Init => Promise!Init
  BY InvInit
<1>2. Inv /\ [Next]_vars => [Promise!Next]_Promise!vars
  BY InvStep
<1>. QED  BY <1>1, <1>2, InvAlways, PTL DEF Spec, ImplementsWitnessHistory, Promise!Spec

-----------------------------------------------------------------------------
(* The ledger of files (FileWitness).                                       *)

-----------------------------------------------------------------------------
(* What the files of a directory hold.                                      *)

\* Records as observe() makes them: not empty, no stamp before its envelope's.
Witnessed == {r \in Chains : r # << >> /\ \A i \in DOMAIN r : r[i].stamp >= r[i].envelope.issued}
Contents == [record : Witnessed, written : BOOLEAN, synced : BOOLEAN, entered : BOOLEAN]

\* The files of a directory hold beginnings of one chain, each to its version.
IsDirectory(F) ==
    /\ IsFiniteSet(DOMAIN F) /\ DOMAIN F \subseteq Nat \ {0}
    /\ F \in [DOMAIN F -> Contents]
    /\ \A v \in DOMAIN F : Len(F[v].record) = v
    /\ \A v \in DOMAIN F : \A u \in DOMAIN F : u <= v => F[u].record = UpTo(F[v].record, u)

\* The versions up to n are there and written.
Sound(F, n) == \A v \in 1 .. n : v \in DOMAIN F /\ F[v].written

\* Readable, History and Stored, of any files.
ReadableIn(F, listed) ==
    /\ listed = 1 .. Cardinality(listed)
    /\ \A v \in listed : F[v].written
    /\ VerifyRecords([v \in 1 .. Cardinality(listed) |-> F[v].record])
HistoryIn(F, listed) == IF listed = {} THEN << >> ELSE F[Cardinality(listed)].record
StoredIn(F) == HistoryIn(F, {v \in DOMAIN F : 1 .. v \subseteq DOMAIN F /\ ReadableIn(F, 1 .. v)})

\* The history that ends at a version.
Ending(F, n) == IF n = 0 THEN << >> ELSE F[n].record

LEMMA DirectoryFacts ==
    ASSUME NEW F, IsDirectory(F)
    PROVE  /\ \A v \in DOMAIN F : /\ v \in Nat /\ v # 0
                                  /\ F[v].record \in Witnessed /\ F[v].record \in Chains
                                  /\ F[v].record # << >> /\ Len(F[v].record) = v
           /\ \A v \in DOMAIN F : \A u \in DOMAIN F : u <= v => F[u].record = UpTo(F[v].record, u)
           /\ IsFiniteSet(DOMAIN F)
  BY DEF IsDirectory, Contents, Witnessed

LEMMA EndingFacts ==
    ASSUME NEW F, IsDirectory(F), NEW n \in Nat, 1 .. n \subseteq DOMAIN F
    PROVE  /\ Ending(F, n) \in Chains /\ Len(Ending(F, n)) = n
           /\ n # 0 => Ending(F, n) \in Witnessed /\ Ending(F, n) # << >>
           /\ \A m \in 0 .. n : Ending(F, m) = UpTo(Ending(F, n), m)
<1>1. n # 0 => n \in DOMAIN F
  OBVIOUS
<1>2. /\ n # 0 => /\ Ending(F, n) \in Witnessed /\ Ending(F, n) \in Chains
                  /\ Ending(F, n) # << >> /\ Len(Ending(F, n)) = n
      /\ n = 0 => Ending(F, n) = << >>
  BY <1>1, DirectoryFacts DEF Ending
<1>3. Ending(F, n) \in Chains /\ Len(Ending(F, n)) = n
  BY <1>2, NoChain, ChainFacts
<1>4. ASSUME NEW m \in 0 .. n
      PROVE  Ending(F, m) = UpTo(Ending(F, n), m)
  <2>1. CASE m = 0
    <3>1. Ending(F, n) \in Seq(Observations)
      BY <1>3, ChainFacts
    <3>2. UpTo(Ending(F, n), 0) = << >>
      BY <3>1, CutWhole
    <3>. QED  BY <2>1, <3>2 DEF Ending
  <2>2. CASE m # 0
    <3>1. m \in DOMAIN F /\ n \in DOMAIN F /\ m <= n /\ n # 0
      BY <2>2
    <3>2. F[m].record = UpTo(F[n].record, m)
      BY <3>1, DirectoryFacts
    <3>. QED  BY <2>2, <3>1, <3>2 DEF Ending
  <2>. QED  BY <2>1, <2>2
<1>. QED  BY <1>2, <1>3, <1>4

\* The first versions verify, so they are readable when they are written.
LEMMA ReadsAre ==
    ASSUME NEW F, IsDirectory(F), NEW n \in Nat
    PROVE  /\ Sound(F, n) <=> 1 .. n \subseteq DOMAIN F /\ ReadableIn(F, 1 .. n)
           /\ HistoryIn(F, 1 .. n) = Ending(F, n)
<1>1. Cardinality(1 .. n) = n
  BY FS_Interval
<1>2. ASSUME 1 .. n \subseteq DOMAIN F
      PROVE  VerifyRecords([v \in 1 .. n |-> F[v].record])
  <2>1. PICK r \in Chains : r = Ending(F, n)
    BY <1>2, EndingFacts
  <2>2. Len(r) = n /\ \A m \in 0 .. n : Ending(F, m) = UpTo(r, m)
    BY <1>2, <2>1, EndingFacts
  <2>3. \A v \in 1 .. n : F[v].record = UpTo(r, v)
    BY <2>2 DEF Ending
  <2>4. [v \in 1 .. n |-> F[v].record] = Prefixes(r, n)
    BY <2>3 DEF Prefixes
  <2>5. n \in 0 .. Len(r)
    BY <2>2
  <2>6. VerifyRecords(Prefixes(r, n))
    BY <2>5, PrefixesVerify
  <2>. QED  BY <2>4, <2>6
<1>3. Sound(F, n) => 1 .. n \subseteq DOMAIN F
  BY DEF Sound
<1>4. Sound(F, n) => ReadableIn(F, 1 .. n)
  BY <1>1, <1>2, <1>3 DEF Sound, ReadableIn
<1>5. 1 .. n \subseteq DOMAIN F /\ ReadableIn(F, 1 .. n) => Sound(F, n)
  BY DEF Sound, ReadableIn
<1>6. HistoryIn(F, 1 .. n) = Ending(F, n)
  <2>1. 1 .. n = {} <=> n = 0
    OBVIOUS
  <2>. QED  BY <1>1, <2>1 DEF HistoryIn, Ending
<1>. QED  BY <1>3, <1>4, <1>5, <1>6

LEMMA ListedAre ==
    ASSUME NEW F, IsDirectory(F), NEW listed, listed \subseteq DOMAIN F, ReadableIn(F, listed)
    PROVE  \E n \in Nat : listed = 1 .. n /\ Sound(F, n) /\ HistoryIn(F, listed) = Ending(F, n)
<1>1. IsFiniteSet(listed) /\ Cardinality(listed) \in Nat
  BY DirectoryFacts, FS_Subset, FS_CardinalityType
<1>2. listed = 1 .. Cardinality(listed)
  BY DEF ReadableIn
<1>. QED  BY <1>1, <1>2, ReadsAre

LEMMA SoundBelow ==
    ASSUME NEW F, NEW n \in Nat, NEW m \in 0 .. n, Sound(F, n)
    PROVE  Sound(F, m)
<1>1. \A v \in 1 .. m : v \in 1 .. n
  OBVIOUS
<1>. QED  BY <1>1 DEF Sound

\* The longest readable prefix.
LEMMA Deepest ==
    ASSUME NEW F, IsDirectory(F)
    PROVE  \E n \in Nat : /\ Sound(F, n) /\ StoredIn(F) = Ending(F, n)
                          /\ \A m \in Nat : Sound(F, m) => m <= n
<1>. DEFINE P == {v \in DOMAIN F : 1 .. v \subseteq DOMAIN F /\ ReadableIn(F, 1 .. v)}
<1>1. IsFiniteSet(P) /\ Cardinality(P) \in Nat /\ P \subseteq Nat \ {0}
  BY DirectoryFacts, FS_Subset, FS_CardinalityType
<1>2. \A v \in Nat \ {0} : v \in P <=> Sound(F, v)
  <2>1. ASSUME NEW v \in Nat \ {0}, Sound(F, v)
        PROVE  v \in DOMAIN F
    BY <2>1 DEF Sound
  <2>. QED  BY <2>1, ReadsAre
<1>. DEFINE n == Cardinality(P)
<1>. HIDE DEF P
<1>3. ASSUME NEW v \in P
      PROVE  1 .. v \subseteq P /\ v <= n
  <2>1. v \in Nat \ {0} /\ Sound(F, v)
    BY <1>1, <1>2
  <2>2. \A u \in 1 .. v : u \in Nat \ {0} /\ Sound(F, u)
    BY <2>1, SoundBelow
  <2>3. 1 .. v \subseteq P
    BY <1>2, <2>2
  <2>4. Cardinality(1 .. v) = v /\ Cardinality(1 .. v) <= Cardinality(P)
    BY <1>1, <2>1, <2>3, FS_Interval, FS_Subset
  <2>. QED  BY <2>3, <2>4
<1>4. P \subseteq 1 .. n
  BY <1>1, <1>3
<1>5. IsFiniteSet(1 .. n) /\ Cardinality(1 .. n) = Cardinality(P)
  BY <1>1, FS_Interval
<1>6. P = 1 .. n
  BY <1>4, <1>5, FS_Subset
<1>7. Sound(F, n)
  <2>1. CASE n = 0
    BY <2>1 DEF Sound
  <2>2. CASE n # 0
    BY <1>1, <1>2, <1>6, <2>2
  <2>. QED  BY <2>1, <2>2
<1>8. ASSUME NEW m \in Nat, Sound(F, m)
      PROVE  m <= n
  <2>1. CASE m = 0
    BY <1>1, <2>1
  <2>2. CASE m # 0
    BY <1>2, <1>3, <1>8, <2>2
  <2>. QED  BY <2>1, <2>2
<1>9. StoredIn(F) = Ending(F, n)
  <2>1. StoredIn(F) = HistoryIn(F, P)
    BY DEF StoredIn, P
  <2>. QED  BY <1>1, <1>6, <2>1, ReadsAre
<1>. QED  BY <1>1, <1>7, <1>8, <1>9

\* What is readable is the beginning of what is stored.
LEMMA StoredCovers ==
    ASSUME NEW F, IsDirectory(F), NEW m \in Nat, Sound(F, m)
    PROVE  /\ StoredIn(F) \in Chains /\ m \in 0 .. Len(StoredIn(F))
           /\ Ending(F, m) = SubSeq(StoredIn(F), 1, m)
<1>1. PICK n \in Nat : Sound(F, n) /\ StoredIn(F) = Ending(F, n) /\ m <= n
  BY Deepest
<1>2. 1 .. n \subseteq DOMAIN F
  BY <1>1 DEF Sound
<1>3. /\ Ending(F, n) \in Chains /\ Len(Ending(F, n)) = n
      /\ Ending(F, m) = UpTo(Ending(F, n), m)
  BY <1>1, <1>2, EndingFacts
<1>. QED  BY <1>1, <1>3 DEF UpTo

LEMMA StoredIs ==
    ASSUME NEW F, IsDirectory(F), NEW n \in Nat, Sound(F, n), ~ Sound(F, n + 1)
    PROVE  StoredIn(F) = Ending(F, n)
<1>1. PICK m \in Nat : Sound(F, m) /\ StoredIn(F) = Ending(F, m) /\ n <= m
  BY Deepest
<1>2. m = n
  <2>1. ASSUME m > n
        PROVE  FALSE
    BY <1>1, <2>1, SoundBelow
  <2>. QED  BY <1>1, <2>1
<1>. QED  BY <1>1, <1>2

LEMMA StoredSame ==
    ASSUME NEW F, IsDirectory(F), NEW G, IsDirectory(G),
           \A n \in Nat : Sound(F, n) <=> Sound(G, n),
           \A v \in DOMAIN F : v \in DOMAIN G => G[v].record = F[v].record
    PROVE  StoredIn(G) = StoredIn(F)
<1>1. PICK n \in Nat : /\ Sound(F, n) /\ StoredIn(F) = Ending(F, n)
                       /\ \A m \in Nat : Sound(F, m) => m <= n
  BY Deepest
<1>2. Sound(G, n) /\ ~ Sound(G, n + 1)
  BY <1>1
<1>3. StoredIn(G) = Ending(G, n)
  BY <1>2, StoredIs
<1>4. n # 0 => n \in DOMAIN F /\ n \in DOMAIN G
  BY <1>1, <1>2 DEF Sound
<1>. QED  BY <1>1, <1>3, <1>4 DEF Ending

\* Some of the files, with no more of them written.
LEMMA PartOf ==
    ASSUME NEW F, IsDirectory(F), NEW G, DOMAIN G \subseteq DOMAIN F,
           G \in [DOMAIN G -> Contents],
           \A v \in DOMAIN G : G[v].record = F[v].record
    PROVE  /\ IsDirectory(G)
           /\ (\A v \in DOMAIN G : G[v].written => F[v].written) =>
                  \E n \in 0 .. Len(StoredIn(F)) : StoredIn(G) = SubSeq(StoredIn(F), 1, n)
<1>1. IsDirectory(G)
  <2>1. IsFiniteSet(DOMAIN G) /\ DOMAIN G \subseteq Nat \ {0}
    BY FS_Subset DEF IsDirectory
  <2>2. /\ \A v \in DOMAIN G : Len(G[v].record) = v
        /\ \A v \in DOMAIN G : \A u \in DOMAIN G : u <= v => G[u].record = UpTo(G[v].record, u)
    BY DEF IsDirectory
  <2>. QED  BY <2>1, <2>2 DEF IsDirectory
<1>2. ASSUME \A v \in DOMAIN G : G[v].written => F[v].written
      PROVE  \E n \in 0 .. Len(StoredIn(F)) : StoredIn(G) = SubSeq(StoredIn(F), 1, n)
  <2>1. PICK n \in Nat : Sound(G, n) /\ StoredIn(G) = Ending(G, n)
    BY <1>1, Deepest
  <2>2. Sound(F, n) /\ Ending(G, n) = Ending(F, n)
    <3>1. \A v \in 1 .. n : v \in DOMAIN G /\ v \in DOMAIN F /\ F[v].written
      BY <1>2, <2>1 DEF Sound
    <3>2. n # 0 => n \in DOMAIN G
      BY <3>1
    <3>. QED  BY <3>1, <3>2 DEF Sound, Ending
  <2>3. n \in 0 .. Len(StoredIn(F)) /\ Ending(F, n) = SubSeq(StoredIn(F), 1, n)
    BY <2>2, StoredCovers
  <2>. QED  BY <2>1, <2>2, <2>3
<1>. QED  BY <1>1, <1>2

\* The file of the next version, not written yet.
LEMMA Grown ==
    ASSUME NEW F, IsDirectory(F), NEW r \in Witnessed, NEW G,
           DOMAIN F = 1 .. Len(r) - 1,
           \A v \in 1 .. Len(r) - 1 : F[v].record = UpTo(r, v),
           G = [v \in DOMAIN F \cup {Len(r)} |-> IF v = Len(r) THEN NewFile(r) ELSE F[v]]
    PROVE  /\ IsDirectory(G) /\ DOMAIN G = 1 .. Len(r) /\ StoredIn(G) = StoredIn(F)
           /\ G[Len(r)] = NewFile(r) /\ \A v \in DOMAIN F : G[v] = F[v]
<1>1. r \in Chains /\ r # << >> /\ Len(r) \in Nat \ {0} /\ r \in Seq(Observations)
  BY ChainFacts DEF Witnessed
<1>2. PICK n \in Nat \ {0} : n = Len(r)
  BY <1>1
<1>3. PICK file : file = NewFile(r)
  OBVIOUS
<1>4. file \in Contents /\ file.record = r /\ file.written = FALSE
  BY <1>3 DEF NewFile, Contents
<1>5. /\ DOMAIN F = 1 .. n - 1 /\ DOMAIN G = 1 .. n /\ G[n] = file /\ n \notin DOMAIN F
      /\ \A v \in DOMAIN F : G[v] = F[v]
  <2>1. DOMAIN F = 1 .. n - 1 /\ G = [v \in DOMAIN F \cup {n} |-> IF v = n THEN file ELSE F[v]]
    BY <1>2, <1>3
  <2>2. DOMAIN F \cup {n} = 1 .. n /\ n \notin DOMAIN F
    BY <2>1
  <2>3. G = [v \in 1 .. n |-> IF v = n THEN file ELSE F[v]]
    BY <2>1, <2>2
  <2>. QED  BY <2>1, <2>2, <2>3
<1>6. G \in [DOMAIN G -> Contents]
  <2>1. \A v \in DOMAIN F : F[v] \in Contents
    BY DEF IsDirectory
  <2>2. \A v \in 1 .. n : v = n \/ v \in DOMAIN F
    BY <1>5
  <2>3. \A v \in 1 .. n : G[v] \in Contents
    BY <1>4, <1>5, <2>1, <2>2
  <2>4. G = [v \in DOMAIN F \cup {Len(r)} |-> G[v]]
    OBVIOUS
  <2>5. DOMAIN F \cup {Len(r)} = 1 .. n
    BY <1>2, <1>5
  <2>6. G = [v \in 1 .. n |-> G[v]]
    BY <2>4, <2>5
  <2>. QED  BY <1>5, <2>3, <2>6
<1>7. IsFiniteSet(DOMAIN G) /\ DOMAIN G \subseteq Nat \ {0}
  <2>1. IsFiniteSet(1 .. n) /\ 1 .. n \subseteq Nat \ {0}
    BY FS_Interval
  <2>2. DOMAIN G = 1 .. n
    BY <1>5
  <2>. QED  BY <2>1, <2>2
<1>8. \A v \in 1 .. n : Len(G[v].record) = v /\ G[v].record = UpTo(r, v)
  <2>1. UpTo(r, n) = r
    BY <1>1, <1>2, CutWhole
  <2>2. \A v \in DOMAIN F : Len(F[v].record) = v /\ F[v].record = UpTo(r, v)
    BY <1>2, <1>5 DEF IsDirectory
  <2>. QED  BY <1>2, <1>4, <1>5, <2>1, <2>2
<1>9. ASSUME NEW v \in 1 .. n, NEW u \in 1 .. n, u <= v
      PROVE  G[u].record = UpTo(G[v].record, u)
  <2>1. v \in 0 .. n /\ u \in 0 .. v
    BY <1>9
  <2>2. UpTo(UpTo(r, v), u) = UpTo(r, u)
    <3>1. v \in 0 .. Len(r)
      BY <1>2, <2>1
    <3>2. UpTo(r, v) \in Seq(Observations) /\ Len(UpTo(r, v)) = v /\ Extends(UpTo(r, v), r)
      BY <1>1, <3>1, Cut
    <3>. QED  BY <1>1, <2>1, <3>2, CutOfPrefix
  <2>. QED  BY <1>8, <2>2
<1>10. IsDirectory(G)
  <2>1. DOMAIN G = 1 .. n
    BY <1>5
  <2>2. \A v \in DOMAIN G : Len(G[v].record) = v
    BY <1>8, <2>1
  <2>3. ASSUME NEW v \in DOMAIN G, NEW u \in DOMAIN G, u <= v
        PROVE  G[u].record = UpTo(G[v].record, u)
    <3>1. v \in 1 .. n /\ u \in 1 .. n
      BY <2>1
    <3>. QED  BY <1>9, <2>3, <3>1
  <2>. QED  BY <1>6, <1>7, <2>2, <2>3 DEF IsDirectory
<1>11. ASSUME NEW m \in Nat
       PROVE  Sound(F, m) <=> Sound(G, m)
  <2>1. ASSUME NEW v \in 1 .. m
        PROVE  v \in DOMAIN F /\ F[v].written <=> v \in DOMAIN G /\ G[v].written
    <3>1. CASE v = n
      BY <1>4, <1>5, <3>1
    <3>2. CASE v # n
      BY <1>5, <3>2
    <3>. QED  BY <3>1, <3>2
  <2>. QED  BY <2>1 DEF Sound
<1>12. StoredIn(G) = StoredIn(F)
  BY <1>5, <1>10, <1>11, StoredSame
<1>. QED  BY <1>2, <1>3, <1>5, <1>10, <1>12

\* How a record ends.
LEMMA Continues ==
    ASSUME NEW r \in Witnessed
    PROVE  /\ Len(r) \in Nat \ {0} /\ r[Len(r)].envelope \in Envelopes /\ r[Len(r)].stamp \in Stamps
           /\ r[Len(r)].stamp >= r[Len(r)].envelope.issued
           /\ Follows(r[Len(r)].envelope, UpTo(r, Len(r) - 1))
           /\ r = Append(UpTo(r, Len(r) - 1), Observation(r[Len(r)].envelope, r[Len(r)].stamp))
<1>1. /\ r \in Chains /\ r # << >> /\ Len(r) \in Nat \ {0}
      /\ r \in Seq(Observations) /\ DOMAIN r = 1 .. Len(r)
  BY ChainFacts DEF Witnessed
<1>2. PICK n \in Nat \ {0} : n = Len(r)
  BY <1>1
<1>3. /\ n \in DOMAIN r /\ r[n] \in Observations
      /\ r[n].stamp >= r[n].envelope.issued /\ r[n].envelope.version = n
      /\ n > 1 => SameSource(r[n].envelope, r[n - 1].envelope)
  BY <1>1, <1>2 DEF Witnessed, Chains
<1>4. /\ UpTo(r, n - 1) \in Seq(Observations) /\ Len(UpTo(r, n - 1)) = n - 1
      /\ \A i \in 1 .. n - 1 : UpTo(r, n - 1)[i] = r[i]
  <2>1. n - 1 \in 0 .. Len(r)
    BY <1>2
  <2>. QED  BY <1>1, <2>1, Cut
<1>5. r[n] = Observation(r[n].envelope, r[n].stamp)
  BY <1>3 DEF Observations, Observation
<1>6. PICK b \in Seq(Observations) : b = UpTo(r, n - 1)
  BY <1>4
<1>7. Follows(r[n].envelope, b)
  <2>1. CASE n = 1
    <3>1. b = << >>
      BY <1>4, <1>6, <2>1, EmptySeq
    <3>. QED  BY <1>3, <2>1, <3>1 DEF Follows
  <2>2. CASE n # 1
    <3>1. Len(b) = n - 1 /\ n - 1 \in 1 .. n - 1 /\ b[n - 1] = r[n - 1] /\ n > 1
      BY <1>4, <1>6, <2>2
    <3>2. b # << >>
      BY <3>1, EmptySeq
    <3>3. Latest(b) = r[n - 1].envelope
      BY <3>1 DEF Latest
    <3>4. r[n - 1].envelope.version = n - 1
      BY <1>1, <1>2, <3>1 DEF Chains
    <3>. QED  BY <1>3, <3>1, <3>2, <3>3, <3>4 DEF Follows
  <2>. QED  BY <2>1, <2>2
<1>8. r = Append(b, r[n])
  <2>1. PICK o \in Observations : o = r[n]
    BY <1>3
  <2>2. /\ Append(b, o) \in Seq(Observations) /\ Len(Append(b, o)) = Len(b) + 1
        /\ (\A i \in 1 .. Len(b) : Append(b, o)[i] = b[i]) /\ Append(b, o)[Len(b) + 1] = o
    BY AppendProperties
  <2>3. Len(b) = n - 1 /\ \A i \in 1 .. n - 1 : b[i] = r[i]
    BY <1>4, <1>6
  <2>4. Len(Append(b, o)) = Len(r) /\ \A i \in 1 .. Len(r) : Append(b, o)[i] = r[i]
    BY <1>2, <2>1, <2>2, <2>3
  <2>. QED  BY <1>1, <2>1, <2>2, <2>4, SeqEqual
<1>. QED  BY <1>2, <1>3, <1>5, <1>6, <1>7, <1>8 DEF Observations

-----------------------------------------------------------------------------
(* The inductive invariant.                                                 *)

\* While every version but the last is written, the directory grows; a failure of
\* the power may leave one that nobody reads again.
Growing(F) == \E n \in Nat : DOMAIN F = 1 .. n /\ \A v \in 1 .. n - 1 : F[v].written
Ruined(F) == ~ ReadableIn(F, DOMAIN F) /\ \A v \in DOMAIN F : F[v].synced /\ F[v].entered

Holds(F, record) == Len(record) \in DOMAIN F /\ F[Len(record)].record = record

FileCalls == [at : Places, reading : Readings, envelope : Envelopes \cup {NoEnvelope},
              stamp : Stamps \cup {0}, listed : SUBSET Nat, record : Chains]

Asked(c) ==
    c.at # "idle" => c.envelope \in Envelopes /\ c.stamp \in Stamps /\ c.stamp >= c.envelope.issued

\* What a writer read is the beginning of what is there, what it stored is there.
Grows(F, c) ==
    /\ c.at = "read" => \E n \in Nat : c.listed = 1 .. n /\ 1 .. n \subseteq DOMAIN F
    /\ c.at = "create" =>
          /\ c.record \in Witnessed
          /\ \A v \in 1 .. Len(c.record) - 1 :
                v \in DOMAIN F /\ F[v].written /\ F[v].record = UpTo(c.record, v)
    /\ c.at \in {"write", "fsync", "fsync_directory"} => Holds(F, c.record)
    /\ c.reading \in {"race", "after_race", "after"} => c.record # << >>
    /\ c.reading = "after" => Holds(F, c.record) /\ F[Len(c.record)].entered

\* No writer gets past its first reading of a ruined directory.
Waits(F, c) ==
    /\ c.at \in {"idle", "list", "read"} /\ c.reading \in {"none", "before"}
    /\ c.at = "read" => c.listed = DOMAIN F

\* A record that passed the barriers stays, unless the whole directory is lost.
Remembers(F, space, a) ==
    /\ a.record \in Chains
    /\ space # "lost" /\ a.how = "created" =>
          Holds(F, a.record) /\ F[Len(a.record)].entered

\* The unreadable file is somebody's, or a death or a failure left it.
Attended ==
    \/ ReadableIn(files, DOMAIN files) \/ interruptions > 0 \/ powerFailures > 0
    \/ \E w \in Writers :
          writer[w].at = "write" /\ \A v \in DOMAIN files : v <= Len(writer[w].record)

FilesInv ==
    /\ IsDirectory(files)
    /\ writer \in [Writers -> FileCalls] /\ \A w \in Writers : Asked(writer[w])
    /\ \/ Growing(files) /\ \A w \in Writers : Grows(files, writer[w])
       \/ Ruined(files) /\ powerFailures > 0 /\ \A w \in Writers : Waits(files, writer[w])
    /\ \A a \in answers : Remembers(files, namespace, a)
    /\ Attended
    /\ interruptions \in Nat /\ powerFailures \in Nat

\* What history() reads, of the files it reads.
LEMMA Operators ==
    /\ \A listed : Readable(listed) <=> ReadableIn(files, listed)
    /\ \A listed : History(listed) = HistoryIn(files, listed)
    /\ Stored = StoredIn(files) /\ Stored' = StoredIn(files')
  BY DEF Readable, ReadableIn, History, HistoryIn, Stored, StoredIn

LEMMA WriterIs ==
    ASSUME FilesInv, NEW w \in Writers
    PROVE  /\ writer[w] \in FileCalls /\ Asked(writer[w]) /\ writer[w].record \in Chains
           /\ writer[w].record # << >> => FileVersion(w) = Len(writer[w].record)
           /\ Len(writer[w].record) \in Nat
           /\ \/ Growing(files) /\ Grows(files, writer[w])
              \/ Ruined(files) /\ Waits(files, writer[w])
<1>1. /\ writer[w] \in FileCalls /\ Asked(writer[w]) /\ writer[w].record \in Chains
      /\ \/ Growing(files) /\ Grows(files, writer[w])
         \/ Ruined(files) /\ Waits(files, writer[w])
  BY DEF FilesInv, FileCalls
<1>. QED  BY <1>1, ChainFacts DEF FileVersion

\* Only in a directory that grows does a writer read a history.
LEMMA ReadsAHistory ==
    ASSUME FilesInv, NEW w \in Writers, NEW reading, HasRead(w, reading)
    PROVE  /\ Growing(files) /\ Grows(files, writer[w])
           /\ writer[w].at = "read" /\ writer[w].reading = reading
           /\ \E n \in Nat : /\ writer[w].listed = 1 .. n /\ Sound(files, n)
                             /\ HistoryOf(w) = Ending(files, n)
<1>1. writer[w].at = "read" /\ writer[w].reading = reading /\ ReadableIn(files, writer[w].listed)
  BY Operators DEF HasRead, WriterAt
<1>2. Growing(files) /\ Grows(files, writer[w])
  BY <1>1, WriterIs DEF Ruined, Waits
<1>3. writer[w].listed \subseteq DOMAIN files /\ IsDirectory(files)
  BY <1>1, <1>2 DEF Grows, FilesInv
<1>4. \E n \in Nat : /\ writer[w].listed = 1 .. n /\ Sound(files, n)
                     /\ HistoryIn(files, writer[w].listed) = Ending(files, n)
  BY <1>1, <1>3, ListedAre
<1>. QED  BY <1>1, <1>2, <1>4, Operators DEF HistoryOf

-----------------------------------------------------------------------------
(* Steps of a writer that change no file.                                    *)

LEMMA FileMoves ==
    ASSUME FilesInv, UNCHANGED <<files, powerFailures, namespace>>,
           NEW w \in Writers, NEW c \in FileCalls, Asked(c), writer' = [writer EXCEPT ![w] = c],
           Growing(files) /\ Grows(files, writer[w]) => Grows(files, c),
           Ruined(files) /\ Waits(files, writer[w]) => Waits(files, c),
           interruptions' \in Nat, interruptions' >= interruptions,
           writer[w].at = "write" => interruptions' > 0,
           \/ answers' = answers
           \/ \E n \in Nat \ {0}, how \in {"created", "replayed", "raced"} :
                 /\ Sound(files, n) /\ (how = "created" => files[n].entered)
                 /\ answers' = answers \cup {[record |-> Ending(files, n), how |-> how]}
    PROVE  FilesInv' /\ [FilesPromise!Next]_FilesPromise!vars
<1>0. /\ IsDirectory(files) /\ writer \in [Writers -> FileCalls]
      /\ \A x \in Writers : writer'[x] = IF x = w THEN c ELSE writer[x]
      /\ \A x \in Writers : Asked(writer[x])
      /\ interruptions \in Nat /\ powerFailures \in Nat
  BY DEF FilesInv
<1>1. /\ writer' \in [Writers -> FileCalls] /\ \A x \in Writers : Asked(writer'[x])
  BY <1>0
<1>2. \/ Growing(files) /\ \A x \in Writers : Grows(files, writer'[x])
      \/ Ruined(files) /\ powerFailures > 0 /\ \A x \in Writers : Waits(files, writer'[x])
  BY <1>0 DEF FilesInv
<1>3. ASSUME NEW n \in Nat \ {0}, NEW how \in {"created", "replayed", "raced"}, Sound(files, n),
             how = "created" => files[n].entered
      PROVE  /\ Remembers(files, namespace, [record |-> Ending(files, n), how |-> how])
             /\ Ending(files, n) \in FilesPromise!Histories \ {<< >>}
  <2>1. 1 .. n \subseteq DOMAIN files /\ n \in DOMAIN files
    BY <1>3 DEF Sound
  <2>2. /\ Ending(files, n) \in Chains /\ Len(Ending(files, n)) = n
        /\ Ending(files, n) # << >> /\ Ending(files, n) = files[n].record
    BY <1>0, <2>1, EndingFacts DEF Ending
  <2>3. Ending(files, n) \in {SubSeq(StoredIn(files), 1, m) : m \in 0 .. Len(StoredIn(files))}
    BY <1>0, <1>3, StoredCovers
  <2>4. Ending(files, n) \in FilesPromise!Histories
    BY <2>3, Operators DEF FilesPromise!Histories
  <2>. QED  BY <1>3, <2>1, <2>2, <2>4 DEF Remembers, Holds
<1>4. \A a \in answers' : Remembers(files, namespace, a)
  <2>1. \A a \in answers : Remembers(files, namespace, a)
    BY DEF FilesInv
  <2>2. ASSUME NEW n \in Nat \ {0}, NEW how \in {"created", "replayed", "raced"}, Sound(files, n),
               how = "created" => files[n].entered,
               answers' = answers \cup {[record |-> Ending(files, n), how |-> how]}
        PROVE  \A a \in answers' : Remembers(files, namespace, a)
    <3>1. Remembers(files, namespace, [record |-> Ending(files, n), how |-> how])
      BY <1>3, <2>2
    <3>2. PICK e : e = [record |-> Ending(files, n), how |-> how]
      OBVIOUS
    <3>. QED  BY <2>1, <2>2, <3>1, <3>2
  <2>. QED  BY <2>1, <2>2
<1>5. Attended'
  <2>1. CASE ReadableIn(files, DOMAIN files) \/ interruptions > 0 \/ powerFailures > 0
    BY <1>0, <2>1 DEF Attended
  <2>2. ASSUME NEW x \in Writers, writer[x].at = "write",
               \A v \in DOMAIN files : v <= Len(writer[x].record)
        PROVE  Attended'
    <3>1. CASE x = w
      BY <2>2, <3>1 DEF Attended
    <3>2. CASE x # w
      <4>1. writer'[x] = writer[x]
        BY <1>0, <3>2
      <4>. QED  BY <2>2, <4>1 DEF Attended
    <3>. QED  BY <3>1, <3>2
  <2>. QED  BY <2>1, <2>2 DEF FilesInv, Attended
<1>6. FilesInv'
  <2>1. PICK W : W = writer'
    OBVIOUS
  <2>2. files' = files /\ namespace' = namespace /\ powerFailures' = powerFailures
    OBVIOUS
  <2>3. /\ \A x \in Writers : Asked(W[x])
        /\ \/ Growing(files) /\ \A x \in Writers : Grows(files, W[x])
           \/ Ruined(files) /\ powerFailures > 0 /\ \A x \in Writers : Waits(files, W[x])
    BY <1>1, <1>2, <2>1
  <2>. QED  BY <1>0, <1>1, <1>4, <1>5, <2>1, <2>2, <2>3 DEF FilesInv
<1>7. [FilesPromise!Next]_FilesPromise!vars
  <2>1. Stored' = Stored
    BY Operators
  <2>2. CASE answers' = answers
    BY <2>1, <2>2 DEF FilesPromise!vars
  <2>3. ASSUME NEW n \in Nat \ {0}, NEW how \in {"created", "replayed", "raced"}, Sound(files, n),
               how = "created" => files[n].entered,
               answers' = answers \cup {[record |-> Ending(files, n), how |-> how]}
        PROVE  FilesPromise!Next
    <3>1. Ending(files, n) \in FilesPromise!Histories \ {<< >>}
      BY <1>3, <2>3
    <3>2. PICK r : r = Ending(files, n)
      OBVIOUS
    <3>3. {a.record : a \in answers'} = {a.record : a \in answers} \cup {r}
      <4>1. PICK e : e = [record |-> Ending(files, n), how |-> how]
        OBVIOUS
      <4>2. e.record = r /\ answers' = answers \cup {e}
        BY <2>3, <3>2, <4>1
      <4>3. PICK A, B : A = answers /\ B = answers'
        OBVIOUS
      <4>4. {a.record : a \in A \cup {e}} = {a.record : a \in A} \cup {e.record}
        BY Zenon
      <4>. QED  BY <4>2, <4>3, <4>4
    <3>4. FilesPromise!Answer
      BY <2>1, <3>1, <3>2, <3>3 DEF FilesPromise!Answer
    <3>. QED  BY <3>4 DEF FilesPromise!Next
  <2>. QED  BY <2>2, <2>3
<1>. QED  BY <1>6, <1>7

LEMMA IdleIs ==
    /\ IdleWriter \in FileCalls /\ Asked(IdleWriter) /\ \A F : Grows(F, IdleWriter) /\ Waits(F, IdleWriter)
<1>1. /\ IdleWriter.at = "idle" /\ IdleWriter.reading = "none"
  BY DEF IdleWriter
<1>2. IdleWriter \in FileCalls
  BY NoChain DEF IdleWriter, FileCalls, Places, Readings
<1>. QED  BY <1>1, <1>2 DEF Asked, Grows, Waits

\* observe() raises.
LEMMA FileRaises ==
    ASSUME FilesInv, NEW w \in Writers, writer[w].at # "write", WriterBecomes(w, IdleWriter),
           UNCHANGED <<files, answers, counted>>
    PROVE  FilesInv' /\ [FilesPromise!Next]_FilesPromise!vars
<1>1. /\ writer' = [writer EXCEPT ![w] = IdleWriter]
      /\ UNCHANGED <<files, answers, interruptions, powerFailures, namespace>>
  BY DEF WriterBecomes, counted
<1>2. interruptions' \in Nat /\ interruptions' >= interruptions
  BY <1>1 DEF FilesInv
<1>. QED  BY <1>1, <1>2, IdleIs, FileMoves

\* observe() returns a record it read.
LEMMA FileReturns ==
    ASSUME FilesInv, NEW w \in Writers, NEW reading, HasRead(w, reading), HistoryOf(w) # << >>,
           NEW how \in {"created", "replayed", "raced"}, WriterReturns(w, HistoryOf(w), how),
           how = "created" => reading = "after" /\ HistoryOf(w) = writer[w].record,
           UNCHANGED <<files, counted>>
    PROVE  FilesInv' /\ [FilesPromise!Next]_FilesPromise!vars
<1>1. PICK n \in Nat : Sound(files, n) /\ HistoryOf(w) = Ending(files, n)
  BY ReadsAHistory
<1>2. n # 0 /\ writer[w].at = "read" /\ writer[w].reading = reading /\ Grows(files, writer[w])
  BY <1>1, ReadsAHistory DEF Ending
<1>3. how = "created" => files[n].entered
  <2>1. ASSUME how = "created"
        PROVE  files[n].entered
    <3>1. files[Len(writer[w].record)].entered /\ writer[w].record = Ending(files, n)
      BY <1>1, <1>2, <2>1 DEF Grows
    <3>2. 1 .. n \subseteq DOMAIN files
      BY <1>1 DEF Sound
    <3>3. Len(Ending(files, n)) = n
      BY <3>2, EndingFacts DEF FilesInv
    <3>. QED  BY <3>1, <3>3
  <2>. QED  BY <2>1
<1>4. /\ writer' = [writer EXCEPT ![w] = IdleWriter]
      /\ answers' = answers \cup {[record |-> Ending(files, n), how |-> how]}
      /\ UNCHANGED <<files, interruptions, powerFailures, namespace>>
  BY <1>1 DEF WriterReturns, WriterBecomes, counted
<1>5. interruptions' \in Nat /\ interruptions' >= interruptions
  BY <1>4 DEF FilesInv
<1>6. \E m \in Nat \ {0}, h \in {"created", "replayed", "raced"} :
         /\ Sound(files, m) /\ (h = "created" => files[m].entered)
         /\ answers' = answers \cup {[record |-> Ending(files, m), how |-> h]}
  BY <1>1, <1>2, <1>3, <1>4
<1>. QED  BY <1>2, <1>4, <1>5, <1>6, IdleIs, FileMoves

\* A writer that goes on with its observe() and leaves the counters alone.
LEMMA FileContinues ==
    ASSUME FilesInv, UNCHANGED <<files, answers, counted>>,
           NEW w \in Writers, writer[w].at \notin {"idle", "write"},
           NEW c \in FileCalls, writer' = [writer EXCEPT ![w] = c],
           c.envelope = writer[w].envelope, c.stamp = writer[w].stamp,
           Growing(files) /\ Grows(files, writer[w]) => Grows(files, c),
           Ruined(files) /\ Waits(files, writer[w]) => Waits(files, c)
    PROVE  FilesInv' /\ [FilesPromise!Next]_FilesPromise!vars
<1>1. Asked(c)
  BY WriterIs DEF Asked
<1>2. /\ UNCHANGED <<files, powerFailures, namespace>> /\ answers' = answers
      /\ interruptions' \in Nat /\ interruptions' >= interruptions
  BY DEF counted, FilesInv
<1>. QED  BY <1>1, <1>2, FileMoves

-----------------------------------------------------------------------------
(* The actions that read.                                                   *)

LEMMA FileObserveStep ==
    ASSUME FilesInv, NEW w \in Writers, NEW envelope \in Envelopes, NEW stamp \in Stamps,
           ObserveFile(w, envelope, stamp)
    PROVE  FilesInv' /\ [FilesPromise!Next]_FilesPromise!vars
<1>. DEFINE c == [IdleWriter EXCEPT !.at = "list", !.reading = "before",
                              !.envelope = envelope, !.stamp = stamp]
<1>1. PICK none \in Chains : none = << >>
  BY NoChain
<1>2. IdleWriter \in [at : {"idle"}, reading : {"none"}, envelope : {NoEnvelope}, stamp : {0},
                listed : {{}}, record : Chains]
  BY <1>1 DEF IdleWriter
<1>3. /\ c \in FileCalls /\ c.at = "list" /\ c.reading = "before"
      /\ c.envelope = envelope /\ c.stamp = stamp
  BY <1>2 DEF FileCalls, Places, Readings
<1>4. /\ stamp >= envelope.issued
      /\ UNCHANGED <<files, answers, interruptions, powerFailures, namespace>>
      /\ writer' = [writer EXCEPT ![w] = c] /\ writer[w].at = "idle"
  BY DEF ObserveFile, WriterBecomes, WriterAt
<1>. HIDE DEF c
<1>5. Asked(c) /\ Grows(files, c) /\ Waits(files, c)
  BY <1>3, <1>4 DEF Asked, Grows, Waits
<1>6. interruptions' \in Nat /\ interruptions' >= interruptions
  BY <1>4 DEF FilesInv
<1>. QED  BY <1>3, <1>4, <1>5, <1>6, FileMoves

LEMMA ListStep ==
    ASSUME FilesInv, NEW w \in Writers, List(w)
    PROVE  FilesInv' /\ [FilesPromise!Next]_FilesPromise!vars
<1>1. PICK b \in FileCalls : b = writer[w] /\ b.at = "list"
  BY WriterIs DEF List, WriterAt
<1>2. DOMAIN files \in SUBSET Nat
  BY DEF FilesInv, IsDirectory
<1>. DEFINE c == [b EXCEPT !.at = "read", !.listed = DOMAIN files]
<1>3. writer' = [writer EXCEPT ![w] = c] /\ UNCHANGED <<files, answers, counted>>
  BY <1>1 DEF List, WriterBecomes
<1>4. /\ c \in FileCalls /\ c.at = "read" /\ c.listed = DOMAIN files /\ c.reading = b.reading
      /\ c.record = b.record /\ c.envelope = b.envelope /\ c.stamp = b.stamp
  BY <1>2 DEF FileCalls, Places
<1>. HIDE DEF c
<1>5. Growing(files) /\ Grows(files, b) => Grows(files, c)
  BY <1>4 DEF Growing, Grows
<1>6. Ruined(files) /\ Waits(files, b) => Waits(files, c)
  BY <1>4 DEF Waits
<1>. QED  BY <1>1, <1>3, <1>4, <1>5, <1>6, FileContinues

\* A writer that goes to list the directory, for another of its readings.
LEMMA ReadsStep ==
    ASSUME FilesInv, UNCHANGED <<files, answers, counted>>, NEW w \in Writers,
           writer[w].at \notin {"idle", "write"},
           NEW reading \in {"race", "after_race"}, Reads(w, reading),
           writer[w].record # << >>, ~ Waits(files, writer[w])
    PROVE  FilesInv' /\ [FilesPromise!Next]_FilesPromise!vars
<1>1. PICK b \in FileCalls : b = writer[w]
  BY WriterIs
<1>. DEFINE c == [b EXCEPT !.at = "list", !.reading = reading]
<1>2. writer' = [writer EXCEPT ![w] = c]
  BY <1>1 DEF Reads, WriterBecomes
<1>3. /\ c \in FileCalls /\ c.at = "list" /\ c.reading = reading /\ c.record = b.record
      /\ c.envelope = b.envelope /\ c.stamp = b.stamp
  BY DEF FileCalls, Places, Readings
<1>. HIDE DEF c
<1>4. Grows(files, c)
  BY <1>1, <1>3 DEF Grows
<1>. QED  BY <1>1, <1>2, <1>3, <1>4, FileContinues

LEMMA PrepareStep ==
    ASSUME FilesInv, NEW w \in Writers, Prepare(w)
    PROVE  FilesInv' /\ [FilesPromise!Next]_FilesPromise!vars
<1>1. /\ HasRead(w, "before") /\ Follows(writer[w].envelope, HistoryOf(w))
      /\ UNCHANGED <<files, answers, counted>>
  BY DEF Prepare
<1>2. PICK b \in FileCalls : b = writer[w] /\ Asked(b)
  BY WriterIs
<1>3. PICK n \in Nat : Sound(files, n) /\ HistoryOf(w) = Ending(files, n)
  BY <1>1, ReadsAHistory
<1>5. /\ b.at = "read" /\ b.reading = "before" /\ b.envelope \in Envelopes /\ b.stamp \in Stamps
      /\ b.stamp >= b.envelope.issued
  BY <1>1, <1>2, ReadsAHistory DEF Asked
<1>6. 1 .. n \subseteq DOMAIN files /\ IsDirectory(files)
  BY <1>3 DEF Sound, FilesInv
<1>7. PICK h \in Chains : h = Ending(files, n) /\ Len(h) = n /\ (n # 0 => h \in Witnessed)
                          /\ \A m \in 0 .. n : Ending(files, m) = UpTo(h, m)
  BY <1>6, EndingFacts
<1>8. Follows(b.envelope, h)
  BY <1>1, <1>2, <1>3, <1>7
<1>9. PICK o : o = Observation(b.envelope, b.stamp)
  OBVIOUS
<1>10. PICK r : r = Append(h, o)
  OBVIOUS
<1>11. r \in Chains /\ r # << >> /\ Len(r) = n + 1 /\ Extends(h, r)
  BY <1>5, <1>7, <1>8, <1>9, <1>10, ChainGrows
<1>12. r \in Witnessed
  <2>1. h \in Seq(Observations) /\ Len(h) = n /\ o \in Observations /\ o.stamp >= o.envelope.issued
    BY <1>5, <1>7, <1>9, ChainFacts DEF Observation, Observations
  <2>2. DOMAIN r = 1 .. n + 1 /\ (\A i \in 1 .. n : r[i] = h[i]) /\ r[n + 1] = o
    BY <1>10, <2>1, AppendProperties
  <2>3. \A i \in 1 .. n : h[i].stamp >= h[i].envelope.issued
    <3>1. DOMAIN h = 1 .. n
      BY <2>1
    <3>2. CASE n = 0
      BY <3>2
    <3>3. CASE n # 0
      BY <1>7, <3>1, <3>3 DEF Witnessed
    <3>. QED  BY <3>2, <3>3
  <2>4. ASSUME NEW i \in 1 .. n + 1
        PROVE  r[i].stamp >= r[i].envelope.issued
    <3>1. CASE i = n + 1
      BY <2>1, <2>2, <3>1
    <3>2. CASE i # n + 1
      <4>1. i \in 1 .. n
        BY <3>2
      <4>. QED  BY <2>2, <2>3, <4>1
    <3>. QED  BY <3>1, <3>2
  <2>. QED  BY <1>11, <2>2, <2>4 DEF Witnessed
<1>13. \A v \in 1 .. n : v \in DOMAIN files /\ files[v].written /\ files[v].record = UpTo(r, v)
  <2>1. ASSUME NEW v \in 1 .. n
        PROVE  UpTo(h, v) = UpTo(r, v)
    <3>1. h \in Seq(Observations) /\ r \in Seq(Observations) /\ v \in 0 .. Len(h)
      BY <1>7, <1>11, ChainFacts
    <3>. QED  BY <1>11, <3>1, CutOfPrefix
  <2>2. \A v \in 1 .. n : files[v].record = UpTo(h, v)
    BY <1>7 DEF Ending
  <2>. QED  BY <1>3, <2>1, <2>2 DEF Sound
<1>. DEFINE c == [b EXCEPT !.at = "create", !.record = r]
<1>14. writer' = [writer EXCEPT ![w] = c]
  BY <1>2, <1>3, <1>7, <1>9, <1>10 DEF Prepare, WriterBecomes
<1>15. /\ c \in FileCalls /\ c.at = "create" /\ c.reading = "before" /\ c.record = r
       /\ c.envelope = b.envelope /\ c.stamp = b.stamp
  BY <1>5, <1>11 DEF FileCalls, Places
<1>. HIDE DEF c
<1>16. Grows(files, c)
  BY <1>11, <1>12, <1>13, <1>15 DEF Grows
<1>17. ~ (Ruined(files) /\ Waits(files, b))
  <2>1. ReadableIn(files, b.listed)
    BY <1>1, <1>2, Operators DEF HasRead
  <2>. QED  BY <1>5, <2>1 DEF Ruined, Waits
<1>. QED  BY <1>1, <1>2, <1>5, <1>14, <1>15, <1>16, <1>17, FileContinues

LEMMA AnswerSteps ==
    ASSUME FilesInv, NEW w \in Writers, Replay(w) \/ Succeed(w)
    PROVE  FilesInv' /\ [FilesPromise!Next]_FilesPromise!vars
<1>1. CASE Replay(w)
  <2>1. HistoryOf(w) # << >>
    BY <1>1 DEF Replay, Replays
  <2>. QED  BY <1>1, <2>1, FileReturns DEF Replay
<1>2. CASE Succeed(w)
  <2>1. ASSUME NEW reading \in {"after", "after_race"}, NEW how \in {"created", "raced"},
               HasRead(w, reading), WriterReturns(w, writer[w].record, how),
               how = "created" => reading = "after",
               HistoryOf(w) = writer[w].record, UNCHANGED <<files, counted>>
        PROVE  FilesInv' /\ [FilesPromise!Next]_FilesPromise!vars
    <3>1. writer[w].record # << >>
      BY <2>1, ReadsAHistory DEF Grows
    <3>. QED  BY <2>1, <3>1, FileReturns
  <2>. QED  BY <1>2, <2>1 DEF Succeed
<1>. QED  BY <1>1, <1>2

LEMMA RaiseSteps ==
    ASSUME FilesInv, NEW w \in Writers,
           Unreadable(w) \/ Refuse(w) \/ Equivocation(w) \/ NoRoundTrip(w)
    PROVE  FilesInv' /\ [FilesPromise!Next]_FilesPromise!vars
<1>1. writer[w].at # "write" /\ WriterBecomes(w, IdleWriter) /\ UNCHANGED <<files, answers, counted>>
  BY DEF Unreadable, Refuse, Equivocation, NoRoundTrip, HasRead, WriterAt
<1>. QED  BY <1>1, FileRaises

LEMMA RaceSteps ==
    ASSUME FilesInv, NEW w \in Writers, LosesRace(w) \/ AcceptRace(w)
    PROVE  FilesInv' /\ [FilesPromise!Next]_FilesPromise!vars
<1>1. CASE LosesRace(w)
  <2>1. writer[w].at = "create" /\ Reads(w, "race") /\ UNCHANGED <<files, answers, counted>>
    BY <1>1 DEF LosesRace, WriterAt
  <2>2. Grows(files, writer[w]) /\ ~ Waits(files, writer[w])
    BY <2>1, WriterIs DEF Waits
  <2>3. writer[w].record # << >>
    BY <2>1, <2>2 DEF Grows, Witnessed
  <2>. QED  BY <2>1, <2>2, <2>3, ReadsStep
<1>2. CASE AcceptRace(w)
  <2>1. HasRead(w, "race") /\ Reads(w, "after_race") /\ UNCHANGED <<files, answers, counted>>
    BY <1>2 DEF AcceptRace
  <2>2. writer[w].at = "read" /\ writer[w].reading = "race" /\ Grows(files, writer[w])
    BY <2>1, ReadsAHistory
  <2>3. writer[w].record # << >> /\ ~ Waits(files, writer[w])
    BY <2>2 DEF Grows, Waits
  <2>. QED  BY <2>1, <2>2, <2>3, ReadsStep
<1>. QED  BY <1>1, <1>2

LEMMA InterruptStep ==
    ASSUME FilesInv, NEW w \in Writers, Interrupt(w)
    PROVE  FilesInv' /\ [FilesPromise!Next]_FilesPromise!vars
<1>1. /\ writer' = [writer EXCEPT ![w] = IdleWriter] /\ interruptions' = interruptions + 1
      /\ UNCHANGED <<files, answers, powerFailures, namespace>>
  BY DEF Interrupt, WriterBecomes
<1>2. interruptions' \in Nat /\ interruptions' >= interruptions /\ interruptions' > 0
  BY <1>1 DEF FilesInv
<1>. QED  BY <1>1, <1>2, IdleIs, FileMoves

-----------------------------------------------------------------------------
(* The actions that create, write and force to disk.                         *)

\* Files that stay, with what is known of them.
Keeps(F, G) ==
    \A v \in DOMAIN F : /\ v \in DOMAIN G /\ G[v].record = F[v].record
                        /\ F[v].written => G[v].written
                        /\ F[v].entered => G[v].entered

LEMMA HoldsStill ==
    ASSUME NEW F, NEW G, Keeps(F, G), NEW record, Holds(F, record)
    PROVE  Holds(G, record) /\ (F[Len(record)].entered => G[Len(record)].entered)
  BY DEF Keeps, Holds

LEMMA GrowsStill ==
    ASSUME NEW F, NEW G, Keeps(F, G), NEW c, Grows(F, c)
    PROVE  Grows(G, c)
<1>1. ASSUME c.at = "read"
      PROVE  \E n \in Nat : c.listed = 1 .. n /\ 1 .. n \subseteq DOMAIN G
  BY <1>1 DEF Keeps, Grows
<1>2. ASSUME c.at = "create"
      PROVE  /\ c.record \in Witnessed
             /\ \A v \in 1 .. Len(c.record) - 1 :
                   v \in DOMAIN G /\ G[v].written /\ G[v].record = UpTo(c.record, v)
  BY <1>2 DEF Keeps, Grows
<1>. QED  BY <1>1, <1>2, HoldsStill DEF Grows

LEMMA FilesStep ==
    ASSUME FilesInv, NEW w \in Writers,
           writer[w].at \in {"create", "write", "fsync", "fsync_directory"},
           NEW F, files' = F, IsDirectory(F), Growing(F), Keeps(files, F),
           NEW c \in FileCalls, writer' = [writer EXCEPT ![w] = c],
           c.envelope = writer[w].envelope, c.stamp = writer[w].stamp, Grows(F, c),
           UNCHANGED <<answers, counted>>, Attended'
    PROVE  FilesInv'
<1>1. /\ writer \in [Writers -> FileCalls] /\ \A x \in Writers : Asked(writer[x])
      /\ \A x \in Writers : writer'[x] = IF x = w THEN c ELSE writer[x]
      /\ UNCHANGED <<answers, namespace, interruptions, powerFailures>>
  BY DEF FilesInv, counted
<1>2. \A x \in Writers : Grows(files, writer[x])
  BY DEF FilesInv, Waits
<1>3. Asked(c)
  BY <1>1 DEF Asked
<1>4. PICK W : W = writer'
  OBVIOUS
<1>5. W \in [Writers -> FileCalls] /\ \A x \in Writers : Asked(W[x]) /\ Grows(F, W[x])
  BY <1>1, <1>2, <1>3, <1>4, GrowsStill
<1>6. \A a \in answers : Remembers(F, namespace, a)
  BY HoldsStill DEF FilesInv, Remembers
<1>. QED  BY <1>1, <1>4, <1>5, <1>6 DEF FilesInv

LEMMA AttendedStill ==
    ASSUME FilesInv, NEW w \in Writers, NEW F, files' = F, IsDirectory(F), Growing(F),
           Keeps(files, F), DOMAIN F = DOMAIN files,
           NEW c, writer' = [writer EXCEPT ![w] = c], UNCHANGED counted,
           writer[w].at = "write" => \A v \in DOMAIN F : v <= Len(writer[w].record) => F[v].written
    PROVE  Attended'
<1>1. /\ writer \in [Writers -> FileCalls] /\ UNCHANGED <<interruptions, powerFailures>>
      /\ \A x \in Writers : x # w => writer'[x] = writer[x]
  BY DEF FilesInv, counted
<1>2. PICK n \in Nat : DOMAIN F = 1 .. n
  BY DEF Growing
<1>3. ASSUME \A v \in DOMAIN F : F[v].written
      PROVE  Attended'
  <2>1. Sound(F, n)
    BY <1>2, <1>3 DEF Sound
  <2>2. ReadableIn(F, DOMAIN F)
    BY <1>2, <2>1, ReadsAre
  <2>. QED  BY <2>2 DEF Attended
<1>4. CASE ReadableIn(files, DOMAIN files)
  BY <1>3, <1>4 DEF ReadableIn, Keeps
<1>5. CASE interruptions > 0 \/ powerFailures > 0
  BY <1>1, <1>5 DEF Attended
<1>6. ASSUME NEW x \in Writers, writer[x].at = "write",
             \A v \in DOMAIN files : v <= Len(writer[x].record)
      PROVE  Attended'
  <2>1. CASE x = w
    BY <1>3, <1>6, <2>1
  <2>2. CASE x # w
    <3>1. writer'[x] = writer[x]
      BY <1>1, <2>2
    <3>. QED  BY <1>6, <3>1 DEF Attended
  <2>. QED  BY <2>1, <2>2
<1>. QED  BY <1>4, <1>5, <1>6 DEF FilesInv, Attended

LEMMA Stutters ==
    ASSUME Stored' = Stored, UNCHANGED answers
    PROVE  [FilesPromise!Next]_FilesPromise!vars
  BY DEF FilesPromise!vars

LEMMA CreateStep ==
    ASSUME FilesInv, NEW w \in Writers, Create(w)
    PROVE  FilesInv' /\ [FilesPromise!Next]_FilesPromise!vars
<1>1. PICK b \in FileCalls : b = writer[w]
  BY WriterIs
<1>2. PICK r : r = b.record
  OBVIOUS
<1>3. b.at = "create" /\ Grows(files, b) /\ Growing(files) /\ IsDirectory(files)
  BY <1>1, WriterIs DEF Create, WriterAt, Waits, FilesInv
<1>4. /\ r \in Witnessed /\ r \in Chains /\ r # << >> /\ Len(r) \in Nat \ {0}
      /\ \A v \in 1 .. Len(r) - 1 :
            v \in DOMAIN files /\ files[v].written /\ files[v].record = UpTo(r, v)
  <2>1. r \in Witnessed
    BY <1>2, <1>3 DEF Grows
  <2>2. r \in Chains /\ r # << >>
    BY <2>1 DEF Witnessed
  <2>3. Len(r) \in Nat /\ Len(r) >= 1
    BY <2>2, ChainFacts
  <2>4. \A v \in 1 .. Len(r) - 1 :
           v \in DOMAIN files /\ files[v].written /\ files[v].record = UpTo(r, v)
    BY <1>2, <1>3 DEF Grows
  <2>. QED  BY <2>1, <2>2, <2>3, <2>4
<1>5. FileVersion(w) = Len(r) /\ Len(r) \notin DOMAIN files
  <2>1. FileVersion(w) = Len(r)
    BY <1>1, <1>2, <1>4, WriterIs
  <2>. QED  BY <2>1 DEF Create
<1>6. DOMAIN files = 1 .. Len(r) - 1
  <2>1. PICK n \in Nat : DOMAIN files = 1 .. n
    BY <1>3 DEF Growing
  <2>2. n < Len(r)
    BY <1>4, <1>5, <2>1
  <2>3. n >= Len(r) - 1
    <3>1. CASE Len(r) = 1
      BY <3>1
    <3>2. CASE Len(r) # 1
      <4>0. Len(r) - 1 \in 1 .. Len(r) - 1
        <5>1. PICK k \in Nat \ {0} : k = Len(r)
          BY <1>4
        <5>2. k - 1 \in 1 .. k - 1
          BY <3>2, <5>1
        <5>. QED  BY <5>1, <5>2
      <4>1. Len(r) - 1 \in DOMAIN files
        BY <1>4, <4>0
      <4>. QED  BY <2>1, <4>1
    <3>. QED  BY <3>1, <3>2
  <2>4. n = Len(r) - 1
    BY <1>4, <2>2, <2>3
  <2>. QED  BY <2>1, <2>4
<1>7. PICK F : F = [v \in DOMAIN files \cup {Len(r)} |-> IF v = Len(r) THEN NewFile(r) ELSE files[v]]
  OBVIOUS
<1>8. files' = F /\ UNCHANGED <<answers, counted>>
  BY <1>1, <1>2, <1>5, <1>7 DEF Create, With
<1>9. /\ IsDirectory(F) /\ DOMAIN F = 1 .. Len(r) /\ StoredIn(F) = StoredIn(files)
      /\ F[Len(r)] = NewFile(r) /\ \A v \in DOMAIN files : F[v] = files[v]
  BY <1>3, <1>4, <1>6, <1>7, Grown, SMTT(30)
<1>10. Growing(F) /\ Keeps(files, F)
  <2>1. \A v \in 1 .. Len(r) - 1 : F[v].written
    BY <1>4, <1>6, <1>9
  <2>2. Growing(F)
    BY <1>4, <1>9, <2>1 DEF Growing
  <2>3. Keeps(files, F)
    BY <1>6, <1>9 DEF Keeps
  <2>. QED  BY <2>2, <2>3
<1>. DEFINE c == [b EXCEPT !.at = "write"]
<1>11. writer' = [writer EXCEPT ![w] = c]
  BY <1>1 DEF Create, WriterGoes, WriterBecomes
<1>12. /\ c \in FileCalls /\ c.at = "write" /\ c.reading = b.reading /\ c.record = r
       /\ c.envelope = b.envelope /\ c.stamp = b.stamp
  BY <1>2 DEF FileCalls, Places
<1>. HIDE DEF c
<1>13. Holds(F, r)
  BY <1>4, <1>9 DEF Holds, NewFile
<1>14. Grows(F, c)
  <2>1. c.reading = "after" => F[Len(c.record)].entered
    BY <1>2, <1>3, <1>9, <1>10, <1>12 DEF Grows, Keeps, Holds
  <2>. QED  BY <1>4, <1>12, <1>13, <2>1 DEF Grows
<1>15. Attended'
  <2>1. writer'[w] = c
    BY <1>11 DEF FilesInv
  <2>2. \A v \in DOMAIN F : v <= Len(r)
    BY <1>4, <1>9
  <2>. QED  BY <1>8, <1>12, <2>1, <2>2 DEF Attended
<1>16. FilesInv'
  BY <1>1, <1>3, <1>8, <1>9, <1>10, <1>11, <1>12, <1>14, <1>15, FilesStep
<1>17. Stored' = Stored
  BY <1>8, <1>9, Operators
<1>. QED  BY <1>8, <1>16, <1>17, Stutters

\* The facts of the three steps that work on the files there are.
LEMMA WorksOn ==
    ASSUME FilesInv, NEW w \in Writers,
           writer[w].at \in {"write", "fsync", "fsync_directory"},
           NEW F, files' = F, F \in [DOMAIN files -> Contents], Keeps(files, F),
           writer[w].at = "write" => F[Len(writer[w].record)].written,
           NEW c \in FileCalls, writer' = [writer EXCEPT ![w] = c],
           c.envelope = writer[w].envelope, c.stamp = writer[w].stamp, c.record = writer[w].record,
           \/ c.at \in {"fsync", "fsync_directory"} /\ c.reading = writer[w].reading
           \/ c.at = "list" /\ c.reading = "after" /\ F[Len(c.record)].entered,
           UNCHANGED <<answers, counted>>
    PROVE  /\ FilesInv' /\ IsDirectory(files) /\ IsDirectory(F) /\ Growing(files)
           /\ DOMAIN F = DOMAIN files /\ Holds(files, writer[w].record)
           /\ writer[w].record \in Chains /\ writer[w].record # << >>
<1>1. PICK b \in FileCalls : b = writer[w]
  BY WriterIs
<1>2. /\ Growing(files) /\ Grows(files, b) /\ IsDirectory(files) /\ Holds(files, b.record)
  BY <1>1, WriterIs DEF Waits, FilesInv, Grows
<1>3. b.record \in Chains /\ b.record # << >>
  BY <1>2, DirectoryFacts DEF Holds
<1>4. DOMAIN F = DOMAIN files /\ F \in [DOMAIN F -> Contents]
  OBVIOUS
<1>5. IsDirectory(F)
  BY <1>2, <1>4, PartOf DEF Keeps
<1>6. Growing(F)
  <2>1. PICK n \in Nat : DOMAIN files = 1 .. n /\ \A v \in 1 .. n - 1 : files[v].written
    BY <1>2 DEF Growing
  <2>2. \A v \in 1 .. n - 1 : v \in DOMAIN files /\ F[v].written
    BY <2>1 DEF Keeps
  <2>. QED  BY <1>4, <2>1, <2>2 DEF Growing
<1>7. Grows(F, b) /\ Holds(F, b.record)
  BY <1>2, GrowsStill, HoldsStill
<1>8. Grows(F, c)
  BY <1>1, <1>3, <1>7 DEF Grows
<1>9. Attended'
  <2>1. ASSUME b.at = "write", NEW v \in DOMAIN F, v <= Len(b.record)
        PROVE  F[v].written
    <3>1. PICK n \in Nat : DOMAIN F = 1 .. n /\ \A u \in 1 .. n - 1 : F[u].written
      BY <1>6 DEF Growing
    <3>2. Len(b.record) \in 1 .. n /\ v \in 1 .. n
      BY <1>7, <3>1 DEF Holds
    <3>3. CASE v = n
      <4>1. v = Len(b.record)
        BY <2>1, <3>2, <3>3
      <4>. QED  BY <1>1, <2>1, <4>1
    <3>4. CASE v # n
      BY <3>1, <3>2, <3>4
    <3>. QED  BY <3>3, <3>4
  <2>. QED  BY <1>1, <1>4, <1>5, <1>6, <2>1, AttendedStill
<1>10. FilesInv'
  BY <1>1, <1>5, <1>6, <1>8, <1>9, FilesStep
<1>. QED  BY <1>1, <1>2, <1>3, <1>4, <1>5, <1>10


LEMMA WriteStep ==
    ASSUME FilesInv, NEW w \in Writers, Write(w)
    PROVE  FilesInv' /\ [FilesPromise!Next]_FilesPromise!vars
<1>1. PICK b \in FileCalls : b = writer[w] /\ b.at = "write"
  BY WriterIs DEF Write, WriterAt
<1>2. PICK k : k = Len(b.record)
  OBVIOUS
<1>3. /\ Holds(files, b.record) /\ b.record # << >> /\ k \in DOMAIN files /\ Growing(files)
      /\ IsDirectory(files) /\ FileVersion(w) = k
  BY <1>1, <1>2, WriterIs, DirectoryFacts DEF Waits, Grows, Holds, FilesInv
<1>4. PICK F : F = [files EXCEPT ![k] = [files[k] EXCEPT !.written = TRUE]]
  OBVIOUS
<1>5. files' = F /\ UNCHANGED <<answers, counted>>
  BY <1>3, <1>4 DEF Write
<1>6. files \in [DOMAIN files -> Contents]
  BY <1>3 DEF IsDirectory
<1>7. PICK file : file = [files[k] EXCEPT !.written = TRUE]
  OBVIOUS
<1>8. /\ file \in Contents /\ file.record = files[k].record /\ file.written = TRUE
      /\ file.entered = files[k].entered
  <2>1. PICK g \in Contents : g = files[k]
    BY <1>3, <1>6
  <2>2. file = [g EXCEPT !.written = TRUE]
    BY <1>7, <2>1
  <2>3. /\ file \in Contents /\ file.record = g.record /\ file.written = TRUE
        /\ file.entered = g.entered
    BY <2>2 DEF Contents
  <2>. QED  BY <2>1, <2>3
<1>9. /\ F \in [DOMAIN files -> Contents] /\ F[k] = file
      /\ \A v \in DOMAIN files : v # k => F[v] = files[v]
  BY <1>3, <1>4, <1>6, <1>7, <1>8
<1>10. Keeps(files, F)
  BY <1>8, <1>9 DEF Keeps
<1>. DEFINE c == [b EXCEPT !.at = "fsync"]
<1>11. writer' = [writer EXCEPT ![w] = c]
  BY <1>1 DEF Write, WriterGoes, WriterBecomes
<1>12. /\ c \in FileCalls /\ c.at = "fsync" /\ c.reading = b.reading /\ c.record = b.record
       /\ c.envelope = b.envelope /\ c.stamp = b.stamp
  BY DEF FileCalls, Places
<1>. HIDE DEF c
<1>13. FilesInv' /\ IsDirectory(F)
  BY <1>1, <1>2, <1>5, <1>8, <1>9, <1>10, <1>11, <1>12, WorksOn
<1>14. PICK n \in Nat : DOMAIN files = 1 .. n /\ \A v \in 1 .. n - 1 : files[v].written
  BY <1>3 DEF Growing
<1>15. k \in 1 .. n /\ DOMAIN F = 1 .. n
  BY <1>3, <1>9, <1>14
<1>16. CASE files[k].written
  <2>1. \A v \in 1 .. n : F[v].written <=> files[v].written
    BY <1>8, <1>9, <1>14, <1>16
  <2>2. \A m \in Nat : Sound(files, m) <=> Sound(F, m)
    BY <1>14, <1>15, <2>1 DEF Sound
  <2>3. StoredIn(F) = StoredIn(files)
    BY <1>3, <1>10, <1>13, <2>2, StoredSame DEF Keeps
  <2>. QED  BY <1>5, <1>13, <2>3, Operators, Stutters
<1>17. CASE ~ files[k].written
  <2>1. k = n /\ n \in Nat \ {0}
    BY <1>14, <1>15, <1>17
  <2>2. Sound(files, n - 1) /\ ~ Sound(files, n)
    <3>1. \A v \in 1 .. n - 1 : v \in DOMAIN files
      BY <1>14
    <3>2. n \in 1 .. n
      BY <2>1
    <3>. QED  BY <1>14, <1>17, <2>1, <3>1, <3>2 DEF Sound
  <2>3. Sound(F, n) /\ ~ Sound(F, n + 1)
    <3>1. \A v \in 1 .. n : F[v].written
      BY <1>8, <1>9, <1>14, <2>1
    <3>2. n + 1 \in 1 .. n + 1 /\ n + 1 \notin DOMAIN F
      BY <1>15
    <3>. QED  BY <1>15, <3>1, <3>2 DEF Sound
  <2>4. StoredIn(files) = Ending(files, n - 1) /\ StoredIn(F) = Ending(F, n)
    <3>1. n - 1 \in Nat /\ (n - 1) + 1 = n
      BY <2>1
    <3>. QED  BY <1>3, <1>13, <2>2, <2>3, <3>1, StoredIs
  <2>5. PICK r \in Witnessed : r = files[n].record /\ Len(r) = n
    BY <1>3, <2>1, DirectoryFacts
  <2>6. Ending(F, n) = r
    BY <1>8, <1>9, <2>1, <2>5 DEF Ending
  <2>7. Ending(files, n - 1) = UpTo(r, n - 1)
    <3>1. 1 .. n \subseteq DOMAIN files /\ n - 1 \in 0 .. n
      BY <1>14, <2>1
    <3>2. Ending(files, n - 1) = UpTo(Ending(files, n), n - 1)
      BY <1>3, <3>1, EndingFacts
    <3>. QED  BY <2>1, <2>5, <3>2 DEF Ending
  <2>8. Stored = UpTo(r, n - 1) /\ Stored' = r
    BY <1>5, <2>4, <2>6, <2>7, Operators
  <2>9. PICK envelope \in Envelopes, stamp \in Stamps :
           /\ stamp >= envelope.issued /\ Follows(envelope, UpTo(r, n - 1))
           /\ r = Append(UpTo(r, n - 1), Observation(envelope, stamp))
    BY <2>5, Continues, SMTT(30)
  <2>10. FilesPromise!Follows(envelope, Stored)
    BY <2>8, <2>9 DEF FilesPromise!Follows, Follows, FilesPromise!SameSource, SameSource,
                      FilesPromise!Latest, Latest
  <2>11. FilesPromise!Accept(envelope, stamp)
    BY <1>5, <2>8, <2>9, <2>10 DEF FilesPromise!Accept, FilesPromise!Observation, Observation
  <2>. QED  BY <1>13, <2>11 DEF FilesPromise!Next
<1>. QED  BY <1>16, <1>17

LEMMA SyncSteps ==
    ASSUME FilesInv, NEW w \in Writers, SyncFile(w) \/ SyncDirectory(w)
    PROVE  FilesInv' /\ [FilesPromise!Next]_FilesPromise!vars
<1>1. PICK b \in FileCalls : b = writer[w] /\ b.at \in {"fsync", "fsync_directory"}
  BY WriterIs DEF SyncFile, SyncDirectory, WriterAt
<1>2. PICK k : k = Len(b.record)
  OBVIOUS
<1>3. /\ Holds(files, b.record) /\ b.record # << >> /\ k \in DOMAIN files /\ Growing(files)
      /\ IsDirectory(files) /\ FileVersion(w) = k
  BY <1>1, <1>2, WriterIs, DirectoryFacts DEF Waits, Grows, Holds, FilesInv
<1>4. files \in [DOMAIN files -> Contents]
  BY <1>3 DEF IsDirectory
<1>5. ASSUME NEW F, files' = F, F \in [DOMAIN files -> Contents],
             \A v \in DOMAIN files : /\ F[v].record = files[v].record
                                     /\ F[v].written = files[v].written
                                     /\ files[v].entered => F[v].entered,
             NEW c \in FileCalls, writer' = [writer EXCEPT ![w] = c],
             c.envelope = b.envelope, c.stamp = b.stamp, c.record = b.record,
             \/ c.at \in {"fsync", "fsync_directory"} /\ c.reading = b.reading
             \/ c.at = "list" /\ c.reading = "after" /\ F[k].entered,
             UNCHANGED <<answers, counted>>
      PROVE  FilesInv' /\ [FilesPromise!Next]_FilesPromise!vars
  <2>1. Keeps(files, F)
    BY <1>5 DEF Keeps
  <2>2. FilesInv' /\ IsDirectory(F)
    BY <1>1, <1>2, <1>5, <2>1, WorksOn
  <2>3. \A m \in Nat : Sound(files, m) <=> Sound(F, m)
    BY <1>5 DEF Sound
  <2>4. StoredIn(F) = StoredIn(files)
    BY <1>3, <1>5, <2>2, <2>3, StoredSame
  <2>. QED  BY <1>5, <2>2, <2>4, Operators, Stutters
<1>6. CASE SyncFile(w)
  <2>1. PICK g \in Contents : g = files[k]
    BY <1>3, <1>4
  <2>2. PICK file : file = [g EXCEPT !.synced = TRUE]
    OBVIOUS
  <2>3. /\ file \in Contents /\ file.record = g.record /\ file.written = g.written
        /\ file.entered = g.entered
    BY <2>2 DEF Contents
  <2>4. PICK F : F = [files EXCEPT ![k] = file]
    OBVIOUS
  <2>5. files' = F /\ UNCHANGED <<answers, counted>>
    BY <1>3, <1>6, <2>1, <2>2, <2>4 DEF SyncFile
  <2>6. /\ F \in [DOMAIN files -> Contents]
        /\ \A v \in DOMAIN files : /\ F[v].record = files[v].record
                                   /\ F[v].written = files[v].written
                                   /\ files[v].entered => F[v].entered
    BY <1>3, <1>4, <2>1, <2>3, <2>4
  <2>. DEFINE c == [b EXCEPT !.at = "fsync_directory"]
  <2>7. writer' = [writer EXCEPT ![w] = c]
    BY <1>1, <1>6 DEF SyncFile, WriterGoes, WriterBecomes
  <2>8. /\ c \in FileCalls /\ c.at = "fsync_directory" /\ c.reading = b.reading
        /\ c.record = b.record /\ c.envelope = b.envelope /\ c.stamp = b.stamp
    BY DEF FileCalls, Places
  <2>. HIDE DEF c
  <2>. QED  BY <1>5, <2>5, <2>6, <2>7, <2>8
<1>7. CASE SyncDirectory(w)
  <2>1. PICK F : F = [v \in DOMAIN files |-> [files[v] EXCEPT !.entered = TRUE]]
    OBVIOUS
  <2>2. files' = F /\ UNCHANGED <<answers, counted>>
    BY <1>7, <2>1 DEF SyncDirectory
  <2>3. ASSUME NEW v \in DOMAIN files
        PROVE  /\ F[v] \in Contents /\ F[v].record = files[v].record
               /\ F[v].written = files[v].written /\ F[v].entered
    <3>1. PICK g \in Contents : g = files[v]
      BY <1>4
    <3>2. F[v] = [g EXCEPT !.entered = TRUE]
      BY <2>1, <3>1
    <3>3. /\ F[v] \in Contents /\ F[v].record = g.record
          /\ F[v].written = g.written /\ F[v].entered
      BY <3>2 DEF Contents
    <3>. QED  BY <3>1, <3>3
  <2>4. F \in [DOMAIN files -> Contents] /\ F[k].entered
    BY <1>3, <2>1, <2>3
  <2>. DEFINE c == [b EXCEPT !.at = "list", !.reading = "after"]
  <2>5. writer' = [writer EXCEPT ![w] = c]
    BY <1>1, <1>7 DEF SyncDirectory, Reads, WriterBecomes
  <2>6. /\ c \in FileCalls /\ c.at = "list" /\ c.reading = "after"
        /\ c.record = b.record /\ c.envelope = b.envelope /\ c.stamp = b.stamp
    BY DEF FileCalls, Places, Readings
  <2>. HIDE DEF c
  <2>. QED  BY <1>5, <2>2, <2>3, <2>4, <2>5, <2>6
<1>. QED  BY <1>6, <1>7

-----------------------------------------------------------------------------
(* The failure of the power.                                                *)

LEMMA PowerStep ==
    ASSUME FilesInv, PowerFails
    PROVE  FilesInv' /\ [FilesPromise!Next]_FilesPromise!vars
<1>1. /\ IsDirectory(files) /\ interruptions \in Nat /\ powerFailures \in Nat
      /\ files \in [DOMAIN files -> Contents]
      /\ \A a \in answers : Remembers(files, namespace, a)
  BY DEF FilesInv, IsDirectory
<1>2. /\ powerFailures' = powerFailures + 1 /\ writer' = [w \in Writers |-> IdleWriter]
      /\ UNCHANGED <<answers, observations, interruptions>>
  BY DEF PowerFails
<1>3. PICK F : F = files'
  OBVIOUS
<1>4. /\ DOMAIN F \subseteq DOMAIN files /\ F \in [DOMAIN F -> Contents]
      /\ \A v \in DOMAIN F : /\ F[v].record = files[v].record
                             /\ F[v].synced /\ F[v].entered
                             /\ F[v].written => files[v].written
      /\ namespace' # "lost" =>
            /\ namespace # "lost"
            /\ \A v \in DOMAIN files : files[v].entered => v \in DOMAIN F
  <2>1. ASSUME NEW versions \in SUBSET DOMAIN files, NEW torn \in SUBSET versions,
               \A v \in DOMAIN files : (files[v].entered => v \in versions),
               F = Remaining(versions, torn),
               namespace' = IF files # << >> /\ namespace = "unforced" THEN "kept" ELSE namespace
        PROVE  /\ DOMAIN F \subseteq DOMAIN files /\ F \in [DOMAIN F -> Contents]
               /\ \A v \in DOMAIN F : /\ F[v].record = files[v].record
                                      /\ F[v].synced /\ F[v].entered
                                      /\ F[v].written => files[v].written
               /\ namespace' # "lost" =>
                     /\ namespace # "lost"
                     /\ \A v \in DOMAIN files : files[v].entered => v \in DOMAIN F
    <3>1. DOMAIN F = versions /\ F = [v \in versions |-> F[v]]
      BY <2>1 DEF Remaining
    <3>2. ASSUME NEW v \in versions
          PROVE  /\ F[v] \in Contents /\ F[v].record = files[v].record
                 /\ F[v].synced /\ F[v].entered
                 /\ F[v].written => files[v].written
      <4>1. PICK g \in Contents : g = files[v]
        BY <1>1
      <4>2. F[v] = [g EXCEPT !.written = @ /\ v \notin torn, !.synced = TRUE, !.entered = TRUE]
        BY <2>1, <4>1 DEF Remaining
      <4>. QED  BY <4>1, <4>2 DEF Contents
    <3>. QED  BY <2>1, <3>1, <3>2
  <2>2. ASSUME F = << >>, namespace' = "lost"
        PROVE  /\ DOMAIN F \subseteq DOMAIN files /\ F \in [DOMAIN F -> Contents]
               /\ \A v \in DOMAIN F : v \notin DOMAIN F
    BY <2>2
  <2>3. CASE files' = << >> /\ namespace' = "lost"
    BY <1>3, <2>2, <2>3
  <2>4. CASE /\ \E versions \in SUBSET DOMAIN files : \E torn \in SUBSET versions :
                   /\ \A v \in DOMAIN files : files[v].entered => v \in versions
                   /\ \A v \in torn : ~ files[v].synced
                   /\ files' = Remaining(versions, torn)
             /\ namespace' = IF files # << >> /\ namespace = "unforced" THEN "kept" ELSE namespace
    BY <1>3, <2>1, <2>4
  <2>. QED  BY <2>3, <2>4 DEF PowerFails
<1>5. IsDirectory(F) /\ \E n \in 0 .. Len(StoredIn(files)) : StoredIn(F) = SubSeq(StoredIn(files), 1, n)
  BY <1>1, <1>4, PartOf
<1>6. Growing(F) \/ Ruined(F)
  <2>1. CASE ReadableIn(F, DOMAIN F)
    <3>1. PICK n \in Nat : DOMAIN F = 1 .. n /\ Sound(F, n)
      BY <1>5, <2>1, ListedAre
    <3>2. \A v \in 1 .. n - 1 : F[v].written
      BY <3>1 DEF Sound
    <3>. QED  BY <3>1, <3>2 DEF Growing
  <2>2. CASE ~ ReadableIn(F, DOMAIN F)
    BY <1>4, <2>2 DEF Ruined
  <2>. QED  BY <2>1, <2>2
<1>7. PICK W : W = writer'
  OBVIOUS
<1>8. W \in [Writers -> FileCalls] /\ \A w \in Writers : Asked(W[w]) /\ Grows(F, W[w]) /\ Waits(F, W[w])
  BY <1>2, <1>7, IdleIs
<1>9. PICK space : space = namespace'
  OBVIOUS
<1>10. \A a \in answers : Remembers(F, space, a)
  <2>1. ASSUME NEW a \in answers, space # "lost", a.how = "created"
        PROVE  Holds(F, a.record) /\ F[Len(a.record)].entered
    <3>1. Holds(files, a.record) /\ files[Len(a.record)].entered
      BY <1>1, <1>4, <1>9, <2>1 DEF Remembers
    <3>2. Len(a.record) \in DOMAIN F
      BY <1>4, <1>9, <2>1, <3>1 DEF Holds
    <3>. QED  BY <1>4, <3>1, <3>2 DEF Holds
  <2>. QED  BY <1>1, <2>1 DEF Remembers
<1>11. powerFailures' \in Nat /\ powerFailures' > 0 /\ interruptions' \in Nat /\ answers' = answers
  BY <1>1, <1>2
<1>12. FilesInv'
  <2>1. Attended'
    BY <1>11 DEF Attended
  <2>. QED  BY <1>3, <1>5, <1>6, <1>7, <1>8, <1>9, <1>10, <1>11, <2>1 DEF FilesInv
<1>13. FilesPromise!LoseEnd
  <2>1. Stored = StoredIn(files) /\ Stored' = StoredIn(F)
    BY <1>3, Operators
  <2>2. Stored' \in FilesPromise!Histories
    BY <1>5, <2>1 DEF FilesPromise!Histories
  <2>. QED  BY <1>11, <2>2 DEF FilesPromise!LoseEnd
<1>. QED  BY <1>12, <1>13 DEF FilesPromise!Next

-----------------------------------------------------------------------------
LEMMA FilesInitially == FilesInit => FilesInv /\ FilesPromise!Init
<1>. SUFFICES ASSUME FilesInit
              PROVE  FilesInv /\ FilesPromise!Init
  OBVIOUS
<1>1. /\ files = << >> /\ writer = [w \in Writers |-> IdleWriter] /\ answers = {}
      /\ interruptions = 0 /\ powerFailures = 0
  BY DEF FilesInit
<1>2. PICK F : F = files
  OBVIOUS
<1>3. DOMAIN F = {} /\ F \in [{} -> Contents]
  BY <1>1, <1>2
<1>4. IsDirectory(F)
  BY <1>3, FS_EmptySet DEF IsDirectory
<1>5. Growing(F) /\ Sound(F, 0) /\ ~ Sound(F, 0 + 1)
  <2>1. DOMAIN F = 1 .. 0 /\ 1 \in 1 .. 0 + 1 /\ 1 \notin DOMAIN F
    BY <1>3
  <2>. QED  BY <2>1 DEF Growing, Sound
<1>6. ReadableIn(F, DOMAIN F)
  <2>1. DOMAIN F = 1 .. 0
    BY <1>3
  <2>. QED  BY <1>4, <1>5, <2>1, ReadsAre
<1>7. StoredIn(F) = << >>
  BY <1>4, <1>5, StoredIs DEF Ending
<1>8. \A w \in Writers : writer[w] = IdleWriter
  BY <1>1
<1>9. FilesInv
  BY <1>1, <1>2, <1>4, <1>5, <1>6, <1>8, IdleIs DEF FilesInv, Attended
<1>10. FilesPromise!Init
  BY <1>1, <1>2, <1>7, Operators DEF FilesPromise!Init
<1>. QED  BY <1>9, <1>10

LEMMA FilesStay ==
    FilesInv /\ [FilesNext]_filesVars => FilesInv' /\ [FilesPromise!Next]_FilesPromise!vars
<1>. SUFFICES ASSUME FilesInv, [FilesNext]_filesVars
              PROVE  FilesInv' /\ [FilesPromise!Next]_FilesPromise!vars
  OBVIOUS
<1>1. CASE UNCHANGED filesVars
  <2>1. /\ files' = files /\ writer' = writer /\ answers' = answers /\ namespace' = namespace
        /\ interruptions' = interruptions /\ powerFailures' = powerFailures
    BY <1>1 DEF filesVars
  <2>2. FilesInv'
    BY <2>1 DEF FilesInv, Attended
  <2>3. Stored' = Stored
    BY <2>1, Operators
  <2>. QED  BY <2>1, <2>2, <2>3, Stutters
<1>2. ASSUME NEW w \in Writers,
             \/ \E envelope \in Envelopes, stamp \in Stamps : ObserveFile(w, envelope, stamp)
             \/ List(w) \/ Unreadable(w) \/ Refuse(w) \/ Replay(w) \/ Prepare(w)
             \/ Create(w) \/ LosesRace(w) \/ Write(w) \/ SyncFile(w) \/ SyncDirectory(w)
             \/ AcceptRace(w) \/ Equivocation(w) \/ Succeed(w) \/ NoRoundTrip(w)
             \/ Interrupt(w)
      PROVE  FilesInv' /\ [FilesPromise!Next]_FilesPromise!vars
  BY <1>2, FileObserveStep, ListStep, RaiseSteps, AnswerSteps, PrepareStep, CreateStep,
     RaceSteps, WriteStep, SyncSteps, InterruptStep
<1>. QED  BY <1>1, <1>2, PowerStep DEF FilesNext

LEMMA FilesAlways == FilesSpec => []FilesInv
<1>1. FilesInit => FilesInv
  BY FilesInitially
<1>2. FilesInv /\ [FilesNext]_filesVars => FilesInv'
  BY FilesStay
<1>. QED  BY <1>1, <1>2, PTL DEF FilesSpec

-----------------------------------------------------------------------------
\* A record whose writer passed the barriers is in every history that is read
\* afterwards, unless the directory itself was lost; and no reader is refused but
\* while a file is being written, or after a death or a failure.
THEOREM FilesRemember == FilesSpec => []CreatedIsNeverForgotten
<1>1. ASSUME FilesInv
      PROVE  CreatedIsNeverForgotten
  <2>1. ASSUME namespace # "lost", Readable(DOMAIN files), NEW a \in answers, a.how = "created"
        PROVE  Extends(a.record, History(DOMAIN files))
    <3>1. /\ IsDirectory(files) /\ ReadableIn(files, DOMAIN files) /\ a.record \in Chains
          /\ Len(a.record) \in DOMAIN files /\ files[Len(a.record)].record = a.record
      BY <1>1, <2>1, Operators DEF FilesInv, Remembers, Holds
    <3>2. PICK n \in Nat : /\ DOMAIN files = 1 .. n /\ Sound(files, n)
                           /\ HistoryIn(files, DOMAIN files) = Ending(files, n)
      BY <3>1, ListedAre
    <3>3. PICK m \in Nat \ {0} : m = Len(a.record) /\ m <= n
      BY <3>1, <3>2
    <3>4. Ending(files, m) = UpTo(Ending(files, n), m) /\ Len(Ending(files, n)) = n
      BY <3>1, <3>2, <3>3, EndingFacts
    <3>5. a.record = UpTo(History(DOMAIN files), m) /\ Len(History(DOMAIN files)) = n
      BY <3>1, <3>2, <3>3, <3>4, Operators DEF Ending
    <3>. QED  BY <3>3, <3>5 DEF Extends, UpTo
  <2>2. \/ Readable(DOMAIN files) \/ interruptions > 0 \/ powerFailures > 0
        \/ \E w \in Writers : WriterAt(w, "write")
    BY <1>1, Operators DEF FilesInv, Attended, WriterAt
  <2>. QED  BY <2>1, <2>2 DEF CreatedIsNeverForgotten
<1>. QED  BY <1>1, FilesAlways, PTL

\* The longest readable prefix of the files is the history a witness promises to
\* keep (WitnessHistory): a failure of the power takes its end only.
THEOREM FilesKeepTheHistory == FilesSpec => FilesImplementWitnessHistory
<1>1. FilesInit => FilesPromise!Init
  BY FilesInitially
<1>2. FilesInv /\ [FilesNext]_filesVars => [FilesPromise!Next]_FilesPromise!vars
  BY FilesStay
<1>. QED  BY <1>1, <1>2, FilesAlways, PTL
          DEF FilesSpec, FilesImplementWitnessHistory, FilesPromise!Spec
=============================================================================
