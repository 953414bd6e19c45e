--------------------------- MODULE WitnessHistory ---------------------------
(***************************************************************************)
(* What a witness promises of one operation (src/proofos/witness.py, the     *)
(* reference ledger): it keeps the checkpoints it was shown as one history,   *)
(* in which no version is skipped and neither signer nor execution changes,    *)
(* and it answers with what that history holds.  A ledger whose storage fails   *)
(* may lose the end of its history, never the middle.                          *)
(***************************************************************************)
EXTENDS Witness

CONSTANTS Envelopes, \* signed checkpoints
          Stamps     \* readings of a witness's clock

VARIABLES history,   \* the operation's observations
          answered   \* the records observe() returned

vars == <<history, answered>>

Histories == {SubSeq(history, 1, n) : n \in 0..Len(history)}

Init == history = << >> /\ answered = {}

Accept(envelope, stamp) ==
    /\ stamp >= envelope.issued /\ Follows(envelope, history)
    /\ history' = Append(history, Observation(envelope, stamp))
    /\ UNCHANGED answered

Answer ==
    /\ \E record \in Histories \ {<< >>} : answered' = answered \cup {record}
    /\ UNCHANGED history

LoseEnd == history' \in Histories /\ UNCHANGED answered

Next ==
    \/ \E envelope \in Envelopes, stamp \in Stamps : Accept(envelope, stamp)
    \/ Answer
    \/ LoseEnd

Spec == Init /\ [][Next]_vars
=============================================================================
