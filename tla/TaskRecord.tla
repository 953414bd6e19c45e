----------------------------- MODULE TaskRecord -----------------------------
(***************************************************************************)
(* What the evidence ledger keeps of one task (_TaskRecord of               *)
(* src/proofos/ledger.py) and the clock its verdict is read at: the state     *)
(* that the ledger (EvidenceLedger) and an execution (Execution) are both      *)
(* about.                                                                  *)
(***************************************************************************)
EXTENDS Verifier

CONSTANT RequirementLists  \* the requirement lists tasks are opened with

VARIABLES evidence,   \* _TaskRecord.evidence, in the order it was recorded
          required,   \* _TaskRecord.required_kinds
          now
=============================================================================
