--------------------------- MODULE MCJournalAudit ---------------------------
(* Two processes, an auditor and three drafts: two of them carry the same event *)
(* id, as a retried Journal.record() with a new timestamp does.                 *)
EXTENDS JournalAudit

CONSTANTS e1, e2, b1, b2

MCEventIds == {e1, e2}
MCBodies == {b1, b2}
MCDrafts == {[id |-> e1, body |-> b1], [id |-> e1, body |-> b2], [id |-> e2, body |-> b1]}
=============================================================================
