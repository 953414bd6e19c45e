-------------------------- MODULE MCJournalFanout ---------------------------
(* Two processes, two event ids of which one is drafted again with another body, *)
(* a durable replica and then the stream.                                     *)
EXTENDS JournalFanout, TLC

MCReplicas == <<"durable", "stream">>
ProcessSymmetry == Permutations(Processes)
=============================================================================
