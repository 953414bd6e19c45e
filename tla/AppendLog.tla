------------------------------ MODULE AppendLog ------------------------------
(***************************************************************************)
(* What a journal sink promises to the executions that append through it:  *)
(* one log per execution, each event identifier in it at most once, no     *)
(* entry ever changed or removed, and an acknowledgement only for an entry *)
(* that is in the log, at the position and with the content the log has.   *)
(***************************************************************************)
EXTENDS Naturals, Sequences

CONSTANTS EventIds, Bodies

VARIABLES log,    \* Seq([id, body])
          acked   \* the <<position, entry>> pairs returned to a caller

vars == <<log, acked>>

Logged(id) == \E i \in 1..Len(log) : log[i].id = id

Init == log = << >> /\ acked = {}

Append1 == \E d \in [id : EventIds, body : Bodies] :
              /\ ~Logged(d.id)
              /\ log' = Append(log, d)
              /\ UNCHANGED acked

Acknowledge == \E i \in 1..Len(log) :
                  /\ acked' = acked \cup {<<i, log[i]>>}
                  /\ UNCHANGED log

Next == Append1 \/ Acknowledge

Spec == Init /\ [][Next]_vars
=============================================================================
