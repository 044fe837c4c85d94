---------------------------- MODULE CommandPool ----------------------------
(***************************************************************************)
(* What the command pool promises, with the database, the workers and the  *)
(* process left out: a command waits, is started in one atomic step when   *)
(* no running command holds a resource it needs, and is over exactly once. *)
(* JobQueue implements it.                                                 *)
(***************************************************************************)
EXTENDS Integers, Sequences

CONSTANT Need        \* the sets of resources a command may need

VARIABLE rows        \* the commands submitted so far, oldest first

TypeOK == rows \in Seq([need: Need, state: {"waiting", "running", "over"}])

In(state) == {i \in DOMAIN rows : rows[i].state = state}

\* rows, with those in S in another state.
Moved(S, state) ==
  [i \in DOMAIN rows |-> IF i \in S THEN [rows[i] EXCEPT !.state = state]
                                    ELSE rows[i]]

Init == rows = <<>>

\* A new command waits; it may take the place of commands still waiting.
Submit(need, replaced) ==
  rows' = Append(Moved(replaced, "over"), [need |-> need, state |-> "waiting"])

Start(i) ==
  /\ i \in In("waiting")
  /\ \A k \in In("running") : rows[k].need \cap rows[i].need = {}
  /\ rows' = Moved({i}, "running")

\* A command ends, a restart ends every command that was running, or commands
\* are withdrawn.
End(S) == rows' = Moved(S, "over")

Next ==
  \/ \E S \in SUBSET In("waiting"), need \in Need : Submit(need, S)
  \/ \E i \in DOMAIN rows : Start(i)
  \/ \E S \in SUBSET (In("waiting") \cup In("running")) : End(S)

Spec == Init /\ [][Next]_rows
=============================================================================
