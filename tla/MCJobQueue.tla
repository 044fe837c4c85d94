----------------------------- MODULE MCJobQueue -----------------------------
(***************************************************************************)
(* Small instances of JobQueue for TLC.                                    *)
(***************************************************************************)
EXTENDS JobQueue, TLC

HouseKeeping == TaskRun("WEEKLY_HOUSE_KEEPING", "manual", 0)

\* A routine task run and two commands that compete with it: a file operation
\* for the candidates, house keeping for its turn among the task runs.
MixedCommands ==
  {HouseKeeping,
   TaskRun("DELETE_CLEANUP_CANDIDATES", "scheduled", 0),
   OtherCommand("CANDIDATE_FILE_OP", 0, 0, 0)}

\* Two deliveries to one endpoint beside a task that may be disabled.
WebhookCommands ==
  {TaskRun("DELETE_CLEANUP_CANDIDATES", "manual", 0),
   OtherCommand("WEBHOOK_DELIVERY", 0, 1, 1),
   OtherCommand("WEBHOOK_DELIVERY", 0, 2, 1)}

Symmetry == Permutations(Worker)
=============================================================================
