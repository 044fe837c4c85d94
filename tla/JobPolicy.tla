----------------------------- MODULE JobPolicy -----------------------------
(***************************************************************************)
(* Background commands and what the queue derives from one: the exclusive  *)
(* resources it holds while it runs (jobs/policy.py), and the priority and *)
(* deduplication its producer enqueues it with.  A command is the part of  *)
(* a background_jobs row that never changes: its type and the payload      *)
(* fields the queue looks at.  A field a type does not use holds NoTask,   *)
(* "none" or 0.                                                            *)
(***************************************************************************)
EXTENDS Integers

JobType == {"SERVICE_TOGGLE", "TASK_RUN", "CANDIDATE_FILE_OP",
            "WEBHOOK_DELIVERY", "DUPLICATE_DELETE"}

SERVICE_RUNTIME_TASKS ==
  {"SYNC_MEDIA", "RESYNC_MEDIA", "SYNC_MEDIA_LIBRARIES", "SYNC_LINKED_DATA",
   "REFRESH_PLAYBACK_HISTORY", "SCAN_CLEANUP_CANDIDATES",
   "TAG_CLEANUP_CANDIDATES", "DELETE_CLEANUP_CANDIDATES"}

CANDIDATE_WORKFLOW_TASKS ==
  {"SCAN_CLEANUP_CANDIDATES", "TAG_CLEANUP_CANDIDATES",
   "DELETE_CLEANUP_CANDIDATES"}

\* Tasks whose body runs in a child process of the server.
ISOLATED_TASKS ==
  {"SYNC_MEDIA", "RESYNC_MEDIA", "SYNC_LINKED_DATA",
   "REFRESH_PLAYBACK_HISTORY", "SCAN_CLEANUP_CANDIDATES",
   "DELETE_CLEANUP_CANDIDATES", "IMDB_RATINGS_REFRESH",
   "ANILIST_RATINGS_REFRESH"}

\* Tasks an administrator may switch off.
DISABLE_ABLE_TASKS ==
  {"CHECK_APP_UPDATES", "IMDB_RATINGS_REFRESH", "ANILIST_RATINGS_REFRESH",
   "MDBLIST_RATINGS_REFRESH", "OMDB_RATINGS_REFRESH",
   "DELETE_CLEANUP_CANDIDATES", "SCAN_UPGRADE_LEFTOVERS", "BACKUP_DATABASE"}

Task == SERVICE_RUNTIME_TASKS \cup ISOLATED_TASKS \cup DISABLE_ABLE_TASKS
          \cup {"WEEKLY_HOUSE_KEEPING"}

NoTask == "NO_TASK"

CommandType ==
  [type: JobType, task: Task \cup {NoTask},
   trigger: {"manual", "scheduled", "system", "none"},
   config: Nat, delivery: Nat, endpoint: Nat]

\* Constructors: the rows each producer inserts.
TaskRun(task, trigger, config) ==
  [type |-> "TASK_RUN", task |-> task, trigger |-> trigger,
   config |-> config, delivery |-> 0, endpoint |-> 0]

OtherCommand(type, config, delivery, endpoint) ==
  [type |-> type, task |-> NoTask, trigger |-> "none",
   config |-> config, delivery |-> delivery, endpoint |-> endpoint]

-----------------------------------------------------------------------------
(***************************************************************************)
(* background_job_resources: the keys no two running jobs may share.       *)
(***************************************************************************)
HoldsServiceRuntime(c) ==
  \/ c.type \in {"SERVICE_TOGGLE", "CANDIDATE_FILE_OP", "DUPLICATE_DELETE"}
  \/ c.type = "TASK_RUN" /\ c.task \in SERVICE_RUNTIME_TASKS

HoldsCandidateWorkflow(c) ==
  \/ c.type \in {"CANDIDATE_FILE_OP", "DUPLICATE_DELETE"}
  \/ c.type = "TASK_RUN" /\ c.task \in CANDIDATE_WORKFLOW_TASKS

Resources(c) ==
  {r \in {<<"task-run", 0>>, <<"service-runtime", 0>>,
          <<"candidate-workflow", 0>>, <<"webhook-delivery", 0>>,
          <<"webhook-endpoint", c.endpoint>>} :
     \/ r[1] = "task-run" /\ c.type = "TASK_RUN"
     \/ r[1] = "service-runtime" /\ HoldsServiceRuntime(c)
     \/ r[1] = "candidate-workflow" /\ HoldsCandidateWorkflow(c)
     \/ /\ c.type = "WEBHOOK_DELIVERY"
        /\ r[1] = IF c.endpoint > 0 THEN "webhook-endpoint"
                                    ELSE "webhook-delivery"}

Isolated(c) == c.type = "TASK_RUN" /\ c.task \in ISOLATED_TASKS

(***************************************************************************)
(* What the producers pass to enqueue_background_job.                      *)
(***************************************************************************)
SkipIfActive(c) == c.type = "TASK_RUN"

ReplacePending(c) == c.type \in {"SERVICE_TOGGLE", "WEBHOOK_DELIVERY"}

\* Only task runs and replaceable commands carry a key.
SameKey(c, d) ==
  /\ SkipIfActive(c) \/ ReplacePending(c)
  /\ c.type = d.type
  /\ c.task = d.task
  /\ c.config = d.config
  /\ c.delivery = d.delivery

PriorityRank(c) ==
  CASE c.type = "TASK_RUN" /\ c.trigger = "scheduled" -> 1
    [] c.type = "TASK_RUN" /\ c.trigger # "scheduled" -> 2
    [] OTHER -> 3

\* The delays scheduled_at may lie in the future by: only webhook retries do.
Delays(c) == IF c.type = "WEBHOOK_DELIVERY" THEN {0, 1} ELSE {0}
=============================================================================
