--------------------------- MODULE ServiceSettings ---------------------------
(***************************************************************************)
(* The media servers' settings and what runs on them: the rows of          *)
(* service_configs that the settings routes save and delete                *)
(* (api/routes/settings/services.py), the SERVICE_TOGGLE jobs that carry a *)
(* saved row to the running server (core/service_runtime.py), the clients  *)
(* the service manager holds (core/service_manager.py) and loads at a      *)
(* start (core/service_bootstrap.py), and the resync of the library that a *)
(* change of the main server asks for.                                     *)
(*                                                                         *)
(* A route gives way to every other at each of its awaits: it reads, then  *)
(* contacts the provider, then commits, then enqueues.  A toggle works     *)
(* from the copy of the row in its payload, and each toggle and each       *)
(* delete ends with the refresh of the task schedules.                     *)
(***************************************************************************)
EXTENDS TaskSchedules, FiniteSets, Sequences, SequencesExt

CONSTANTS
  Config,      \* ids of media server configurations
  Url,         \* values of base_url and api_key
  Handler,     \* requests served at the same time
  MaxSaves,    \* bounds on the saves and deletes that reach the database,
  MaxOutages,  \* on the initialisations that fail,
  MaxCrashes   \* and on the ends of the process

ASSUME ServiceAssumption ==
  {MaxSaves, MaxOutages, MaxCrashes} \subseteq Nat

None == "none"
ASSUME UrlAssumption == None \notin Url

VARIABLES
  config,      \* service_configs
  queue,       \* PENDING service-toggle jobs in their order
  toggle,      \* the RUNNING one: handle_service_toggle
  request,     \* the save or delete in progress, by handler
  client,      \* the url of each client in the service manager
  main,        \* its main media server
  resync,      \* a RESYNC_MEDIA run is queued
  passedOver,  \* history: configurations changed again while a change of
               \* theirs was on its way, since the last start
  failed,      \* history: those whose last initialisation failed
  faults       \* saves, outages and crashes so far

serviceVars == <<config, queue, toggle, request, client, main, resync,
                 passedOver, failed, faults>>
vars == <<serviceVars, scheduleVars>>

Absent == [exists |-> FALSE]
Stored == [exists: {TRUE}, enabled: BOOLEAN, url: Url, main: BOOLEAN]
Payload == [id: Config, row: Stored, resync: BOOLEAN]
NoToggle == [at |-> "idle"]
NoRequest == [at |-> "idle"]
Serving == {h \in Handler : request[h].at # "idle"}
Mains == {c \in Config : config[c].exists /\ config[c].main}

\* _service_toggle_lock is held by a toggle or by the end of a delete.
Locked ==
  \/ toggle.at \in {"matched", "cleared", "applied", "refreshing", "done"}
  \/ \E h \in Handler : request[h].at \in {"cleared", "refreshing"}

TypeOK ==
  /\ ScheduleTypeOK
  /\ config \in [Config -> Stored \cup {Absent}]
  /\ queue \in Seq(Payload)
  /\ toggle # NoToggle => toggle.job \in Payload
  /\ \A h \in Serving : request[h].id \in Config
  /\ client \in [Config -> Url \cup {None}]
  /\ main \in Config \cup {None}
  /\ resync \in BOOLEAN
  /\ passedOver \subseteq Config /\ failed \subseteq Config

\* One server is configured, is the main one and runs; so do others, perhaps.
Init ==
  /\ ScheduleInit
  /\ \E c \in Config, linked \in SUBSET Config, u \in Url :
       /\ c \in linked
       /\ config = [x \in Config |->
            IF x \in linked
            THEN [exists |-> TRUE, enabled |-> TRUE, url |-> u, main |-> x = c]
            ELSE Absent]
       /\ client = [x \in Config |-> IF x \in linked THEN u ELSE None]
       /\ main = c
  /\ queue = <<>> /\ toggle = NoToggle
  /\ request = [h \in Handler |-> NoRequest]
  /\ resync = FALSE
  /\ passedOver = {} /\ failed = {}
  /\ faults = [saves |-> 0, outages |-> 0, crashes |-> 0]

\* Configurations whose last change has not reached the service manager yet.
OnTheWay ==
  {request[h].id : h \in Serving} \cup {queue[i].id : i \in DOMAIN queue}
    \cup (IF toggle = NoToggle THEN {} ELSE {toggle.job.id})

-----------------------------------------------------------------------------
(***************************************************************************)
(* set_service_settings.  The existing row decides whether the request is  *)
(* refused; an enabled server is contacted; then the current main server   *)
(* is read, the row is written in one transaction that demotes the others, *)
(* and it is read again before the toggle is enqueued.                     *)
(***************************************************************************)
StartSave(h) ==
  /\ request[h].at = "idle"
  /\ faults.saves < MaxSaves
  /\ \E c \in Config, row \in Stored :
       /\ ~row.enabled => ~row.main /\ c \notin Mains
       /\ request' = [request EXCEPT ![h] =
            [at |-> "tested", id |-> c, row |-> row, update |-> config[c].exists]]
       /\ passedOver' = IF c \in OnTheWay THEN passedOver \cup {c} ELSE passedOver
  /\ faults' = [faults EXCEPT !.saves = @ + 1]
  /\ UNCHANGED <<config, queue, toggle, client, main, resync, failed,
                 scheduleVars>>

\* The main server switches if another one, or a row without an id, holds it.
ReadMain(h) ==
  /\ request[h].at = "tested"
  /\ LET r == request[h]
         switched == r.row.main /\ (IF r.update THEN Mains \ {r.id} ELSE Mains) # {}
     IN request' = [request EXCEPT ![h] = [at |-> "checked", id |-> r.id,
          row |-> r.row, update |-> r.update, resync |-> switched]]
  /\ UNCHANGED <<config, queue, toggle, client, main, resync,
                 passedOver, failed, faults, scheduleVars>>

Demoted(row) == IF row.exists THEN [row EXCEPT !.main = FALSE] ELSE row

\* A seeded fault: the previous main server keeps its flag.
SavedBeside(r, rows) ==
  [c \in Config |->
     IF c = r.id THEN IF r.update /\ ~rows[c].exists THEN Absent ELSE r.row
     ELSE rows[c]]

\* An UPDATE of a row that is gone changes nothing but the others' main flag.
Saved(r, rows) ==
  [c \in Config |->
     IF c = r.id THEN IF r.update /\ ~rows[c].exists THEN Absent ELSE r.row
     ELSE IF r.row.main THEN Demoted(rows[c]) ELSE rows[c]]

UpsertServiceConfig(h) ==
  /\ request[h].at = "checked"
  /\ config' = Saved(request[h], config)
  /\ request' = [request EXCEPT ![h].at = "saved"]
  /\ passedOver' = passedOver \cup
       {c \in OnTheWay \ {request[h].id} : config'[c] # config[c]}
  /\ UNCHANGED <<queue, toggle, client, main, resync, failed, faults,
                 scheduleVars>>

\* scalar_one raises if the row has been deleted since.
ReadSaved(h) ==
  /\ request[h].at = "saved"
  /\ request' = [request EXCEPT ![h] =
       IF config[request[h].id].exists THEN [request[h] EXCEPT !.at = "found"]
                                       ELSE NoRequest]
  /\ UNCHANGED <<config, queue, toggle, client, main, resync,
                 passedOver, failed, faults, scheduleVars>>

\* Without the toggle of configuration c that waits; the queue holds at most
\* one, since every producer replaces it.
Others(c) ==
  IF \E i \in DOMAIN queue : queue[i].id = c
  THEN RemoveAt(queue, CHOOSE i \in DOMAIN queue : queue[i].id = c)
  ELSE queue

\* The toggle of the same configuration that still waits is replaced.
EnqueueToggle(h) ==
  /\ request[h].at = "found"
  /\ queue' = Append(Others(request[h].id),
                     [id |-> request[h].id, row |-> request[h].row,
                      resync |-> request[h].resync])
  /\ request' = [request EXCEPT ![h] = NoRequest]
  /\ UNCHANGED <<config, toggle, client, main, resync, passedOver,
                 failed, faults, scheduleVars>>

-----------------------------------------------------------------------------
(***************************************************************************)
(* delete_service_settings.  The check of the main flag and the deletion   *)
(* are two database steps; the runtime is cleared under the toggle lock    *)
(* after the commit.                                                       *)
(***************************************************************************)
StartDelete(h) ==
  /\ request[h].at = "idle"
  /\ faults.saves < MaxSaves
  /\ \E c \in Config \ Mains :
       /\ config[c].exists
       /\ request' = [request EXCEPT ![h] = [at |-> "deleting", id |-> c]]
       /\ passedOver' = IF c \in OnTheWay THEN passedOver \cup {c} ELSE passedOver
  /\ faults' = [faults EXCEPT !.saves = @ + 1]
  /\ UNCHANGED <<config, queue, toggle, client, main, resync, failed,
                 scheduleVars>>

DeleteServiceConfig(h) ==
  /\ request[h].at = "deleting"
  /\ config' = [config EXCEPT ![request[h].id] = Absent]
  /\ queue' = Others(request[h].id)
  /\ request' = [request EXCEPT ![h].at = "deleted"]
  /\ UNCHANGED <<toggle, client, main, resync, passedOver, failed,
                 faults, scheduleVars>>

\* clear_plex and its like: the client goes, and the main server if it was it.
ClearServiceRuntime(c) ==
  /\ client' = [client EXCEPT ![c] = None]
  /\ main' = IF main = c THEN None ELSE main

\* A seeded fault: the client of a deleted server stays.
KeepDeletedRuntime(h) ==
  /\ request[h].at = "deleted"
  /\ ~Locked
  /\ request' = [request EXCEPT ![h].at = "cleared"]
  /\ UNCHANGED <<client, main, config, queue, toggle, resync,
                 passedOver, failed, faults, scheduleVars>>

ClearDeletedRuntime(h) ==
  /\ request[h].at = "deleted"
  /\ ~Locked
  /\ ClearServiceRuntime(request[h].id)
  /\ request' = [request EXCEPT ![h].at = "cleared"]
  /\ UNCHANGED <<config, queue, toggle, resync, passedOver, failed,
                 faults, scheduleVars>>

RefreshAfterDelete(h) ==
  /\ \/ /\ request[h].at = "cleared"
        /\ ReadSchedules
        /\ request' = [request EXCEPT ![h].at = "refreshing"]
     \/ /\ request[h].at = "refreshing"
        /\ RefreshSchedules
        /\ request' = [request EXCEPT ![h] = NoRequest]
  /\ UNCHANGED <<config, queue, toggle, client, main, resync,
                 passedOver, failed, faults>>

-----------------------------------------------------------------------------
(***************************************************************************)
(* handle_service_toggle.  One toggle runs at a time.  It is dropped when  *)
(* the stored row is gone or is no longer the one of its payload.          *)
(***************************************************************************)
ClaimToggle ==
  /\ toggle = NoToggle
  /\ queue # <<>>
  /\ toggle' = [at |-> "claimed", job |-> Head(queue)]
  /\ queue' = Tail(queue)
  /\ UNCHANGED <<config, request, client, main, resync, passedOver,
                 failed, faults, scheduleVars>>

\* A seeded fault: a row is looked for, but not compared.
Missing(job) == ~config[job.id].exists

Stale(job) == config[job.id] # job.row

ReadToggled ==
  /\ toggle.at = "claimed"
  /\ ~Locked
  /\ toggle' = IF Stale(toggle.job) THEN NoToggle ELSE [toggle EXCEPT !.at = "matched"]
  /\ UNCHANGED <<config, queue, request, client, main, resync,
                 passedOver, failed, faults, scheduleVars>>

ClearToggled ==
  /\ toggle.at = "matched"
  /\ ClearServiceRuntime(toggle.job.id)
  /\ failed' = failed \ {toggle.job.id}
  /\ toggle' = [toggle EXCEPT !.at = IF toggle.job.row.enabled THEN "cleared" ELSE "applied"]
  /\ UNCHANGED <<config, queue, request, resync, passedOver, faults,
                 scheduleVars>>

\* initialize_plex and its like: an unhealthy server gets no client, and the
\* main server stays what it was.
InitializeToggled ==
  /\ toggle.at = "cleared"
  /\ LET job == toggle.job
     IN \/ /\ client' = [client EXCEPT ![job.id] = job.row.url]
           /\ main' = IF job.row.main THEN job.id ELSE main
           /\ UNCHANGED <<failed, faults>>
        \/ /\ faults.outages < MaxOutages
           /\ faults' = [faults EXCEPT !.outages = @ + 1]
           /\ failed' = failed \cup {job.id}
           /\ UNCHANGED <<client, main>>
  /\ toggle' = [toggle EXCEPT !.at = "applied"]
  /\ UNCHANGED <<config, queue, request, resync, passedOver, scheduleVars>>

RefreshAfterToggle ==
  /\ \/ /\ toggle.at = "applied"
        /\ ReadSchedules
        /\ toggle' = [toggle EXCEPT !.at = "refreshing"]
     \/ /\ toggle.at = "refreshing"
        /\ RefreshSchedules
        /\ toggle' = [toggle EXCEPT !.at = "done"]
  /\ UNCHANGED <<config, queue, request, client, main, resync,
                 passedOver, failed, faults>>

FinishToggle ==
  /\ toggle.at = "done"
  /\ resync' = (resync \/ toggle.job.resync)
  /\ toggle' = NoToggle
  /\ UNCHANGED <<config, queue, request, client, main, passedOver,
                 failed, faults, scheduleVars>>

\* resync_media, in a child process that loads the services for itself.
ResyncMedia ==
  /\ resync
  /\ resync' = FALSE
  /\ UNCHANGED <<config, queue, toggle, request, client, main, passedOver,
                 failed, faults, scheduleVars>>

-----------------------------------------------------------------------------
(***************************************************************************)
(* The process ends and starts again: requests and the running toggle are  *)
(* gone, and load_enabled_services reads the rows before anything is       *)
(* served.  It refuses to start with two main servers.                     *)
(***************************************************************************)
Restart ==
  /\ faults.crashes < MaxCrashes
  /\ Cardinality(Mains) <= 1
  /\ \E down \in SUBSET {c \in Config : config[c].exists /\ config[c].enabled} :
       /\ faults.outages + Cardinality(down) <= MaxOutages
       /\ faults' = [faults EXCEPT !.crashes = @ + 1, !.outages = @ + Cardinality(down)]
       /\ failed' = down
       /\ client' = [c \in Config |->
            IF config[c].exists /\ config[c].enabled /\ c \notin down
            THEN config[c].url ELSE None]
       /\ main' = IF Mains \ down = {} THEN None ELSE CHOOSE c \in Mains : TRUE
  /\ toggle' = NoToggle
  /\ request' = [h \in Handler |-> NoRequest]
  /\ passedOver' = {}
  /\ SetupScheduler
  /\ UNCHANGED <<config, queue, resync>>

-----------------------------------------------------------------------------
ServeRequest(h) ==
  \/ StartSave(h) \/ ReadMain(h) \/ UpsertServiceConfig(h) \/ ReadSaved(h)
  \/ EnqueueToggle(h)
  \/ StartDelete(h) \/ DeleteServiceConfig(h) \/ ClearDeletedRuntime(h)
  \/ RefreshAfterDelete(h)

RunToggle ==
  \/ ClaimToggle \/ ReadToggled \/ ClearToggled \/ InitializeToggled
  \/ RefreshAfterToggle \/ FinishToggle

EditSchedule(u) == UpdateSchedule(u) /\ UNCHANGED serviceVars

Next ==
  \/ \E h \in Handler : ServeRequest(h)
  \/ RunToggle
  \/ \E u \in Updater : EditSchedule(u)
  \/ ResyncMedia
  \/ Restart

Spec == Init /\ [][Next]_vars

-----------------------------------------------------------------------------
(***************************************************************************)
(* Two administrators who promote different servers at the same time leave *)
(* one main server, also of the same type: every lookup of "the main       *)
(* server" raises on two (_upsert_service_config).                         *)
(***************************************************************************)
OneMainServer == \A c, d \in Mains : c = d

(***************************************************************************)
(* A row and its client: when no change of a configuration is on its way,  *)
(* the service manager holds a client built from the stored row exactly if *)
(* the row is there, enabled and its server answered, and the main server  *)
(* it names is the stored one if that has a client.  A toggle that is      *)
(* dropped as stale, a delete that meets a running toggle and a restart    *)
(* between the two all end there; only a configuration changed again while *)
(* its change was on its way may be left behind until the next start.      *)
(***************************************************************************)
RuntimeFollowsRows ==
  /\ \A c \in Config \ (OnTheWay \cup passedOver) :
       /\ client[c] = IF config[c].exists /\ config[c].enabled /\ c \notin failed
                      THEN config[c].url ELSE None
       /\ c \in Mains /\ client[c] # None => main = c
  /\ main # None => client[main] # None
=============================================================================
