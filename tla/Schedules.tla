------------------------------- MODULE Schedules -------------------------------
(***************************************************************************)
(* Backup schedules: the rows of app/routers/jobs.py and api.py, the jobs  *)
(* app/modules/scheduler/manager.py registers with APScheduler, and the    *)
(* runs that come of them.                                                 *)
(*                                                                         *)
(* APScheduler keeps its jobs in memory.  The handlers keep them in step   *)
(* with the rows; a restart registers them anew.  A job that fires only    *)
(* queues a coroutine, which reads its row when it begins.                 *)
(***************************************************************************)
EXTENDS Naturals

CONSTANTS
  MaxId,       \* bound: Schedule ids
  Crons,       \* cron expressions
  Unparsed,    \* those that APScheduler does not parse
  Devices,     \* the devices of every schedule
  MaxEdits,    \* bound: requests that change rows, and restarts
  NoJob        \* no job is registered

Ids == 1 .. MaxId
\* Instances of a job, and runs an operator asks for.
Kinds == {"fired", "now"}
Tasks == Kinds \X Ids

ASSUME CronAssumption == Crons # {} /\ Unparsed \subseteq Crons /\ NoJob \notin Crons
ASSUME BoundAssumption == MaxId \in Nat /\ MaxEdits \in Nat

VARIABLES
  schedules,  \* the schedules table
  jobs,       \* the cron expression APScheduler has for schedule_<id>
  tasks,      \* the coroutine of each task
  unloaded,   \* observer: enabled schedules left without a job, see MissedOnly
  edits

vars == <<schedules, jobs, tasks, unloaded, edits>>

-----------------------------------------------------------------------------
(* Rows, tasks *)

Schedule == [there : BOOLEAN, enabled : BOOLEAN, cron : Crons]
NoSchedule == [there |-> FALSE, enabled |-> FALSE, cron |-> CHOOSE c \in Crons : TRUE]

\* queued: not begun; running: todo are the devices left.
Task == [at : {"idle", "queued", "running"}, todo : SUBSET Devices]
NoTask == [at |-> "idle", todo |-> {}]

TypeOK ==
  /\ schedules \in [Ids -> Schedule]
  /\ jobs \in [Ids -> Crons \union {NoJob}]
  /\ tasks \in [Tasks -> Task]
  /\ unloaded \subseteq Ids
  /\ edits \in 0 .. MaxEdits
  /\ \A t \in Tasks : tasks[t].at # "running" => tasks[t].todo = {}

Init ==
  /\ schedules = [i \in Ids |-> NoSchedule]
  /\ jobs = [i \in Ids |-> NoJob]
  /\ tasks = [t \in Tasks |-> NoTask]
  /\ unloaded = {}
  /\ edits = 0

-----------------------------------------------------------------------------
(* Requests *)

Edited == edits < MaxEdits /\ edits' = edits + 1 /\ UNCHANGED tasks

NextId(i) ==
  /\ \A k \in Ids : k >= i => ~schedules[k].there
  /\ i > 1 => schedules[i - 1].there

Saved(enabled, cron) == [there |-> TRUE, enabled |-> enabled, cron |-> cron]

\* The forms refuse what does not parse.
FormCron == Crons \ Unparsed

\* add_schedule
AddSchedule(i, cron) ==
  /\ Edited /\ NextId(i)
  /\ schedules' = [schedules EXCEPT ![i] = Saved(TRUE, cron)]
  /\ jobs' = [jobs EXCEPT ![i] = cron]
  /\ unloaded' = unloaded \ {i}

\* api_create_schedule stores what it is given and registers nothing.
ApiCreate(i, enabled, cron) ==
  /\ Edited /\ NextId(i)
  /\ schedules' = [schedules EXCEPT ![i] = Saved(enabled, cron)]
  /\ unloaded' = IF enabled THEN unloaded \union {i} ELSE unloaded
  /\ UNCHANGED jobs

\* edit_schedule: the job is replaced, or removed.
EditSchedule(i, enabled, cron) ==
  /\ Edited /\ schedules[i].there
  /\ schedules' = [schedules EXCEPT ![i] = Saved(enabled, cron)]
  /\ jobs' = [jobs EXCEPT ![i] = IF enabled THEN cron ELSE NoJob]
  /\ unloaded' = unloaded \ {i}

\* Seeded fault: the job is left to find out by itself that its row is gone.
JobStays(i) == jobs
JobRemoved(i) == [jobs EXCEPT ![i] = NoJob]

\* delete_schedule removes the job first.  Its commit may be refused (another
\* connection holds the database): then the row stays, without its job.
DeleteSchedule(i) ==
  /\ Edited /\ schedules[i].there
  /\ jobs' = JobRemoved(i)
  /\ \/ /\ schedules' = [schedules EXCEPT ![i] = NoSchedule]
        /\ unloaded' = unloaded \ {i}
     \/ /\ unloaded' = IF schedules[i].enabled THEN unloaded \union {i} ELSE unloaded
        /\ UNCHANGED schedules

\* Seeded fault: one expression that does not parse ends the loop.
StopsAtError(i) == \A k \in 1 .. i : schedules[k].enabled => schedules[k].cron \notin Unparsed
Registers(i) == schedules[i].cron \notin Unparsed

\* A restart ends every task; _reload_schedules.
Restart ==
  /\ edits < MaxEdits /\ edits' = edits + 1
  /\ jobs' = [i \in Ids |-> IF schedules[i].there /\ schedules[i].enabled /\ Registers(i)
                              THEN schedules[i].cron ELSE NoJob]
  /\ tasks' = [t \in Tasks |-> NoTask]
  /\ unloaded' = {}
  /\ UNCHANGED schedules

-----------------------------------------------------------------------------
(* Runs *)

Becomes(t, task) ==
  /\ tasks' = [tasks EXCEPT ![t] = task]
  /\ UNCHANGED <<schedules, jobs, unloaded, edits>>

\* Seeded fault: a run that an operator asked for counts as an instance of the job.
FireIfAlone(i) ==
  /\ jobs[i] # NoJob /\ \A k \in Kinds : tasks[<<k, i>>].at = "idle"
  /\ Becomes(<<"fired", i>>, [NoTask EXCEPT !.at = "queued"])

\* The time has come.  At most one instance of a job exists.
Fire(i) ==
  /\ jobs[i] # NoJob /\ tasks[<<"fired", i>>].at = "idle"
  /\ Becomes(<<"fired", i>>, [NoTask EXCEPT !.at = "queued"])

Started == [at |-> "running", todo |-> Devices]

Skipped == NoTask

\* _scheduled_backup_runner begins: by now the row may be gone or disabled.
Begin(i) ==
  /\ tasks[<<"fired", i>>].at = "queued"
  /\ Becomes(<<"fired", i>>,
             IF schedules[i].there /\ schedules[i].enabled THEN Started ELSE Skipped)

\* run_schedule_now: whether enabled or not.
RunNow(i) ==
  /\ schedules[i].there /\ tasks[<<"now", i>>].at = "idle"
  /\ Becomes(<<"now", i>>, Started)

\* One turn of the loop of run_backup_job.
BackupDevice(t, v) ==
  /\ v \in tasks[t].todo
  /\ Becomes(t, [tasks[t] EXCEPT !.todo = @ \ {v}])

EndTask(t) ==
  /\ tasks[t].at = "running" /\ tasks[t].todo = {}
  /\ Becomes(t, NoTask)

-----------------------------------------------------------------------------
(* Specification *)

Progress(t) ==
  \/ t[1] = "fired" /\ Begin(t[2])
  \/ \E v \in Devices : BackupDevice(t, v)
  \/ EndTask(t)

Next ==
  \/ \E i \in Ids :
       \/ \E cron \in FormCron :
            \/ AddSchedule(i, cron)
            \/ \E enabled \in BOOLEAN : EditSchedule(i, enabled, cron)
       \/ \E enabled \in BOOLEAN, cron \in Crons : ApiCreate(i, enabled, cron)
       \/ DeleteSchedule(i) \/ Fire(i) \/ RunNow(i)
  \/ Restart
  \/ \E t \in Tasks : Progress(t)

Spec == Init /\ [][Next]_vars

\* Cron times come again and again; the event loop goes on with every task.
Fairness == /\ \A i \in Ids : WF_vars(Fire(i))
            /\ \A t \in Tasks : WF_vars(Progress(t))
FairSpec == Spec /\ Fairness

-----------------------------------------------------------------------------
(* Properties *)

\* A registered job has an enabled row with the same cron expression, whatever was
\* deleted, created under the same id, refused by the database or restarted.
JobsMatchRows ==
  \A i \in Ids : jobs[i] # NoJob =>
    schedules[i].there /\ schedules[i].enabled /\ schedules[i].cron = jobs[i]

\* An enabled schedule that parses has its job: the exceptions are one created over
\* the API and one whose deletion was refused, until the next edit or restart.
MissedOnly ==
  \A i \in Ids :
    /\ schedules[i].there /\ schedules[i].enabled
    /\ schedules[i].cron \notin Unparsed /\ jobs[i] = NoJob
    => i \in unloaded

\* A registered schedule runs again and again until it is disabled or deleted: no
\* instance that was skipped, and no operator who runs it by hand over and over, keeps
\* the next run from beginning.
RegisteredRuns ==
  \A i \in Ids : jobs[i] # NoJob ~> tasks[<<"fired", i>>].at = "running" \/ jobs[i] = NoJob
=============================================================================
