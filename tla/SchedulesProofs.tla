---------------------------- MODULE SchedulesProofs ----------------------------
(***************************************************************************)
(* The registered jobs agree with the rows, for any number of schedules,   *)
(* requests and restarts.                                                  *)
(*                                                                         *)
(* Both halves of the agreement, JobsMatchRows and MissedOnly, are kept by *)
(* every step once the types are known.  Only the handlers and a restart   *)
(* touch rows or jobs; a step of a run touches neither (RunsKeep).  The    *)
(* delicate step is ApiCreate, which registers nothing: it is JobsMatchRows *)
(* itself that says no job was left under the id it takes (FreeIdHasNoJob). *)
(***************************************************************************)
EXTENDS Schedules, TLAPS

Agree == JobsMatchRows /\ MissedOnly
IInv == TypeOK /\ Agree

-----------------------------------------------------------------------------
(* Types *)

\* The sentinel row and the rows the handlers save are rows.
LEMMA RowTypes ==
  /\ NoSchedule \in Schedule
  /\ \A enabled \in BOOLEAN, cron \in Crons : Saved(enabled, cron) \in Schedule
  /\ FormCron \subseteq Crons
BY CronAssumption DEF NoSchedule, Schedule, Saved, FormCron

\* The same of tasks.
LEMMA TaskTypes ==
  ASSUME TypeOK
  PROVE  /\ NoTask \in Task /\ Skipped \in Task /\ Started \in Task
         /\ [NoTask EXCEPT !.at = "queued"] \in Task
         /\ \A t \in Tasks, v \in Devices : [tasks[t] EXCEPT !.todo = @ \ {v}] \in Task
<1>1. NoTask \in Task /\ Started \in Task /\ [NoTask EXCEPT !.at = "queued"] \in Task
  BY DEF NoTask, Started, Task
<1>2. ASSUME NEW t \in Tasks, NEW v \in Devices
      PROVE  [tasks[t] EXCEPT !.todo = @ \ {v}] \in Task
  <2>1. tasks[t] \in Task
    BY DEF TypeOK
  <2> QED BY <2>1 DEF Task
<1> QED BY <1>1, <1>2 DEF Skipped

\* Only a running task has devices left.
TodoOK(task) == task.at # "running" => task.todo = {}

\* A step that replaces one task by one of these keeps the types of the tasks.
LEMMA BecomesTyped ==
  ASSUME TypeOK, NEW t \in Tasks, NEW task \in Task, TodoOK(task), Becomes(t, task)
  PROVE  TypeOK'
<1>1. tasks' = [tasks EXCEPT ![t] = task] /\ tasks' \in [Tasks -> Task]
  BY DEF TypeOK, Becomes
<1>2. \A u \in Tasks : tasks'[u].at # "running" => tasks'[u].todo = {}
  BY <1>1 DEF TypeOK, TodoOK
<1>3. UNCHANGED <<schedules, jobs, unloaded, edits>>
  BY DEF Becomes
<1> QED BY <1>1, <1>2, <1>3 DEF TypeOK

-----------------------------------------------------------------------------
(* Rows and jobs *)

\* No step of a run changes what Agree is about.
LEMMA RunsKeep ==
  ASSUME Agree, UNCHANGED <<schedules, jobs, unloaded>>
  PROVE  Agree'
BY DEF Agree, JobsMatchRows, MissedOnly

\* An id that the table can give out has no job: the job of a deleted schedule was
\* removed with it.
LEMMA FreeIdHasNoJob ==
  ASSUME Agree, NEW i \in Ids, NextId(i)
  PROVE  ~schedules[i].there /\ jobs[i] = NoJob
<1>1. ~schedules[i].there
  BY DEF NextId, Ids
<1> QED BY <1>1 DEF Agree, JobsMatchRows

\* A handler that touches the row, the job and the observer of one schedule keeps the
\* agreement of the others.
LEMMA OneSchedule ==
  ASSUME IInv, NEW i \in Ids, NEW row \in Schedule, NEW job \in Crons \union {NoJob},
         schedules' = [schedules EXCEPT ![i] = row], jobs' = [jobs EXCEPT ![i] = job],
         \A k \in Ids : k # i => (k \in unloaded' <=> k \in unloaded),
         job # NoJob => row.there /\ row.enabled /\ row.cron = job,
         row.there /\ row.enabled /\ row.cron \notin Unparsed /\ job = NoJob => i \in unloaded'
  PROVE  Agree'
<1>1. /\ \A k \in Ids : k # i => schedules'[k] = schedules[k] /\ jobs'[k] = jobs[k]
      /\ schedules'[i] = row /\ jobs'[i] = job
  BY DEF IInv, TypeOK
<1>2. JobsMatchRows'
  BY <1>1 DEF IInv, Agree, JobsMatchRows
<1>3. MissedOnly'
  BY <1>1 DEF IInv, Agree, MissedOnly
<1> QED BY <1>2, <1>3 DEF Agree

-----------------------------------------------------------------------------
(* The invariant *)

LEMMA InitInv == Init => IInv
<1> SUFFICES ASSUME Init PROVE IInv
  OBVIOUS
<1>1. TypeOK
  <2>1. schedules \in [Ids -> Schedule] /\ jobs \in [Ids -> Crons \union {NoJob}]
    BY RowTypes DEF Init
  <2>2. tasks \in [Tasks -> Task] /\ \A t \in Tasks : tasks[t].todo = {}
    BY DEF Init, NoTask, Task
  <2> QED BY <2>1, <2>2, BoundAssumption DEF Init, TypeOK
<1>2. Agree
  BY DEF Init, NoSchedule, Agree, JobsMatchRows, MissedOnly
<1> QED BY <1>1, <1>2 DEF IInv

LEMMA NextInv == IInv /\ [Next]_vars => IInv'
<1> SUFFICES ASSUME IInv, [Next]_vars PROVE IInv'
  OBVIOUS
<1> USE DEF IInv
<1>Bound. ASSUME edits < MaxEdits, edits' = edits + 1 PROVE edits' \in 0 .. MaxEdits
  BY <1>Bound, BoundAssumption DEF TypeOK
<1>AddSchedule.
  ASSUME NEW i \in Ids, NEW cron \in FormCron, AddSchedule(i, cron)
  PROVE  IInv'
  <2>1. Saved(TRUE, cron) \in Schedule /\ cron \in Crons
    BY RowTypes
  <2>2. TypeOK'
    BY <1>AddSchedule, <1>Bound, <2>1 DEF AddSchedule, Edited, TypeOK
  <2>3. Agree'
    <3>1. cron # NoJob /\ Saved(TRUE, cron).there /\ Saved(TRUE, cron).enabled
          /\ Saved(TRUE, cron).cron = cron
      BY <2>1, CronAssumption DEF Saved
    <3> QED BY <1>AddSchedule, <2>1, <3>1, OneSchedule DEF AddSchedule
  <2> QED BY <2>2, <2>3
<1>ApiCreate.
  ASSUME NEW i \in Ids, NEW enabled \in BOOLEAN, NEW cron \in Crons,
         ApiCreate(i, enabled, cron)
  PROVE  IInv'
  <2> DEFINE row == Saved(enabled, cron)
  <2>1. row \in Schedule
    BY RowTypes
  <2>2. TypeOK'
    BY <1>ApiCreate, <1>Bound, <2>1 DEF ApiCreate, Edited, TypeOK
  <2>3. jobs[i] = NoJob
    BY <1>ApiCreate, FreeIdHasNoJob DEF ApiCreate
  <2>4. jobs' = [jobs EXCEPT ![i] = NoJob]
    BY <1>ApiCreate, <2>3 DEF ApiCreate, TypeOK
  <2>5. row.enabled = enabled
    BY DEF Saved
  <2> HIDE DEF row
  <2>6. Agree'
    BY <1>ApiCreate, <2>1, <2>4, <2>5, OneSchedule DEF ApiCreate, row
  <2> QED BY <2>2, <2>6
<1>EditSchedule.
  ASSUME NEW i \in Ids, NEW enabled \in BOOLEAN, NEW cron \in FormCron,
         EditSchedule(i, enabled, cron)
  PROVE  IInv'
  <2> DEFINE row == Saved(enabled, cron)
  <2> DEFINE job == IF enabled THEN cron ELSE NoJob
  <2>1. row \in Schedule /\ job \in Crons \union {NoJob}
    BY RowTypes
  <2>2. TypeOK'
    BY <1>EditSchedule, <1>Bound, <2>1 DEF EditSchedule, Edited, TypeOK
  <2>3. /\ job # NoJob => row.there /\ row.enabled /\ row.cron = job
        /\ job = NoJob => ~row.enabled
    BY RowTypes, CronAssumption DEF Saved
  <2>4. schedules' = [schedules EXCEPT ![i] = row] /\ jobs' = [jobs EXCEPT ![i] = job]
        /\ unloaded' = unloaded \ {i}
    BY <1>EditSchedule DEF EditSchedule
  <2> HIDE DEF row, job
  <2>5. Agree'
    BY <2>1, <2>3, <2>4, OneSchedule
  <2> QED BY <2>2, <2>5
<1>DeleteSchedule.
  ASSUME NEW i \in Ids, DeleteSchedule(i)
  PROVE  IInv'
  <2>1. jobs' = [jobs EXCEPT ![i] = NoJob]
    BY <1>DeleteSchedule DEF DeleteSchedule, JobRemoved
  <2>2. CASE schedules' = [schedules EXCEPT ![i] = NoSchedule] /\ unloaded' = unloaded \ {i}
    <3>1. TypeOK'
      BY <1>DeleteSchedule, <1>Bound, <2>1, <2>2, RowTypes
      DEF DeleteSchedule, Edited, TypeOK
    <3>2. ~NoSchedule.there
      BY DEF NoSchedule
    <3> QED BY <2>1, <2>2, <3>1, <3>2, RowTypes, OneSchedule
  <2>3. CASE /\ unloaded' = IF schedules[i].enabled THEN unloaded \union {i} ELSE unloaded
             /\ UNCHANGED schedules
    <3>1. TypeOK'
      BY <1>DeleteSchedule, <1>Bound, <2>1, <2>3 DEF DeleteSchedule, Edited, TypeOK
    <3>2. schedules[i] \in Schedule /\ schedules' = [schedules EXCEPT ![i] = schedules[i]]
      BY <2>3 DEF TypeOK
    <3> QED BY <2>1, <2>3, <3>1, <3>2, OneSchedule
  <2> QED BY <1>DeleteSchedule, <2>2, <2>3 DEF DeleteSchedule
<1>Restart. ASSUME Restart PROVE IInv'
  <2>1. TypeOK'
    BY <1>Restart, <1>Bound DEF Restart, TypeOK, NoTask, Task, Schedule
  <2>2. Agree'
    BY <1>Restart, CronAssumption DEF Restart, Registers, Agree, JobsMatchRows, MissedOnly, TypeOK, Schedule
  <2> QED BY <2>1, <2>2
<1>Fire. ASSUME NEW i \in Ids, Fire(i) PROVE IInv'
  <2>1. TodoOK([NoTask EXCEPT !.at = "queued"]) /\ <<"fired", i>> \in Tasks
    BY DEF TodoOK, NoTask, Tasks, Kinds
  <2>2. Becomes(<<"fired", i>>, [NoTask EXCEPT !.at = "queued"])
    BY <1>Fire DEF Fire
  <2> QED BY <2>1, <2>2, TaskTypes, BecomesTyped, RunsKeep DEF Becomes
<1>Begin. ASSUME NEW i \in Ids, Begin(i) PROVE IInv'
  <2> DEFINE task == IF schedules[i].there /\ schedules[i].enabled THEN Started ELSE Skipped
  <2>1. TodoOK(task) /\ <<"fired", i>> \in Tasks
    BY DEF TodoOK, Started, Skipped, NoTask, Tasks, Kinds
  <2>2. Becomes(<<"fired", i>>, task) /\ task \in Task
    BY <1>Begin, TaskTypes DEF Begin
  <2> QED BY <2>1, <2>2, BecomesTyped, RunsKeep DEF Becomes
<1>RunNow. ASSUME NEW i \in Ids, RunNow(i) PROVE IInv'
  <2>1. TodoOK(Started) /\ <<"now", i>> \in Tasks
    BY DEF TodoOK, Started, Tasks, Kinds
  <2>2. Becomes(<<"now", i>>, Started) /\ Started \in Task
    BY <1>RunNow, TaskTypes DEF RunNow
  <2> QED BY <2>1, <2>2, BecomesTyped, RunsKeep DEF Becomes
<1>BackupDevice. ASSUME NEW t \in Tasks, NEW v \in Devices, BackupDevice(t, v) PROVE IInv'
  <2> DEFINE task == [tasks[t] EXCEPT !.todo = @ \ {v}]
  <2>1. tasks[t] \in Task /\ task \in Task
    BY TaskTypes DEF TypeOK
  <2>2. TodoOK(task)
    BY <2>1, <1>BackupDevice DEF TodoOK, TypeOK, Task, BackupDevice
  <2>3. Becomes(t, task)
    BY <1>BackupDevice DEF BackupDevice
  <2> QED BY <2>1, <2>2, <2>3, BecomesTyped, RunsKeep DEF Becomes
<1>EndTask. ASSUME NEW t \in Tasks, EndTask(t) PROVE IInv'
  <2>1. TodoOK(NoTask) /\ NoTask \in Task
    BY TaskTypes DEF TodoOK, NoTask
  <2> QED BY <1>EndTask, <2>1, BecomesTyped, RunsKeep DEF EndTask, Becomes
<1>Stutter. CASE UNCHANGED vars
  <2>1. TypeOK'
    BY <1>Stutter DEF vars, TypeOK
  <2> QED BY <1>Stutter, <2>1, RunsKeep DEF vars
<1>Progress. ASSUME NEW t \in Tasks, Progress(t) PROVE IInv'
  <2>1. t[1] = "fired" => t[2] \in Ids
    BY DEF Tasks
  <2> QED BY <1>Progress, <1>Begin, <1>BackupDevice, <1>EndTask, <2>1 DEF Progress
<1> QED
  BY <1>AddSchedule, <1>ApiCreate, <1>EditSchedule, <1>DeleteSchedule, <1>Restart,
     <1>Fire, <1>RunNow, <1>Progress, <1>Stutter DEF Next

-----------------------------------------------------------------------------
(* Theorems *)

\* The types, for any number of schedules and devices: a task that has
\* not begun or has ended holds no devices.
THEOREM TypeCorrect == Spec => []TypeOK
<1>1. IInv => TypeOK
  BY DEF IInv
<1> QED BY <1>1, InitInv, NextInv, PTL DEF Spec

\* What APScheduler has registered is what the enabled rows say, whatever ids are used
\* again, deletions refused, and expressions unparsed at a restart.
THEOREM JobsAgree == Spec => []JobsMatchRows
<1>1. IInv => JobsMatchRows
  BY DEF IInv, Agree
<1> QED BY <1>1, InitInv, NextInv, PTL DEF Spec

\* Enabled schedules without a job are only those created over the API, or whose deletion
\* was refused, since the last restart.
THEOREM OnlyMissed == Spec => []MissedOnly
<1>1. IInv => MissedOnly
  BY DEF IInv, Agree
<1> QED BY <1>1, InitInv, NextInv, PTL DEF Spec
=============================================================================
