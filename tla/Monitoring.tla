------------------------------ MODULE Monitoring ------------------------------
(***************************************************************************)
(* Drift detection: app/modules/scheduler/loader.py groups the critical    *)
(* devices by interval and registers one APScheduler job per interval,     *)
(* app/modules/config_monitor.py polls the devices of a job and starts a   *)
(* backup when the configuration differs from the last successful one.     *)
(*                                                                         *)
(* The lists live in the scheduler: a change of a device row reaches them  *)
(* only when a handler of app/routers/devices.py (or a restart) loads them *)
(* anew.  All jobs of one load use the Session that was passed to it, and  *)
(* nobody rolls it back: a failed commit leaves it unusable for all.       *)
(***************************************************************************)
EXTENDS Naturals

CONSTANTS
  MaxId,          \* bound: Device ids
  Intervals,      \* monitoring intervals
  MaxChanges,     \* bound: configuration changes on the devices
  MaxEdits,       \* bound: changes of device rows, and restarts
  MaxCollisions   \* bound: rows of running monitoring backups deleted

Ids == 1 .. MaxId
Versions == 0 .. MaxChanges
Loads == 0 .. MaxEdits

ASSUME BoundAssumption ==
  MaxId \in Nat /\ MaxChanges \in Nat /\ MaxEdits \in Nat /\ MaxCollisions \in Nat
ASSUME IntervalAssumption == Intervals # {}

VARIABLES
  devices,     \* the devices table
  config,      \* the configuration on each device
  jobs,        \* the monitoring jobs APScheduler holds, one per interval
  runs,        \* the instance of each job, at most one (max_instances)
  broken,      \* sessions a failed commit has left unusable
  loads,       \* load_monitoring_jobs calls so far; each came with its session
  reenabled,   \* observer: devices enabled again since the last load
  changes, edits, collisions

database == <<devices, config>>
bounds == <<changes, edits, collisions>>
vars == <<database, jobs, runs, broken, loads, reenabled, bounds>>

-----------------------------------------------------------------------------
(* Devices, jobs and instances *)

\* known: the version in the last successful backup, if there is one.
Device == [there : BOOLEAN, enabled : BOOLEAN, critical : BOOLEAN,
           interval : Intervals, backed : BOOLEAN, known : Versions]
NoDevice == [there |-> FALSE, enabled |-> FALSE, critical |-> FALSE,
             interval |-> CHOOSE k \in Intervals : TRUE, backed |-> FALSE, known |-> 0]

\* listed: device_ids; session: the Session in the kwargs of the job.
Job == [listed : SUBSET Ids, session : Loads]
\* todo: devices still to poll; cur: the one being polled; lost: the row of its
\* backup has been deleted.
Run == [at : {"idle", "next", "fetch", "backup"}, todo : SUBSET Ids,
        cur : Ids \union {0}, session : Loads, lost : BOOLEAN]
NoRun == [at |-> "idle", todo |-> {}, cur |-> 0, session |-> 0, lost |-> FALSE]

TypeOK ==
  /\ devices \in [Ids -> Device]
  /\ config \in [Ids -> Versions]
  /\ jobs \in [Intervals -> Job]
  /\ runs \in [Intervals -> Run]
  /\ broken \subseteq Loads /\ loads \in Loads
  /\ reenabled \subseteq Ids
  /\ changes \in Versions /\ edits \in 0 .. MaxEdits /\ collisions \in 0 .. MaxCollisions
  /\ \A k \in Intervals : runs[k].at \in {"fetch", "backup"} => runs[k].cur \in Ids

Init ==
  /\ devices = [i \in Ids |-> NoDevice]
  /\ config = [i \in Ids |-> 0]
  /\ jobs = [k \in Intervals |-> [listed |-> {}, session |-> 0]]
  /\ runs = [k \in Intervals |-> NoRun]
  /\ broken = {} /\ loads = 0 /\ reenabled = {}
  /\ changes = 0 /\ edits = 0 /\ collisions = 0

-----------------------------------------------------------------------------
(* Loading the jobs *)

Wanted(ds, k) ==
  {i \in Ids : ds[i].there /\ ds[i].critical /\ ds[i].enabled /\ ds[i].interval = k}

\* load_monitoring_jobs on the rows ds: every monitoring job is removed, then one
\* is added for each interval that some device wants.
Reload(ds) ==
  /\ jobs' = [k \in Intervals |-> [listed |-> Wanted(ds, k), session |-> loads + 1]]
  /\ loads' = loads + 1
  /\ reenabled' = {}
KeepJobs(marked) ==
  /\ reenabled' = marked
  /\ UNCHANGED <<jobs, loads>>

Edited == edits < MaxEdits /\ edits' = edits + 1 /\ UNCHANGED <<changes, collisions>>

Restart ==
  /\ Edited
  /\ Reload(devices)
  /\ runs' = [k \in Intervals |-> NoRun]
  /\ UNCHANGED <<database, broken>>

-----------------------------------------------------------------------------
(* Handlers of device rows *)

NextId(i) ==
  /\ \A k \in Ids : k >= i => ~devices[k].there
  /\ i > 1 => devices[i - 1].there

\* add_device: a critical device reloads the jobs.
AddDevice(i, critical, k) ==
  /\ Edited /\ NextId(i)
  /\ devices' = [devices EXCEPT ![i] = [NoDevice EXCEPT !.there = TRUE, !.enabled = TRUE,
                                          !.critical = critical, !.interval = k]]
  /\ IF critical THEN Reload(devices') ELSE KeepJobs(reenabled)
  /\ UNCHANGED <<config, runs, broken>>

\* Seeded fault: a new interval alone does not count.
CriticalChanged(old, new) ==
  old.critical # new.critical \/ (new.critical /\ ~new.enabled)
\* The condition of edit_device.
NeedsReload(old, new) ==
  \/ old.critical # new.critical
  \/ old.interval # new.interval
  \/ new.critical /\ ~new.enabled

\* A critical device comes back although the lists are not loaded.
Reappears(i, new) == ~devices[i].enabled /\ new.enabled /\ new.critical

EditDevice(i, enabled, critical, k) ==
  /\ Edited /\ devices[i].there
  /\ LET new == [devices[i] EXCEPT !.enabled = enabled, !.critical = critical, !.interval = k]
     IN /\ devices' = [devices EXCEPT ![i] = new]
        /\ IF NeedsReload(devices[i], new)
             THEN Reload(devices')
             ELSE KeepJobs(IF Reappears(i, new) THEN reenabled \union {i} ELSE reenabled)
  /\ UNCHANGED <<config, runs, broken>>

\* api_update_device may set enabled; it never loads the jobs.
ApiUpdate(i, enabled) ==
  /\ Edited /\ devices[i].there
  /\ LET new == [devices[i] EXCEPT !.enabled = enabled]
     IN /\ devices' = [devices EXCEPT ![i] = new]
        /\ KeepJobs(IF Reappears(i, new) THEN reenabled \union {i} ELSE reenabled)
  /\ UNCHANGED <<config, runs, broken>>

\* delete_device takes the backups with it, also one a monitoring run is writing.
Polled(i) == {k \in Intervals : runs[k].at = "backup" /\ runs[k].cur = i}
Bereft(K) == [k \in Intervals |-> IF k \in K THEN [runs[k] EXCEPT !.lost = TRUE] ELSE runs[k]]
DeleteDevice(i) ==
  /\ edits < MaxEdits /\ edits' = edits + 1
  /\ devices[i].there
  /\ Polled(i) # {} => collisions < MaxCollisions
  /\ collisions' = IF Polled(i) # {} THEN collisions + 1 ELSE collisions
  /\ devices' = [devices EXCEPT ![i] = NoDevice]
  /\ runs' = Bereft(Polled(i))
  /\ KeepJobs(reenabled \ {i})
  /\ UNCHANGED <<config, broken, changes>>

\* delete_backup of the row a monitoring run is writing.
DeleteRunningRow(k) ==
  /\ runs[k].at = "backup" /\ ~runs[k].lost /\ collisions < MaxCollisions
  /\ collisions' = collisions + 1
  /\ runs' = Bereft({k})
  /\ UNCHANGED <<database, jobs, broken, loads, reenabled, changes, edits>>

-----------------------------------------------------------------------------
(* The network: configurations change, other backups are made *)

\* One change touches some devices, or all of them.
ConfigChanges(I) ==
  /\ changes < MaxChanges /\ I # {}
  /\ changes' = changes + 1
  /\ config' = [i \in Ids |-> IF i \in I THEN changes + 1 ELSE config[i]]
  /\ UNCHANGED <<devices, jobs, runs, broken, loads, reenabled, edits, collisions>>

Captured(i) == [devices EXCEPT ![i].backed = TRUE, ![i].known = config[i]]

\* A scheduled or manual backup of an enabled device succeeds.
OtherBackup(i) ==
  /\ devices[i].there /\ devices[i].enabled
  /\ devices' = Captured(i)
  /\ UNCHANGED <<config, jobs, runs, broken, loads, reenabled, bounds>>

-----------------------------------------------------------------------------
(* run_monitoring_job *)

Becomes(k, run) ==
  /\ runs' = [runs EXCEPT ![k] = run]
  /\ UNCHANGED <<jobs, loads, reenabled, bounds, config>>

\* The interval has passed and no instance of the job is still running.
Fire(k) ==
  /\ jobs[k].listed # {} /\ runs[k].at = "idle"
  /\ Becomes(k, [NoRun EXCEPT !.at = "next", !.todo = jobs[k].listed,
                              !.session = jobs[k].session])
  /\ UNCHANGED <<devices, broken>>

Usable(k) == runs[k].session \notin broken
OnTo(k) == [runs[k] EXCEPT !.at = "next", !.cur = 0, !.lost = FALSE]

\* db.get of the next device.  An unusable session raises out of the job; a device
\* that is gone or disabled is passed over.
NextDevice(k) ==
  /\ runs[k].at = "next"
  /\ \E i \in runs[k].todo :
       LET rest == [runs[k] EXCEPT !.todo = @ \ {i}]
       IN Becomes(k, IF ~Usable(k) THEN NoRun
                     ELSE IF devices[i].there /\ devices[i].enabled
                       THEN [rest EXCEPT !.at = "fetch", !.cur = i]
                     ELSE rest)
  /\ UNCHANGED <<devices, broken>>

EndRun(k) ==
  /\ runs[k].at = "next" /\ runs[k].todo = {}
  /\ Becomes(k, NoRun)
  /\ UNCHANGED <<devices, broken>>

\* All attempts to fetch failed.
FetchFails(k) ==
  /\ runs[k].at = "fetch"
  /\ Becomes(k, OnTo(k))
  /\ UNCHANGED <<devices, broken>>

Drifted(d, v) == d.backed /\ v # d.known

\* fetch_config returned: without a successful backup to compare with, nothing has
\* changed.  The comparison and the start of the backup are one step.
FetchReturns(k) ==
  /\ runs[k].at = "fetch"
  /\ LET i == runs[k].cur
     IN Becomes(k, IF Usable(k) /\ Drifted(devices[i], config[i])
                     THEN [runs[k] EXCEPT !.at = "backup"] ELSE OnTo(k))
  /\ UNCHANGED <<devices, broken>>

\* Seeded fault: the latest backup counts whatever its status, and a failed one has
\* no hash to compare with.
FailureIsLatest(k) ==
  /\ runs[k].at = "backup" /\ ~runs[k].lost /\ Usable(k)
  /\ Becomes(k, OnTo(k))
  /\ devices' = [devices EXCEPT ![runs[k].cur].backed = FALSE]
  /\ UNCHANGED broken

\* run_backup_for_device fails in a way it handles itself: the row says failed.
BackupFails(k) ==
  /\ runs[k].at = "backup" /\ ~runs[k].lost /\ Usable(k)
  /\ Becomes(k, OnTo(k))
  /\ UNCHANGED <<devices, broken>>

BackupSucceeds(k) ==
  /\ runs[k].at = "backup" /\ ~runs[k].lost /\ Usable(k)
  /\ Becomes(k, OnTo(k))
  /\ devices' = Captured(runs[k].cur)
  /\ UNCHANGED broken

\* The row is gone and its UPDATE fails.  The handler does not roll back, and its
\* log line reads the device with the unusable session: the job ends.
CommitFails(k) ==
  /\ runs[k].at = "backup" /\ runs[k].lost /\ Usable(k)
  /\ Becomes(k, NoRun)
  /\ broken' = broken \union {runs[k].session}
  /\ UNCHANGED devices

\* The row is gone and a failure record that names it is refused, which rolls back:
\* only this backup raises, and the log line if the device is gone too.
RecordRefused(k) ==
  /\ runs[k].at = "backup" /\ runs[k].lost /\ Usable(k)
  /\ Becomes(k, IF devices[runs[k].cur].there THEN OnTo(k) ELSE NoRun)
  /\ UNCHANGED <<devices, broken>>

\* Another job of the same load has made the session unusable.
SessionLost(k) ==
  /\ runs[k].at = "backup" /\ ~Usable(k)
  /\ Becomes(k, NoRun)
  /\ UNCHANGED <<devices, broken>>

-----------------------------------------------------------------------------
(* Specification *)

Progress(k) ==
  \/ NextDevice(k) \/ EndRun(k) \/ FetchFails(k) \/ FetchReturns(k)
  \/ BackupFails(k) \/ BackupSucceeds(k)
  \/ CommitFails(k) \/ RecordRefused(k) \/ SessionLost(k)

Next ==
  \/ Restart
  \/ \E i \in Ids :
       \/ \E critical \in BOOLEAN, k \in Intervals :
            \/ AddDevice(i, critical, k)
            \/ \E enabled \in BOOLEAN : EditDevice(i, enabled, critical, k)
       \/ \E enabled \in BOOLEAN : ApiUpdate(i, enabled)
       \/ DeleteDevice(i) \/ OtherBackup(i)
  \/ \E I \in SUBSET Ids : ConfigChanges(I)
  \/ \E k \in Intervals : DeleteRunningRow(k) \/ Fire(k) \/ Progress(k)

Spec == Init /\ [][Next]_vars

\* Jobs fire again and again and their coroutines go on; a device that is asked
\* again and again answers at last, and a backup tried again and again succeeds.
Fairness ==
  \A k \in Intervals :
    /\ WF_vars(Fire(k)) /\ WF_vars(Progress(k))
    /\ SF_vars(BackupSucceeds(k))
    /\ \A i \in Ids : SF_vars(runs[k].cur = i /\ FetchReturns(k))
FairSpec == Spec /\ Fairness

-----------------------------------------------------------------------------
(* Properties *)

\* Every critical device that is enabled is on the list of its own interval and on
\* no other, whatever was added, edited, deleted or renumbered: the one exception
\* is a device that was enabled again, which no handler takes note of.
ListsMatchRows ==
  \A i \in Ids, k \in Intervals :
    /\ i \in Wanted(devices, k) => i \in jobs[k].listed \/ i \in reenabled
    /\ i \in jobs[k].listed /\ devices[i].there /\ devices[i].critical =>
         devices[i].interval = k

\* The job that polls it has a session that works.
Served(i) == \E k \in Intervals :
  i \in Wanted(devices, k) /\ i \in jobs[k].listed /\ jobs[k].session \notin broken

\* A change on a device with a backup to compare with is captured while its job has a
\* session that works: a load after a failed commit makes up for it, and what goes wrong
\* with one device does not keep another from being polled.
SoundSessionsCapture ==
  \A i \in Ids : Served(i) /\ Drifted(devices[i], config[i])
                   ~> devices[i].known = config[i] \/ ~Served(i)
=============================================================================
