--------------------------- MODULE MonitoringProofs ---------------------------
(***************************************************************************)
(* The lists of the monitoring jobs agree with the device rows, for any    *)
(* number of devices, intervals, edits and restarts.                       *)
(*                                                                         *)
(* Lists and rows are changed by the handlers only (RunsKeep), and each    *)
(* handler either loads all lists anew, which makes them right whatever    *)
(* they were (ReloadAgrees), or touches one device so that its own entry   *)
(* stays right (KeptAgrees).  A deleted device may leave its id in a list; *)
(* the device that gets the id later is not critical, or it comes with a   *)
(* load.                                                                   *)
(***************************************************************************)
EXTENDS Monitoring, TLAPS

\* Each load is the doing of an edit or a restart, which the model counts.
IInv == TypeOK /\ loads <= edits /\ ListsMatchRows

-----------------------------------------------------------------------------
(* Types *)

LEMMA SentinelTypes ==
  NoDevice \in Device /\ NoRun \in Run
BY BoundAssumption, IntervalAssumption DEF NoDevice, Device, NoRun, Run, Versions, Loads

LEMMA CapturedTypes ==
  ASSUME TypeOK, NEW i \in Ids
  PROVE  Captured(i) \in [Ids -> Device]
<1>1. devices[i] \in Device /\ config[i] \in Versions
  BY DEF TypeOK
<1> QED BY <1>1 DEF Captured, TypeOK, Device

LEMMA ReloadTypes ==
  ASSUME TypeOK, loads <= edits, edits < MaxEdits, NEW ds \in [Ids -> Device], Reload(ds)
  PROVE  /\ jobs' \in [Intervals -> Job] /\ loads' \in Loads /\ reenabled' \subseteq Ids
         /\ loads' <= edits + 1
BY BoundAssumption DEF Reload, Job, Wanted, TypeOK, Loads

-----------------------------------------------------------------------------
(* Lists and rows *)

\* A load makes the lists right, whatever they were.
LEMMA ReloadAgrees ==
  ASSUME NEW ds \in [Ids -> Device], Reload(ds), devices' = ds
  PROVE  ListsMatchRows'
<1>1. ASSUME NEW i \in Ids, NEW k \in Intervals
      PROVE  i \in jobs'[k].listed <=> i \in Wanted(ds, k)
  BY DEF Reload
<1> QED BY <1>1 DEF ListsMatchRows, Wanted

\* Without a load: one row may change, if its own entry stays right.
LEMMA KeptAgrees ==
  ASSUME IInv, NEW i \in Ids, NEW row \in Device, NEW marked, KeepJobs(marked),
         devices' = [devices EXCEPT ![i] = row],
         \A j \in Ids : j # i /\ j \in reenabled => j \in marked,
         row.there /\ row.critical /\ row.enabled =>
           \/ i \in marked
           \/ /\ devices[i].there /\ devices[i].critical /\ devices[i].enabled
              /\ devices[i].interval = row.interval
              /\ i \in reenabled => i \in marked,
         row.there /\ row.critical =>
           /\ devices[i].there /\ devices[i].critical
           /\ devices[i].interval = row.interval
  PROVE  ListsMatchRows'
<1>1. jobs' = jobs /\ reenabled' = marked
  BY DEF KeepJobs
<1>2. /\ \A j \in Ids : j # i => devices'[j] = devices[j]
      /\ devices'[i] = row
  BY DEF IInv, TypeOK
<1>3. ASSUME NEW j \in Ids, NEW k \in Intervals
      PROVE  /\ j \in Wanted(devices', k) => j \in jobs'[k].listed \/ j \in reenabled'
             /\ j \in jobs'[k].listed /\ devices'[j].there /\ devices'[j].critical =>
                  devices'[j].interval = k
  <2>1. /\ j \in Wanted(devices, k) => j \in jobs[k].listed \/ j \in reenabled
        /\ j \in jobs[k].listed /\ devices[j].there /\ devices[j].critical =>
             devices[j].interval = k
    BY DEF IInv, ListsMatchRows
  <2>2. CASE j # i
    BY <1>1, <1>2, <2>1, <2>2 DEF Wanted
  <2>3. CASE j = i
    BY <1>1, <1>2, <2>1, <2>3 DEF Wanted
  <2> QED BY <2>2, <2>3
<1> QED BY <1>3 DEF ListsMatchRows

\* What was captured is not what the lists depend on.
LEMMA CapturedAgrees ==
  ASSUME IInv, NEW i \in Ids, devices' = Captured(i), UNCHANGED <<jobs, reenabled>>
  PROVE  ListsMatchRows'
<1>1. \A j \in Ids : /\ devices'[j].there = devices[j].there
                     /\ devices'[j].enabled = devices[j].enabled
                     /\ devices'[j].critical = devices[j].critical
                     /\ devices'[j].interval = devices[j].interval
  BY DEF Captured, IInv, TypeOK, Device
<1>2. \A k \in Intervals : Wanted(devices', k) = Wanted(devices, k)
  BY <1>1 DEF Wanted
<1> QED BY <1>1, <1>2 DEF IInv, ListsMatchRows

LEMMA RunsKeep ==
  ASSUME IInv, UNCHANGED <<devices, jobs, reenabled>>
  PROVE  ListsMatchRows'
BY DEF IInv, ListsMatchRows, Wanted

\* Becomes changes the runs alone; the rows may have been captured.
RunOK(run) == run \in Run /\ (run.at \in {"fetch", "backup"} => run.cur \in Ids)

LEMMA BecomesInv ==
  ASSUME IInv, NEW k \in Intervals, NEW run, RunOK(run), Becomes(k, run),
         \/ UNCHANGED devices
         \/ \E i \in Ids : devices' = Captured(i),
         broken' \subseteq Loads
  PROVE  IInv'
<1>1. devices' \in [Ids -> Device]
  BY CapturedTypes DEF IInv, TypeOK
<1>2. /\ runs' \in [Intervals -> Run]
      /\ \A q \in Intervals : runs'[q].at \in {"fetch", "backup"} => runs'[q].cur \in Ids
  BY DEF Becomes, RunOK, IInv, TypeOK
<1>3. TypeOK'
  BY <1>1, <1>2 DEF Becomes, bounds, IInv, TypeOK
<1>4. ListsMatchRows'
  BY CapturedAgrees, RunsKeep DEF Becomes
<1> QED BY <1>3, <1>4 DEF IInv, Becomes, bounds

-----------------------------------------------------------------------------
(* The invariant *)

LEMMA InitInv == Init => IInv
<1> SUFFICES ASSUME Init PROVE IInv
  OBVIOUS
<1>1. TypeOK
  BY SentinelTypes, BoundAssumption DEF Init, TypeOK, Job, NoRun, Versions, Loads
<1>2. ListsMatchRows
  BY DEF Init, ListsMatchRows, Wanted, NoDevice
<1> QED BY <1>1, <1>2, BoundAssumption DEF Init, IInv

LEMMA NextInv == IInv /\ [Next]_vars => IInv'
<1> SUFFICES ASSUME IInv, [Next]_vars PROVE IInv'
  OBVIOUS
<1> USE DEF IInv
<1>Edited.
  ASSUME edits < MaxEdits, edits' = edits + 1
  PROVE  edits' \in 0 .. MaxEdits /\ loads <= edits'
  BY <1>Edited, BoundAssumption DEF TypeOK, Loads
<1>Restart. ASSUME Restart PROVE IInv'
  <2>1. Reload(devices) /\ edits < MaxEdits /\ edits' = edits + 1 /\ devices' = devices
    BY <1>Restart DEF Restart, Edited, database
  <2>2. TypeOK' /\ loads' <= edits'
    BY <1>Restart, <1>Edited, <2>1, ReloadTypes, SentinelTypes
    DEF Restart, Edited, database, TypeOK, NoRun
  <2>3. ListsMatchRows'
    BY <2>1, ReloadAgrees DEF TypeOK
  <2> QED BY <2>2, <2>3
<1>AddDevice.
  ASSUME NEW i \in Ids, NEW critical \in BOOLEAN, NEW k \in Intervals, AddDevice(i, critical, k)
  PROVE  IInv'
  <2> DEFINE row == [NoDevice EXCEPT !.there = TRUE, !.enabled = TRUE,
                                     !.critical = critical, !.interval = k]
  <2>1. row \in Device /\ row.critical = critical
    BY SentinelTypes DEF NoDevice, Device
  <2>2. devices' = [devices EXCEPT ![i] = row] /\ devices' \in [Ids -> Device]
    BY <1>AddDevice, <2>1 DEF AddDevice, TypeOK
  <2>3. edits < MaxEdits /\ edits' = edits + 1
    BY <1>AddDevice DEF AddDevice, Edited
  <2>4. CASE critical
    <3>1. Reload(devices')
      BY <1>AddDevice, <2>4 DEF AddDevice
    <3>2. TypeOK' /\ loads' <= edits'
      BY <1>AddDevice, <1>Edited, <2>2, <2>3, <3>1, ReloadTypes DEF AddDevice, Edited, TypeOK
    <3> QED BY <2>2, <3>1, <3>2, ReloadAgrees
  <2>5. CASE ~critical
    <3>1. KeepJobs(reenabled)
      BY <1>AddDevice, <2>5 DEF AddDevice
    <3>2. TypeOK' /\ loads' <= edits'
      BY <1>AddDevice, <1>Edited, <2>2, <2>3, <3>1 DEF AddDevice, Edited, TypeOK, KeepJobs
    <3>3. ListsMatchRows'
      BY <2>1, <2>2, <2>5, <3>1, KeptAgrees
    <3> QED BY <3>2, <3>3
  <2> QED BY <2>4, <2>5
<1>EditDevice.
  ASSUME NEW i \in Ids, NEW enabled \in BOOLEAN, NEW critical \in BOOLEAN, NEW k \in Intervals,
         EditDevice(i, enabled, critical, k)
  PROVE  IInv'
  <2> DEFINE row == [devices[i] EXCEPT !.enabled = enabled, !.critical = critical, !.interval = k]
  <2> DEFINE marked == IF Reappears(i, row) THEN reenabled \union {i} ELSE reenabled
  <2>1. devices[i] \in Device /\ row \in Device /\ row.there = devices[i].there
        /\ row.enabled = enabled /\ row.critical = critical /\ row.interval = k
    BY DEF TypeOK, Device
  <2>2. devices' = [devices EXCEPT ![i] = row] /\ devices' \in [Ids -> Device]
    BY <1>EditDevice, <2>1 DEF EditDevice, TypeOK
  <2>3. edits < MaxEdits /\ edits' = edits + 1 /\ devices[i].there
    BY <1>EditDevice DEF EditDevice, Edited
  <2>4. CASE NeedsReload(devices[i], row)
    <3>1. Reload(devices')
      BY <1>EditDevice, <2>4 DEF EditDevice
    <3>2. TypeOK' /\ loads' <= edits'
      BY <1>EditDevice, <1>Edited, <2>2, <2>3, <3>1, ReloadTypes DEF EditDevice, Edited, TypeOK
    <3> QED BY <2>2, <3>1, <3>2, ReloadAgrees
  <2>5. CASE ~NeedsReload(devices[i], row)
    <3>1. KeepJobs(marked)
      BY <1>EditDevice, <2>5 DEF EditDevice
    <3>2. TypeOK' /\ loads' <= edits'
      BY <1>EditDevice, <1>Edited, <2>2, <2>3, <3>1 DEF EditDevice, Edited, TypeOK, KeepJobs
    <3>3. /\ devices[i].critical = row.critical
          /\ devices[i].interval = row.interval
          /\ row.enabled /\ row.critical /\ ~devices[i].enabled => i \in marked
          /\ \A j \in reenabled : j \in marked
      BY <2>1, <2>5 DEF NeedsReload, Reappears, Device
    <3>4. ListsMatchRows'
      <4> HIDE DEF row, marked
      <4> QED BY <2>1, <2>2, <2>3, <3>1, <3>3, KeptAgrees DEF Device
    <3> QED BY <3>2, <3>4
  <2> QED BY <2>4, <2>5
<1>ApiUpdate. ASSUME NEW i \in Ids, NEW enabled \in BOOLEAN, ApiUpdate(i, enabled) PROVE IInv'
  <2> DEFINE row == [devices[i] EXCEPT !.enabled = enabled]
  <2> DEFINE marked == IF Reappears(i, row) THEN reenabled \union {i} ELSE reenabled
  <2>1. devices[i] \in Device /\ row \in Device /\ row.there = devices[i].there
        /\ row.critical = devices[i].critical /\ row.interval = devices[i].interval
    BY DEF TypeOK, Device
  <2>2. devices' = [devices EXCEPT ![i] = row] /\ devices' \in [Ids -> Device]
    BY <1>ApiUpdate, <2>1 DEF ApiUpdate, TypeOK
  <2>3. /\ edits < MaxEdits /\ edits' = edits + 1 /\ devices[i].there
        /\ KeepJobs(marked)
    BY <1>ApiUpdate DEF ApiUpdate, Edited
  <2>4. TypeOK' /\ loads' <= edits'
    BY <1>ApiUpdate, <1>Edited, <2>2, <2>3 DEF ApiUpdate, Edited, TypeOK, KeepJobs
  <2>5. /\ row.enabled /\ row.critical /\ ~devices[i].enabled => i \in marked
        /\ \A j \in reenabled : j \in marked
    BY <2>1 DEF Reappears, Device
  <2>6. ListsMatchRows'
    <3> HIDE DEF row, marked
    <3> QED BY <2>1, <2>2, <2>3, <2>5, KeptAgrees DEF Device
  <2> QED BY <2>4, <2>6
<1>Run. ASSUME NEW k \in Intervals
        PROVE  runs[k] \in Run /\ (runs[k].at \in {"fetch", "backup"} => runs[k].cur \in Ids)
  BY DEF TypeOK
<1>DeleteDevice. ASSUME NEW i \in Ids, DeleteDevice(i) PROVE IInv'
  <2>1. devices' = [devices EXCEPT ![i] = NoDevice] /\ devices' \in [Ids -> Device]
    BY <1>DeleteDevice, SentinelTypes DEF DeleteDevice, TypeOK
  <2>2. /\ edits < MaxEdits /\ edits' = edits + 1
        /\ KeepJobs(reenabled \ {i})
    BY <1>DeleteDevice DEF DeleteDevice
  <2>3. collisions' \in 0 .. MaxCollisions
    BY <1>DeleteDevice, BoundAssumption DEF DeleteDevice, TypeOK
  <2>4. /\ runs' \in [Intervals -> Run]
        /\ \A k \in Intervals : runs'[k].at \in {"fetch", "backup"} => runs'[k].cur \in Ids
    BY <1>DeleteDevice DEF DeleteDevice, Bereft, TypeOK, Run
  <2>5. TypeOK' /\ loads' <= edits'
    BY <1>DeleteDevice, <1>Edited, <2>1, <2>2, <2>3, <2>4 DEF DeleteDevice, TypeOK, KeepJobs
  <2>6. ~NoDevice.there
    BY DEF NoDevice
  <2>7. ListsMatchRows'
    BY <2>1, <2>2, <2>6, SentinelTypes, KeptAgrees
  <2> QED BY <2>5, <2>7
<1>DeleteRunningRow. ASSUME NEW k \in Intervals, DeleteRunningRow(k) PROVE IInv'
  <2>1. collisions' \in 0 .. MaxCollisions
    BY <1>DeleteRunningRow, BoundAssumption DEF DeleteRunningRow, TypeOK
  <2>2. /\ runs' \in [Intervals -> Run]
        /\ \A q \in Intervals : runs'[q].at \in {"fetch", "backup"} => runs'[q].cur \in Ids
    <3>1. ASSUME NEW q \in Intervals
          PROVE  /\ runs'[q] \in Run
                 /\ runs'[q].at \in {"fetch", "backup"} => runs'[q].cur \in Ids
      BY <1>DeleteRunningRow, <1>Run DEF DeleteRunningRow, Bereft, Run
    <3>2. runs' = [q \in Intervals |-> runs'[q]]
      BY <1>DeleteRunningRow DEF DeleteRunningRow, Bereft
    <3> QED BY <3>1, <3>2
  <2>3. TypeOK' /\ loads' <= edits'
    BY <1>DeleteRunningRow, <2>1, <2>2 DEF DeleteRunningRow, TypeOK, database
  <2> QED BY <1>DeleteRunningRow, <2>3, RunsKeep DEF DeleteRunningRow, database
<1>ConfigChanges. ASSUME NEW I \in SUBSET Ids, ConfigChanges(I) PROVE IInv'
  <2>1. changes' \in Versions /\ changes' = changes + 1
    BY <1>ConfigChanges, BoundAssumption DEF ConfigChanges, TypeOK, Versions
  <2>2. config' \in [Ids -> Versions]
    BY <1>ConfigChanges, <2>1 DEF ConfigChanges, TypeOK
  <2>3. TypeOK' /\ loads' <= edits'
    BY <1>ConfigChanges, <2>1, <2>2 DEF ConfigChanges, TypeOK
  <2> QED BY <1>ConfigChanges, <2>3, RunsKeep DEF ConfigChanges
<1>OtherBackup. ASSUME NEW i \in Ids, OtherBackup(i) PROVE IInv'
  <2>1. devices' \in [Ids -> Device]
    BY <1>OtherBackup DEF OtherBackup, Captured, TypeOK, Device
  <2>2. TypeOK' /\ loads' <= edits'
    BY <1>OtherBackup, <2>1 DEF OtherBackup, TypeOK, bounds
  <2> QED BY <1>OtherBackup, <2>2, CapturedAgrees DEF OtherBackup
<1>Over. RunOK(NoRun) /\ \A k \in Intervals : RunOK(OnTo(k))
  BY <1>Run, SentinelTypes DEF RunOK, NoRun, OnTo, Run
<1>Fire. ASSUME NEW k \in Intervals, Fire(k) PROVE IInv'
  <2> DEFINE run == [NoRun EXCEPT !.at = "next", !.todo = jobs[k].listed,
                                  !.session = jobs[k].session]
  <2>1. jobs[k] \in Job
    BY DEF TypeOK
  <2>2. RunOK(run)
    BY <2>1, SentinelTypes DEF RunOK, NoRun, Run, Job
  <2>3. Becomes(k, run) /\ UNCHANGED <<devices, broken>>
    BY <1>Fire DEF Fire
  <2> HIDE DEF run
  <2> QED BY <2>2, <2>3, BecomesInv DEF TypeOK
<1>NextDevice. ASSUME NEW k \in Intervals, NextDevice(k) PROVE IInv'
  <2>1. PICK i \in runs[k].todo :
          Becomes(k, IF ~Usable(k) THEN NoRun
                     ELSE IF devices[i].there /\ devices[i].enabled
                       THEN [[runs[k] EXCEPT !.todo = @ \ {i}] EXCEPT !.at = "fetch", !.cur = i]
                     ELSE [runs[k] EXCEPT !.todo = @ \ {i}])
    BY <1>NextDevice DEF NextDevice
  <2>2. i \in Ids
    BY <1>Run DEF Run
  <2>3. RunOK([runs[k] EXCEPT !.todo = @ \ {i}])
    BY <1>Run DEF Run, RunOK
  <2>4. RunOK([[runs[k] EXCEPT !.todo = @ \ {i}] EXCEPT !.at = "fetch", !.cur = i])
    BY <1>Run, <2>2 DEF Run, RunOK
  <2>5. UNCHANGED <<devices, broken>>
    BY <1>NextDevice DEF NextDevice
  <2> QED BY <2>1, <2>3, <2>4, <2>5, <1>Over, BecomesInv DEF TypeOK
<1>EndRun. ASSUME NEW k \in Intervals, EndRun(k) PROVE IInv'
  BY <1>EndRun, <1>Over, BecomesInv DEF EndRun, TypeOK
<1>FetchFails. ASSUME NEW k \in Intervals, FetchFails(k) PROVE IInv'
  BY <1>FetchFails, <1>Over, BecomesInv DEF FetchFails, TypeOK
<1>FetchReturns. ASSUME NEW k \in Intervals, FetchReturns(k) PROVE IInv'
  <2>1. RunOK([runs[k] EXCEPT !.at = "backup"])
    BY <1>FetchReturns, <1>Run DEF FetchReturns, RunOK, Run
  <2>2. \/ Becomes(k, [runs[k] EXCEPT !.at = "backup"])
        \/ Becomes(k, OnTo(k))
    BY <1>FetchReturns DEF FetchReturns
  <2> QED BY <1>FetchReturns, <2>1, <2>2, <1>Over, BecomesInv DEF FetchReturns, TypeOK
<1>BackupFails. ASSUME NEW k \in Intervals, BackupFails(k) PROVE IInv'
  BY <1>BackupFails, <1>Over, BecomesInv DEF BackupFails, TypeOK
<1>BackupSucceeds. ASSUME NEW k \in Intervals, BackupSucceeds(k) PROVE IInv'
  <2>1. runs[k].cur \in Ids
    BY <1>BackupSucceeds, <1>Run DEF BackupSucceeds
  <2> QED BY <1>BackupSucceeds, <2>1, <1>Over, BecomesInv DEF BackupSucceeds, TypeOK
<1>CommitFails. ASSUME NEW k \in Intervals, CommitFails(k) PROVE IInv'
  <2>1. broken' \subseteq Loads
    BY <1>CommitFails, <1>Run DEF CommitFails, TypeOK, Run
  <2> QED BY <1>CommitFails, <2>1, <1>Over, BecomesInv DEF CommitFails
<1>RecordRefused. ASSUME NEW k \in Intervals, RecordRefused(k) PROVE IInv'
  <2>1. Becomes(k, OnTo(k)) \/ Becomes(k, NoRun)
    BY <1>RecordRefused DEF RecordRefused
  <2> QED BY <1>RecordRefused, <2>1, <1>Over, BecomesInv DEF RecordRefused, TypeOK
<1>SessionLost. ASSUME NEW k \in Intervals, SessionLost(k) PROVE IInv'
  BY <1>SessionLost, <1>Over, BecomesInv DEF SessionLost, TypeOK
<1>Stutter. CASE UNCHANGED vars
  <2>1. TypeOK' /\ loads' <= edits'
    BY <1>Stutter DEF vars, database, bounds, TypeOK
  <2> QED BY <1>Stutter, <2>1, RunsKeep DEF vars, database
<1> QED
  BY <1>Restart, <1>AddDevice, <1>EditDevice, <1>ApiUpdate, <1>DeleteDevice,
     <1>DeleteRunningRow, <1>ConfigChanges, <1>OtherBackup, <1>Fire, <1>NextDevice,
     <1>EndRun, <1>FetchFails, <1>FetchReturns, <1>BackupFails, <1>BackupSucceeds,
     <1>CommitFails, <1>RecordRefused, <1>SessionLost, <1>Stutter
  DEF Next, Progress

-----------------------------------------------------------------------------
(* Theorems *)

\* The types, for any number of devices, intervals, loads and collisions: a job that
\* fetches or backs up does so for a device.
THEOREM TypeCorrect == Spec => []TypeOK
<1>1. IInv => TypeOK
  BY DEF IInv
<1> QED BY <1>1, InitInv, NextInv, PTL DEF Spec

\* Every enabled critical device is on the list of its own interval and of no other,
\* after any history of edits, deletions, ids used again and restarts, unless it was
\* enabled again since the last load.
THEOREM ListsAgree == Spec => []ListsMatchRows
<1>1. IInv => ListsMatchRows
  BY DEF IInv
<1> QED BY <1>1, InitInv, NextInv, PTL DEF Spec
=============================================================================
