--------------------------- MODULE BackupRunProofs ---------------------------
(***************************************************************************)
(* Proofs about BackupRun, for any number of coroutines, devices,          *)
(* destinations, rows, retries, crashes and deletions; about the           *)
(* refinement of JobLedger; and about the resolutions of Diagnostics.  The *)
(* invariants, in their order:                                             *)
(*                                                                         *)
(*   TypeInv     where a coroutine is in its list, and the types           *)
(*   CountInv    what its session has counted                              *)
(*   BackedInv   the row it holds, and what rows that say success hold     *)
(*   LedgerInv   its session is never behind its JobRun row                *)
(*   OutcomeInv  what a row, a coroutine and a job know of the backups     *)
(*   ResolvedInv what the failures that are resolved stand for             *)
(*                                                                         *)
(* The first three go through the actions one by one.  For the others each *)
(* action is first shown to be a step of one of a few kinds, and the       *)
(* invariant is then kept by every kind.                                   *)
(***************************************************************************)
EXTENDS Diagnostics, TLAPS

\* The states in which a worker is inside run_backup_for_device.
Working == {"fetch", "save", "fallback", "fbnotify", "notify", "count"}

\* Where a worker is in its list of devices, and where the fallback writes.
Position ==
  \A w \in Workers :
    /\ pc[w] \in Working => idx[w] <= Len(Targets[w])
    /\ idx[w] <= Len(Targets[w]) + 1
    /\ pc[w] = "fallback" => task[w].local \in Dests

\* Only a worker inside run_backup_for_device holds a row.
Holding == \A w \in Workers : cur[w] # 0 => pc[w] \in Working

TypeInv == TypeOK /\ Position /\ Holding

-----------------------------------------------------------------------------
(* Constants and slots *)

LEMMA Lengths ==
  ASSUME NEW w \in Workers
  PROVE  Len(Targets[w]) \in Nat /\ MaxItems \in Nat /\ Len(Targets[w]) <= MaxItems
BY WorkerAssumption

LEMMA SlotInSlots ==
  ASSUME TypeInv, NEW w \in Workers, pc[w] \in Working \/ HasDevice(w)
  PROVE  Slot(w) \in Slots
BY Lengths, WorkerAssumption DEF TypeInv, TypeOK, Position, HasDevice, Slot, Slots

LEMMA SharersInSlots ==
  ASSUME TypeInv, NEW w \in Workers, Slot(w) \in Slots, NEW i \in Ids
  PROVE  Sharers(w, i) \subseteq Slots
<1>1. \A v \in Holders(i) : Slot(v) \in Slots
  BY SlotInSlots DEF Holders, TypeInv, Holding, Ids
<1> QED BY <1>1 DEF Sharers, Holders

LEMMA EmptyTypes ==
  /\ EmptyTask \in Task
  /\ NoTally \in [succ : Nat, fail : Nat]
  /\ AbsentRow \in Row
BY BoundAssumption
DEF EmptyTask, Task, NoDest, NoTally, AbsentRow, Row, RowStatus, Messages

LEMMA RowTypes ==
  ASSUME NEW r \in Row, NEW s \in Slots \union {NoSlot}, NEW status \in RowStatus,
         NEW message \in Messages, NEW S \in SUBSET Dests, NEW names \in SUBSET Dests
  PROVE  /\ NewRow(s, status, message) \in Row
         /\ FailedRow(r, s, message, names) \in Row
         /\ WrittenRow(r, s, S, message, names) \in Row
BY DEF Row, RowStatus, Messages, AbsentRow, NewRow, FailedRow, WrittenRow

LEMMA TallyTypes ==
  ASSUME NEW t \in [succ : Nat, fail : Nat], NEW ok \in BOOLEAN
  PROVE  /\ CountedIn(t, ok) \in [succ : Nat, fail : Nat]
         /\ CountedIn(t, ok).succ + CountedIn(t, ok).fail = t.succ + t.fail + 1
BY DEF CountedIn

LEMMA TaskTypes ==
  ASSUME NEW t \in Task, NEW d \in Dests
  PROVE  /\ Accepted(t, d) \in Task
         /\ Refused(t, d) \in Task
         /\ PassedOver(t, d) \in Task
         /\ FallingBack(t, d) \in Task /\ FallingBack(t, d).local = d
         /\ t.local \in Dests => FellBack(t) \in Task
         /\ t.att < MaxRetries => TriedAgain(t) \in Task
<1>1. 1 \in 1 .. MaxRetries /\ MaxRetries \in Nat
  BY BoundAssumption
<1>2. t.att < MaxRetries => t.att + 1 \in 1 .. MaxRetries
  BY <1>1 DEF Task
<1> QED BY <1>1, <1>2 DEF Task, Accepted, Refused, PassedOver, FallingBack, FellBack, TriedAgain

LEMMA DetachedType ==
  ASSUME NEW f \in Failure, NEW i \in Ids
  PROVE  Detached(f, i) \in Failure
BY DEF Failure, Detached

\* The part of the type invariant that speaks of the coroutines.
MemoryOK ==
  /\ pc \in [Workers -> PCs]
  /\ idx \in [Workers -> 1 .. MaxItems + 1]
  /\ cur \in [Workers -> Ids \union {0}]
  /\ tally \in [Workers -> [succ : Nat, fail : Nat]]
  /\ task \in [Workers -> Task]
  /\ res \in [Workers -> {"ok", "failed", "reread"}]
  /\ Position
  /\ Holding

\* A coroutine that ends forgets its locals and is in no list any more.
LEMMA ForgetTypes ==
  ASSUME TypeInv, NEW w \in Workers, NEW label \in Stopped,
         Forget(w), Goto(w, label)
  PROVE  MemoryOK'
<1> USE DEF TypeInv, TypeOK, Position, MemoryOK, Forget, Goto
<1>1. idx' \in [Workers -> 1 .. MaxItems + 1]
  BY Lengths
<1>2. pc' \in [Workers -> PCs]
  BY DEF Stopped, PCs
<1>3. tally' \in [Workers -> [succ : Nat, fail : Nat]] /\ task' \in [Workers -> Task]
  BY EmptyTypes
<1>4. Position'
  <2>1. idx'[w] = 1 /\ pc'[w] \notin Working /\ pc'[w] # "fallback"
    BY DEF Stopped, Working
  <2>2. \A v \in Workers \ {w} : pc'[v] = pc[v] /\ idx'[v] = idx[v] /\ task'[v] = task[v]
    OBVIOUS
  <2> QED BY <2>1, <2>2, Lengths
<1>5. Holding'
  BY DEF Holding, Working
<1> QED BY <1>1, <1>2, <1>3, <1>4, <1>5

LEMMA RaiseTypes ==
  ASSUME TypeInv, NEW w \in Workers, Raise(w), idx[w] <= Len(Targets[w])
  PROVE  MemoryOK'
<1>1. CASE w \in Jobs
  BY <1>1 DEF Raise, Goto, Result, TypeInv, TypeOK, Position, Holding, Working, MemoryOK, PCs
<1>2. CASE w \notin Jobs
  BY <1>2, ForgetTypes DEF Raise, Stopped
<1> QED BY <1>1, <1>2

LEMMA FlushTypes ==
  ASSUME TypeInv, NEW w \in Workers
  PROVE  Flushed(w) \in [Workers -> RunRow]
BY DEF TypeInv, TypeOK, Flushed, RunRow

LEMMA RecordTypes ==
  ASSUME TypeInv, NEW w \in Workers, Slot(w) \in Slots,
         NEW i \in Ids, NEW d \in Dests \union {NoDest},
         NEW committed \in [Workers -> RunRow], RecordFailure(w, i, d, committed)
  PROVE  /\ failures' \subseteq Failure
         /\ runs' \in [Workers -> RunRow]
         /\ tally' \in [Workers -> [succ : Nat, fail : Nat]]
         /\ incidents' \in Nat
<1>1. [slot |-> Slot(w), bid |-> i, dest |-> d] \in Failure
  BY DEF Failure
<1>2. [succ |-> committed[w].succ, fail |-> committed[w].fail] \in [succ : Nat, fail : Nat]
  BY DEF RunRow
<1> USE DEF RecordFailure, TypeInv, TypeOK
<1>3. CASE /\ failures' = failures \union {[slot |-> Slot(w), bid |-> i, dest |-> d]}
           /\ Flush(w)
           /\ UNCHANGED <<tally, incidents>>
  BY <1>1, <1>3, FlushTypes DEF Flush
<1>4. CASE /\ incidents' = incidents + 1
           /\ runs' = committed
           /\ tally' = [tally EXCEPT ![w] = [succ |-> committed[w].succ,
                                             fail |-> committed[w].fail]]
           /\ UNCHANGED failures
  BY <1>2, <1>4
<1> QED BY <1>3, <1>4

-----------------------------------------------------------------------------
(* Type correctness *)

LEMMA TypeInit == Init => TypeInv
BY WorkerAssumption, EmptyTypes, Lengths, BoundAssumption, DestAssumption
DEF Init, TypeInv, TypeOK, Position, Holding, RunRow, PCs, Working

LEMMA TypeStep == TypeInv /\ [Next]_vars => TypeInv'
<1> SUFFICES ASSUME TypeInv, [Next]_vars PROVE TypeInv'
  OBVIOUS
<1> USE DEF TypeInv, TypeOK, Position, Holding, Goto, Result, database, memory, observers
<1>StartRun. ASSUME NEW w \in Workers, StartRun(w) PROVE TypeInv'
  BY <1>StartRun DEF StartRun, RunRow, PCs, Working
<1>SkipDevice. ASSUME NEW w \in Workers, SkipDevice(w) PROVE TypeInv'
  <2> USE <1>SkipDevice DEF SkipDevice, CountFailed
  <2>1. tally' \in [Workers -> [succ : Nat, fail : Nat]]
    BY TallyTypes
  <2>2. idx' \in [Workers -> 1 .. MaxItems + 1]
    BY Lengths DEF HasDevice
  <2>3. Position'
    BY Lengths DEF HasDevice, Working
  <2>4. Holding'
    OBVIOUS
  <2>5. TypeOK'
    BY <2>1, <2>2
  <2> QED BY <2>3, <2>4, <2>5
<1>UnknownEngine. ASSUME NEW w \in Workers, UnknownEngine(w) PROVE TypeInv'
  <2>1. MemoryOK'
    BY <1>UnknownEngine, RaiseTypes DEF UnknownEngine, HasDevice
  <2> QED BY <1>UnknownEngine, <2>1 DEF UnknownEngine, MemoryOK
<1>NoCredential. ASSUME NEW w \in Workers, NoCredential(w) PROVE TypeInv'
  <2> USE <1>NoCredential DEF NoCredential
  <2>1. Slot(w) \in Slots
    BY SlotInSlots
  <2>2. PICK i \in Ids : /\ InsertRow(w, i, "failed", "error")
                         /\ RecordFailure(w, i, NoDest, Inserted(w))
    OBVIOUS
  <2>3. NewRow(Slot(w), "failed", "error") \in Row
    BY <2>1, EmptyTypes, RowTypes DEF RowStatus, Messages
  <2>4. rows' \in [Ids -> Row] /\ cur' \in [Workers -> Ids \union {0}] /\ shared' \subseteq Slots
    BY <2>1, <2>2, <2>3, SharersInSlots DEF InsertRow
  <2>5. /\ failures' \subseteq Failure
        /\ runs' \in [Workers -> RunRow]
        /\ tally' \in [Workers -> [succ : Nat, fail : Nat]]
        /\ incidents' \in Nat
    BY <2>1, <2>2, FlushTypes, RecordTypes DEF Inserted
  <2>6. Position' /\ Holding' /\ pc' \in [Workers -> PCs]
    BY <2>2 DEF HasDevice, InsertRow, Working, PCs
  <2> QED BY <2>4, <2>5, <2>6
<1>BeginBackup. ASSUME NEW w \in Workers, BeginBackup(w) PROVE TypeInv'
  <2> USE <1>BeginBackup DEF BeginBackup
  <2>1. Slot(w) \in Slots
    BY SlotInSlots
  <2>2. PICK i \in Ids : InsertRow(w, i, "in_progress", "none")
    OBVIOUS
  <2>3. NewRow(Slot(w), "in_progress", "none") \in Row
    BY <2>1, EmptyTypes, RowTypes DEF RowStatus, Messages
  <2>4. rows' \in [Ids -> Row] /\ cur' \in [Workers -> Ids \union {0}] /\ shared' \subseteq Slots
    BY <2>1, <2>2, <2>3, SharersInSlots DEF InsertRow
  <2>5. runs' \in [Workers -> RunRow]
    BY FlushTypes DEF Inserted
  <2>6. Position' /\ Holding' /\ pc' \in [Workers -> PCs]
    BY <2>2 DEF HasDevice, InsertRow, Working, PCs
  <2> QED BY <2>4, <2>5, <2>6
<1>FetchFails. ASSUME NEW w \in Workers, FetchFails(w) PROVE TypeInv'
  <2> USE <1>FetchFails DEF FetchFails, RowThere
  <2>1. Slot(w) \in Slots
    BY SlotInSlots DEF Working
  <2>2. cur[w] \in Ids
    OBVIOUS
  <2>3. FailedRow(rows[cur[w]], rows[cur[w]].content, "error", {}) \in Row
    <3>1. rows[cur[w]].content \in Slots \union {NoSlot}
      BY <2>2 DEF Row
    <3> QED BY <2>2, <3>1, RowTypes DEF RowStatus, Messages
  <2>4. rows' \in [Ids -> Row]
    BY <2>2, <2>3
  <2>5. /\ failures' \subseteq Failure
        /\ runs' \in [Workers -> RunRow]
        /\ tally' \in [Workers -> [succ : Nat, fail : Nat]]
        /\ incidents' \in Nat
    BY <2>1, <2>2, FlushTypes, RecordTypes
  <2>6. Position' /\ Holding' /\ pc' \in [Workers -> PCs]
    BY DEF Working, PCs
  <2> QED BY <2>4, <2>5, <2>6
<1>FetchSucceeds. ASSUME NEW w \in Workers, NEW k \in {"text", "binary"}, FetchSucceeds(w, k)
      PROVE TypeInv'
  BY <1>FetchSucceeds, SlotInSlots, EmptyTypes, DestAssumption DEF FetchSucceeds, Working, PCs, Task
<1>SaveReturns. ASSUME NEW w \in Workers, NEW d \in Dests, SaveReturns(w, d) PROVE TypeInv'
  BY <1>SaveReturns, SlotInSlots, TaskTypes DEF SaveReturns, Saving, Working
<1>SaveUnsupported. ASSUME NEW w \in Workers, NEW d \in Dests, SaveUnsupported(w, d) PROVE TypeInv'
  BY <1>SaveUnsupported, TaskTypes DEF SaveUnsupported, Saving
<1>SaveRetries. ASSUME NEW w \in Workers, NEW d \in Dests, SaveRetries(w, d) PROVE TypeInv'
  BY <1>SaveRetries, TaskTypes DEF SaveRetries, Saving
<1>SaveFails. ASSUME NEW w \in Workers, NEW d \in Dests, SaveFails(w, d) PROVE TypeInv'
  <2> USE <1>SaveFails DEF SaveFails, Saving, RowThere
  <2>1. Slot(w) \in Slots
    BY SlotInSlots DEF Working
  <2>2. /\ failures' \subseteq Failure
        /\ runs' \in [Workers -> RunRow]
        /\ tally' \in [Workers -> [succ : Nat, fail : Nat]]
        /\ incidents' \in Nat
    BY <2>1, RecordTypes
  <2>3. task' \in [Workers -> Task]
    BY TaskTypes
  <2> QED BY <2>2, <2>3
<1>ObjectDeleted. ASSUME NEW w \in Workers, ObjectDeleted(w) PROVE TypeInv'
  <2>1. MemoryOK'
    BY <1>ObjectDeleted, RaiseTypes DEF ObjectDeleted, Working
  <2> QED BY <1>ObjectDeleted, <2>1 DEF ObjectDeleted, MemoryOK
<1>FinishSaved. ASSUME NEW w \in Workers, FinishSaved(w) PROVE TypeInv'
  <2> USE <1>FinishSaved DEF FinishSaved, LoopDone, RowThere
  <2>1. Slot(w) \in Slots /\ cur[w] \in Ids
    BY SlotInSlots DEF Working
  <2>2. SavedRow(w, rows[cur[w]]) \in Row
    <3> DEFINE r == rows[cur[w]]
    <3>1. r.msg \in Messages /\ r.named \in SUBSET Dests /\ r \in Row
      BY <2>1 DEF Row
    <3>2. task[w].saved \in SUBSET Dests /\ task[w].errs \in SUBSET Dests
      BY DEF Task
    <3>3. /\ (IF PartialText(w) THEN "partial" ELSE r.msg) \in Messages
          /\ (IF PartialText(w) THEN task[w].errs ELSE r.named) \in SUBSET Dests
      BY <3>1, <3>2 DEF Messages
    <3> QED BY <2>1, <3>1, <3>2, <3>3, RowTypes DEF SavedRow, RowStatus
  <2>3. rows' \in [Ids -> Row] /\ runs' \in [Workers -> RunRow]
    BY <2>1, <2>2, FlushTypes DEF Flush
  <2>4. Position' /\ Holding' /\ pc' \in [Workers -> PCs]
    BY DEF Working, PCs
  <2> QED BY <2>3, <2>4
<1>FinishBinaryFailed. ASSUME NEW w \in Workers, FinishBinaryFailed(w) PROVE TypeInv'
  <2> USE <1>FinishBinaryFailed DEF FinishBinaryFailed, LoopDone, RowThere
  <2>1. Slot(w) \in Slots /\ cur[w] \in Ids
    BY SlotInSlots DEF Working
  <2>2. FailedRow(rows[cur[w]], Slot(w), "error", task[w].errs) \in Row
    <3>1. task[w].errs \in SUBSET Dests
      BY DEF Task
    <3> QED BY <2>1, <3>1, RowTypes DEF Messages, RowStatus
  <2>3. rows' \in [Ids -> Row] /\ runs' \in [Workers -> RunRow]
    BY <2>1, <2>2, FlushTypes DEF Flush
  <2>4. Position' /\ Holding' /\ pc' \in [Workers -> PCs]
    BY DEF Working, PCs
  <2> QED BY <2>3, <2>4
<1>FallbackStarts. ASSUME NEW w \in Workers, NEW d \in Dests, FallbackStarts(w, d) PROVE TypeInv'
  <2> USE <1>FallbackStarts DEF FallbackStarts, NeedsFallback, LoopDone
  <2>1. task' \in [Workers -> Task] /\ task'[w].local = d
    BY TaskTypes
  <2>2. runs' \in [Workers -> RunRow]
    BY FlushTypes DEF Flush
  <2>3. Position' /\ Holding' /\ pc' \in [Workers -> PCs]
    BY <2>1 DEF Working, PCs
  <2> QED BY <2>1, <2>2, <2>3
<1>FallbackUnavailable. ASSUME NEW w \in Workers, FallbackUnavailable(w) PROVE TypeInv'
  BY <1>FallbackUnavailable, FlushTypes DEF FallbackUnavailable, NeedsFallback, LoopDone, Flush, Working, PCs
<1>FallbackSaves. ASSUME NEW w \in Workers, FallbackSaves(w) PROVE TypeInv'
  <2> USE <1>FallbackSaves DEF FallbackSaves
  <2>1. Slot(w) \in Slots
    BY SlotInSlots DEF Working
  <2>2. task' \in [Workers -> Task] /\ task[w].local \in Dests
    BY TaskTypes
  <2>3. stored' \in [Slots -> SUBSET Dests]
    BY <2>1, <2>2
  <2>4. Position' /\ Holding' /\ pc' \in [Workers -> PCs]
    BY <2>2 DEF Working, PCs
  <2> QED BY <2>2, <2>3, <2>4
<1>FallbackFails. ASSUME NEW w \in Workers, FallbackFails(w) PROVE TypeInv'
  BY <1>FallbackFails DEF FallbackFails, Working, PCs
<1>FallbackCommits. ASSUME NEW w \in Workers, FallbackCommits(w) PROVE TypeInv'
  <2> USE <1>FallbackCommits DEF FallbackCommits, RowThere
  <2>1. Slot(w) \in Slots /\ cur[w] \in Ids
    BY SlotInSlots DEF Working
  <2>2. task[w].errs \in SUBSET Dests /\ task[w].saved \in SUBSET Dests
    BY DEF Task
  <2>3. /\ WrittenRow(rows[cur[w]], Slot(w), task[w].saved, "fallback", {}) \in Row
        /\ FailedRow(rows[cur[w]], Slot(w), "error", task[w].errs) \in Row
    BY <2>1, <2>2, RowTypes DEF Messages, RowStatus
  <2>4. rows' \in [Ids -> Row] /\ runs' \in [Workers -> RunRow]
    BY <2>1, <2>3, FlushTypes DEF Flush
  <2>5. Position' /\ Holding' /\ pc' \in [Workers -> PCs]
    BY DEF Working, PCs
  <2> QED BY <2>4, <2>5
<1>NotifyReturns. ASSUME NEW w \in Workers, NotifyReturns(w) PROVE TypeInv'
  BY <1>NotifyReturns DEF NotifyReturns, Working, PCs
<1>CommitFails. ASSUME NEW w \in Workers, CommitFails(w) PROVE TypeInv'
  <2>1. MemoryOK'
    BY <1>CommitFails, ForgetTypes DEF CommitFails, Stopped
  <2> QED BY <1>CommitFails, <2>1 DEF CommitFails, MemoryOK
<1>TriggerRaises. ASSUME NEW w \in Workers, TriggerRaises(w) PROVE TypeInv'
  <2>1. MemoryOK'
    BY <1>TriggerRaises, ForgetTypes DEF TriggerRaises, Stopped
  <2> QED BY <1>TriggerRaises, <2>1 DEF TriggerRaises, MemoryOK
<1>CountDevice. ASSUME NEW w \in Workers, CountDevice(w) PROVE TypeInv'
  <2> USE <1>CountDevice DEF CountDevice
  <2>1. tally' \in [Workers -> [succ : Nat, fail : Nat]]
    BY TallyTypes DEF SeesSuccess
  <2>2. task' \in [Workers -> Task]
    BY EmptyTypes
  <2>3. idx' \in [Workers -> 1 .. MaxItems + 1]
    <3>1. idx[w] <= Len(Targets[w])
      BY DEF Working
    <3> QED BY <3>1, Lengths
  <2>4. Position' /\ Holding' /\ pc' \in [Workers -> PCs]
    BY <2>3, Lengths DEF Working, PCs
  <2> QED BY <2>1, <2>2, <2>3, <2>4
<1>FinishRun. ASSUME NEW w \in Workers, FinishRun(w) PROVE TypeInv'
  <2>1. MemoryOK'
    BY <1>FinishRun, ForgetTypes DEF FinishRun, Stopped
  <2>2. CASE w \in Jobs
    <3>1. [st |-> IF tally[w].fail = 0 THEN "completed" ELSE "failed",
           succ |-> tally[w].succ, fail |-> tally[w].fail] \in RunRow
      BY DEF RunRow
    <3> QED BY <1>FinishRun, <2>1, <2>2, <3>1 DEF FinishRun, MemoryOK
  <2>3. CASE w \notin Jobs
    BY <1>FinishRun, <2>1, <2>3 DEF FinishRun, MemoryOK
  <2> QED BY <2>2, <2>3
<1>MarkStale. ASSUME NEW i \in Ids, MarkStale(i) PROVE TypeInv'
  <2> USE <1>MarkStale DEF MarkStale
  <2>1. \A k \in Ids : FailedRow(rows[k], rows[k].content, "stale", {}) \in Row
    <3>1. \A k \in Ids : rows[k] \in Row /\ rows[k].content \in Slots \union {NoSlot}
      BY DEF Row
    <3> QED BY <3>1, RowTypes DEF Messages, RowStatus
  <2> QED BY <2>1 DEF Working
<1>DeleteBackup. ASSUME NEW i \in Ids, DeleteBackup(i) PROVE TypeInv'
  <2> USE <1>DeleteBackup DEF DeleteBackup
  <2>1. rows' \in [Ids -> Row]
    BY EmptyTypes
  <2>2. failures' \subseteq Failure
    BY DetachedType
  <2> QED BY <2>1, <2>2
<1>DeleteDestination. ASSUME NEW d \in Dests, DeleteDestination(d) PROVE TypeInv'
  BY <1>DeleteDestination DEF DeleteDestination
<1>DisableDevice. ASSUME NEW v \in Devices, DisableDevice(v) PROVE TypeInv'
  BY <1>DisableDevice DEF DisableDevice
<1>Crash. CASE Crash
  <2>1. task' \in [Workers -> Task] /\ tally' \in [Workers -> [succ : Nat, fail : Nat]]
    BY <1>Crash, EmptyTypes DEF Crash
  <2>2. pc' \in [Workers -> PCs] /\ idx' \in [Workers -> 1 .. MaxItems + 1]
    BY <1>Crash, Lengths DEF Crash, PCs
  <2>3. Position' /\ Holding'
    BY <1>Crash, Lengths DEF Crash, Stopped, Working
  <2> QED BY <1>Crash, <2>1, <2>2, <2>3 DEF Crash
<1>Stutter. CASE UNCHANGED vars
  BY <1>Stutter DEF vars
<1> QED
  BY <1>StartRun, <1>SkipDevice, <1>UnknownEngine, <1>NoCredential, <1>BeginBackup,
     <1>FetchFails, <1>FetchSucceeds, <1>SaveReturns, <1>SaveUnsupported, <1>SaveRetries,
     <1>SaveFails, <1>ObjectDeleted, <1>FinishSaved, <1>FinishBinaryFailed,
     <1>FallbackStarts, <1>FallbackUnavailable, <1>FallbackSaves, <1>FallbackFails,
     <1>FallbackCommits, <1>NotifyReturns, <1>CommitFails, <1>TriggerRaises,
     <1>CountDevice, <1>FinishRun, <1>MarkStale, <1>DeleteBackup, <1>DeleteDestination,
     <1>DisableDevice, <1>Crash, <1>Stutter
  DEF Next, Progress, Operators

\* Every variable keeps its type: no coroutine ever awaits at an undefined place,
\* reads beyond its list of devices or retries more often than the limit.
THEOREM TypeCorrect == Spec => []TypeOK
<1>1. TypeInv => TypeOK
  BY DEF TypeInv
<1> QED BY TypeInit, TypeStep, <1>1, PTL DEF Spec

-----------------------------------------------------------------------------
(* The counters of a job *)

\* While a job runs, its session has counted the devices before the current one;
\* inside the fetch and the destination loop no count is uncommitted, so that a
\* rollback takes nothing back; only a coroutine that is done has finished its
\* row, and then the row is exact.
Exact(w) ==
  /\ runs[w].succ + runs[w].fail = Len(Targets[w])
  /\ (runs[w].st = "completed") <=> (runs[w].fail = 0)

CountedAt(w) ==
  /\ pc[w] \in Working \union {"device"} => tally[w].succ + tally[w].fail = idx[w] - 1
  /\ pc[w] = "idle" => idx[w] = 1 /\ tally[w] = NoTally
  /\ pc[w] \in {"fetch", "save"} => runs[w].succ = tally[w].succ /\ runs[w].fail = tally[w].fail
  /\ Finished(w) => pc[w] = "done" /\ Exact(w)

CountInv == TypeInv /\ \A w \in Jobs : CountedAt(w)

LEMMA CountInit == Init => CountInv
BY TypeInit, WorkerAssumption DEF Init, CountInv, CountedAt, Finished, Working, Stopped

\* A step that leaves the pc, the position and the counters of w alone.
LEMMA Elsewhere ==
  ASSUME CountInv, NEW w \in Jobs, pc'[w] = pc[w], idx'[w] = idx[w],
         tally'[w] = tally[w], runs'[w] = runs[w]
  PROVE  CountedAt(w)'
BY DEF CountInv, CountedAt, Exact, Finished

\* db.commit() touches the row of its own coroutine only, and not its status.
LEMMA FlushCounts ==
  ASSUME TypeInv, NEW w \in Workers
  PROVE  /\ Flushed(w)[w].st = runs[w].st
         /\ Flushed(w)[w].succ = tally[w].succ
         /\ Flushed(w)[w].fail = tally[w].fail
         /\ \A v \in Workers \ {w} : Flushed(w)[v] = runs[v]
BY DEF TypeInv, TypeOK, Flushed, RunRow

\* A failure record, committed or rolled back, leaves the other jobs alone; and
\* its own, if the counters it goes back to are those the session has.
LEMMA RecordOthers ==
  ASSUME TypeInv, NEW w \in Workers, NEW i \in Ids, NEW d \in Dests \union {NoDest},
         NEW committed \in [Workers -> RunRow],
         \A v \in Workers \ {w} : committed[v] = runs[v],
         RecordFailure(w, i, d, committed)
  PROVE  \A v \in Workers \ {w} : runs'[v] = runs[v] /\ tally'[v] = tally[v]
BY FlushCounts DEF TypeInv, TypeOK, RecordFailure, Flush

LEMMA RecordOwn ==
  ASSUME TypeInv, NEW w \in Workers, NEW i \in Ids, NEW d \in Dests \union {NoDest},
         NEW committed \in [Workers -> RunRow], committed[w].st = runs[w].st,
         committed[w].succ = tally[w].succ, committed[w].fail = tally[w].fail,
         RecordFailure(w, i, d, committed)
  PROVE  /\ runs'[w].st = runs[w].st
         /\ runs'[w].succ = tally[w].succ /\ runs'[w].fail = tally[w].fail
         /\ tally'[w].succ = tally[w].succ /\ tally'[w].fail = tally[w].fail
<1> USE DEF TypeInv, TypeOK
<1>1. CASE runs' = Flushed(w) /\ tally' = tally
  BY <1>1, FlushCounts
<1>2. CASE runs' = committed /\ tally' = [tally EXCEPT ![w] = [succ |-> committed[w].succ,
                                                               fail |-> committed[w].fail]]
  BY <1>2
<1> QED BY <1>1, <1>2 DEF RecordFailure, Flush

LEMMA CountStep == CountInv /\ [Next]_vars => CountInv'
<1> SUFFICES ASSUME CountInv, [Next]_vars, NEW j \in Jobs PROVE CountedAt(j)'
  BY TypeStep DEF CountInv
<1>0. TypeInv /\ TypeInv' /\ j \in Workers /\ CountedAt(j)
  BY TypeStep, WorkerAssumption DEF CountInv
<1> USE <1>0 DEF TypeInv, TypeOK, Position, CountedAt, Exact, Finished, Goto, Result, Working, database, memory, observers
<1>StartRun. ASSUME NEW w \in Workers, StartRun(w) PROVE CountedAt(j)'
  <2>1. CASE j # w
    BY <1>StartRun, <2>1, Elsewhere DEF StartRun
  <2>2. CASE j = w
    <3>1. /\ pc[w] = "idle" /\ pc'[w] = "device" /\ idx' = idx /\ tally' = tally
          /\ runs' = [runs EXCEPT ![w].st = "running"]
      BY <1>StartRun, <2>2 DEF StartRun
    <3>2. runs'[w].st = "running"
      BY <3>1 DEF RunRow
    <3> QED BY <2>2, <3>1, <3>2 DEF NoTally
  <2> QED BY <2>1, <2>2
<1>SkipDevice. ASSUME NEW w \in Workers, SkipDevice(w) PROVE CountedAt(j)'
  <2>1. CASE j # w
    BY <1>SkipDevice, <2>1, TallyTypes, Elsewhere DEF SkipDevice, CountFailed, HasDevice
  <2>2. CASE j = w
    <3>1. tally'[w].succ + tally'[w].fail = tally[w].succ + tally[w].fail + 1
      BY <1>SkipDevice, TallyTypes DEF SkipDevice, CountFailed
    <3>2. idx[w] \in Nat /\ idx'[w] = idx[w] + 1 /\ pc' = pc /\ runs' = runs /\ pc[w] = "device"
      BY <1>SkipDevice DEF SkipDevice, CountFailed
    <3> QED BY <2>2, <3>1, <3>2
  <2> QED BY <2>1, <2>2
<1>UnknownEngine. ASSUME NEW w \in Workers, UnknownEngine(w) PROVE CountedAt(j)'
  <2>1. CASE j # w
    BY <1>UnknownEngine, <2>1, Elsewhere DEF UnknownEngine, Raise, Forget, HasDevice
  <2>2. CASE j = w
    BY <1>UnknownEngine, <2>2 DEF UnknownEngine, Raise, Forget, HasDevice
  <2> QED BY <2>1, <2>2
<1>NoCredential. ASSUME NEW w \in Workers, NoCredential(w) PROVE CountedAt(j)'
  <2>1. PICK i \in Ids : RecordFailure(w, i, NoDest, Flushed(w))
    BY <1>NoCredential DEF NoCredential, Inserted
  <2>2. pc[w] = "device" /\ pc' = [pc EXCEPT ![w] = "notify"] /\ idx' = idx
    BY <1>NoCredential DEF NoCredential
  <2>3. Flushed(w) \in [Workers -> RunRow]
    BY FlushTypes
  <2>4. CASE j # w
    <3>1. \A v \in Workers \ {w} : Flushed(w)[v] = runs[v]
      BY FlushCounts
    <3>2. runs'[j] = runs[j] /\ tally'[j] = tally[j]
      BY <2>1, <2>3, <2>4, <3>1, RecordOthers DEF NoDest
    <3> QED BY <2>2, <2>4, <3>2, Elsewhere
  <2>5. CASE j = w
    BY <2>1, <2>2, <2>3, <2>5, FlushCounts, RecordOwn
  <2> QED BY <2>4, <2>5
<1>BeginBackup. ASSUME NEW w \in Workers, BeginBackup(w) PROVE CountedAt(j)'
  <2>1. CASE j # w
    BY <1>BeginBackup, <2>1, Elsewhere, FlushCounts DEF BeginBackup, InsertRow, Inserted
  <2>2. CASE j = w
    BY <1>BeginBackup, <2>2, FlushCounts DEF BeginBackup, InsertRow, Inserted
  <2> QED BY <2>1, <2>2
<1>FetchFails. ASSUME NEW w \in Workers, FetchFails(w) PROVE CountedAt(j)'
  <2>1. cur[w] \in Ids /\ RecordFailure(w, cur[w], NoDest, Flushed(w))
    BY <1>FetchFails DEF FetchFails, RowThere
  <2>2. pc[w] = "fetch" /\ pc' = [pc EXCEPT ![w] = "notify"] /\ idx' = idx
    BY <1>FetchFails DEF FetchFails
  <2>3. Flushed(w) \in [Workers -> RunRow]
    BY FlushTypes
  <2>4. CASE j # w
    <3>1. \A v \in Workers \ {w} : Flushed(w)[v] = runs[v]
      BY FlushCounts
    <3>2. runs'[j] = runs[j] /\ tally'[j] = tally[j]
      BY <2>1, <2>3, <2>4, <3>1, RecordOthers DEF NoDest
    <3> QED BY <2>2, <2>4, <3>2, Elsewhere
  <2>5. CASE j = w
    BY <2>1, <2>2, <2>3, <2>5, FlushCounts, RecordOwn
  <2> QED BY <2>4, <2>5
<1>FetchSucceeds. ASSUME NEW w \in Workers, NEW k \in {"text", "binary"}, FetchSucceeds(w, k) PROVE CountedAt(j)'
  <2>1. CASE j # w
    BY <1>FetchSucceeds, <2>1, Elsewhere DEF FetchSucceeds
  <2>2. CASE j = w
    BY <1>FetchSucceeds, <2>2 DEF FetchSucceeds
  <2> QED BY <2>1, <2>2
<1>SaveReturns. ASSUME NEW w \in Workers, NEW d \in Dests, SaveReturns(w, d) PROVE CountedAt(j)'
  <2>1. CASE j # w
    BY <1>SaveReturns, <2>1, Elsewhere DEF SaveReturns
  <2>2. CASE j = w
    BY <1>SaveReturns, <2>2 DEF SaveReturns
  <2> QED BY <2>1, <2>2
<1>SaveUnsupported. ASSUME NEW w \in Workers, NEW d \in Dests, SaveUnsupported(w, d) PROVE CountedAt(j)'
  <2>1. CASE j # w
    BY <1>SaveUnsupported, <2>1, Elsewhere DEF SaveUnsupported
  <2>2. CASE j = w
    BY <1>SaveUnsupported, <2>2 DEF SaveUnsupported
  <2> QED BY <2>1, <2>2
<1>SaveRetries. ASSUME NEW w \in Workers, NEW d \in Dests, SaveRetries(w, d) PROVE CountedAt(j)'
  <2>1. CASE j # w
    BY <1>SaveRetries, <2>1, Elsewhere DEF SaveRetries
  <2>2. CASE j = w
    BY <1>SaveRetries, <2>2 DEF SaveRetries
  <2> QED BY <2>1, <2>2
<1>SaveFails. ASSUME NEW w \in Workers, NEW d \in Dests, SaveFails(w, d) PROVE CountedAt(j)'
  <2>1. cur[w] \in Ids /\ RecordFailure(w, cur[w], d, runs)
    BY <1>SaveFails DEF SaveFails, RowThere
  <2>2. pc[w] = "save" /\ pc' = pc /\ idx' = idx
    BY <1>SaveFails DEF SaveFails, Saving
  <2>3. CASE j # w
    <3>1. runs'[j] = runs[j] /\ tally'[j] = tally[j]
      BY <2>1, <2>3, RecordOthers
    <3> QED BY <2>2, <2>3, <3>1, Elsewhere
  <2>4. CASE j = w
    BY <2>1, <2>2, <2>4, RecordOwn
  <2> QED BY <2>3, <2>4
<1>ObjectDeleted. ASSUME NEW w \in Workers, ObjectDeleted(w) PROVE CountedAt(j)'
  <2>1. CASE j # w
    BY <1>ObjectDeleted, <2>1, Elsewhere DEF ObjectDeleted, Raise, Forget
  <2>2. CASE j = w
    BY <1>ObjectDeleted, <2>2 DEF ObjectDeleted, Raise, Forget
  <2> QED BY <2>1, <2>2
<1>FinishSaved. ASSUME NEW w \in Workers, FinishSaved(w) PROVE CountedAt(j)'
  <2>1. CASE j # w
    <3>1. pc'[j] = pc[j] /\ idx' = idx /\ tally' = tally /\ runs' = Flushed(w)
      BY <1>FinishSaved, <2>1 DEF FinishSaved, Flush
    <3> QED BY <2>1, <3>1, Elsewhere, FlushCounts
  <2>2. CASE j = w
    BY <1>FinishSaved, <2>2, FlushCounts DEF FinishSaved, Flush, LoopDone
  <2> QED BY <2>1, <2>2
<1>FinishBinaryFailed. ASSUME NEW w \in Workers, FinishBinaryFailed(w) PROVE CountedAt(j)'
  <2>1. CASE j # w
    BY <1>FinishBinaryFailed, <2>1, Elsewhere, FlushCounts DEF FinishBinaryFailed, Flush, LoopDone
  <2>2. CASE j = w
    BY <1>FinishBinaryFailed, <2>2, FlushCounts DEF FinishBinaryFailed, Flush, LoopDone
  <2> QED BY <2>1, <2>2
<1>FallbackStarts. ASSUME NEW w \in Workers, NEW d \in Dests, FallbackStarts(w, d) PROVE CountedAt(j)'
  <2>1. CASE j # w
    BY <1>FallbackStarts, <2>1, Elsewhere, FlushCounts DEF FallbackStarts, Flush, NeedsFallback, LoopDone
  <2>2. CASE j = w
    BY <1>FallbackStarts, <2>2, FlushCounts DEF FallbackStarts, Flush, NeedsFallback, LoopDone
  <2> QED BY <2>1, <2>2
<1>FallbackUnavailable. ASSUME NEW w \in Workers, FallbackUnavailable(w) PROVE CountedAt(j)'
  <2>1. CASE j # w
    BY <1>FallbackUnavailable, <2>1, Elsewhere, FlushCounts DEF FallbackUnavailable, Flush, NeedsFallback, LoopDone
  <2>2. CASE j = w
    BY <1>FallbackUnavailable, <2>2, FlushCounts DEF FallbackUnavailable, Flush, NeedsFallback, LoopDone
  <2> QED BY <2>1, <2>2
<1>FallbackSaves. ASSUME NEW w \in Workers, FallbackSaves(w) PROVE CountedAt(j)'
  <2>1. CASE j # w
    BY <1>FallbackSaves, <2>1, Elsewhere DEF FallbackSaves
  <2>2. CASE j = w
    BY <1>FallbackSaves, <2>2 DEF FallbackSaves
  <2> QED BY <2>1, <2>2
<1>FallbackFails. ASSUME NEW w \in Workers, FallbackFails(w) PROVE CountedAt(j)'
  <2>1. CASE j # w
    BY <1>FallbackFails, <2>1, Elsewhere DEF FallbackFails
  <2>2. CASE j = w
    BY <1>FallbackFails, <2>2 DEF FallbackFails
  <2> QED BY <2>1, <2>2
<1>FallbackCommits. ASSUME NEW w \in Workers, FallbackCommits(w) PROVE CountedAt(j)'
  <2>1. CASE j # w
    BY <1>FallbackCommits, <2>1, Elsewhere, FlushCounts DEF FallbackCommits, Flush
  <2>2. CASE j = w
    BY <1>FallbackCommits, <2>2, FlushCounts DEF FallbackCommits, Flush
  <2> QED BY <2>1, <2>2
<1>NotifyReturns. ASSUME NEW w \in Workers, NotifyReturns(w) PROVE CountedAt(j)'
  <2>1. CASE j # w
    BY <1>NotifyReturns, <2>1, Elsewhere DEF NotifyReturns
  <2>2. CASE j = w
    BY <1>NotifyReturns, <2>2 DEF NotifyReturns
  <2> QED BY <2>1, <2>2
<1>CommitFails. ASSUME NEW w \in Workers, CommitFails(w) PROVE CountedAt(j)'
  <2>1. CASE j # w
    BY <1>CommitFails, <2>1, Elsewhere DEF CommitFails, Forget
  <2>2. CASE j = w
    BY <1>CommitFails, <2>2 DEF CommitFails, Forget, LoopDone
  <2> QED BY <2>1, <2>2
<1>TriggerRaises. ASSUME NEW w \in Workers, TriggerRaises(w) PROVE CountedAt(j)'
  <2>1. CASE j # w
    BY <1>TriggerRaises, <2>1, Elsewhere DEF TriggerRaises, Forget
  <2>2. CASE j = w
    BY <1>TriggerRaises, <2>2 DEF TriggerRaises, Forget
  <2> QED BY <2>1, <2>2
<1>CountDevice. ASSUME NEW w \in Workers, CountDevice(w) PROVE CountedAt(j)'
  <2>1. CASE j # w
    BY <1>CountDevice, <2>1, TallyTypes, Elsewhere DEF CountDevice
  <2>2. CASE j = w
    <3>1. tally'[w].succ + tally'[w].fail = tally[w].succ + tally[w].fail + 1
      <4>1. SeesSuccess(w) \in BOOLEAN
        BY DEF SeesSuccess
      <4>2. tally'[w] = CountedIn(tally[w], SeesSuccess(w))
        BY <1>CountDevice, <2>2 DEF CountDevice
      <4> QED BY <4>1, <4>2, TallyTypes
    <3>2. idx[w] \in Nat /\ idx'[w] = idx[w] + 1 /\ pc'[w] = "device" /\ runs' = runs /\ pc[w] = "count"
      BY <1>CountDevice DEF CountDevice
    <3> QED BY <2>2, <3>1, <3>2
  <2> QED BY <2>1, <2>2
<1>FinishRun. ASSUME NEW w \in Workers, FinishRun(w) PROVE CountedAt(j)'
  <2>1. CASE j # w
    BY <1>FinishRun, <2>1, Elsewhere DEF FinishRun, Forget, HasDevice
  <2>2. CASE j = w
    BY <1>FinishRun, <2>2 DEF FinishRun, Forget, HasDevice
  <2> QED BY <2>1, <2>2
<1>MarkStale. ASSUME NEW i \in Ids, MarkStale(i) PROVE CountedAt(j)'
  BY <1>MarkStale, Elsewhere DEF MarkStale
<1>DeleteBackup. ASSUME NEW i \in Ids, DeleteBackup(i) PROVE CountedAt(j)'
  BY <1>DeleteBackup, Elsewhere DEF DeleteBackup
<1>DeleteDestination. ASSUME NEW d \in Dests, DeleteDestination(d) PROVE CountedAt(j)'
  BY <1>DeleteDestination, Elsewhere DEF DeleteDestination
<1>DisableDevice. ASSUME NEW v \in Devices, DisableDevice(v) PROVE CountedAt(j)'
  BY <1>DisableDevice, Elsewhere DEF DisableDevice
<1>Crash. CASE Crash
  BY <1>Crash DEF Crash, Stopped
<1>Stutter. CASE UNCHANGED vars
  BY <1>Stutter, Elsewhere DEF vars
<1> QED
  BY <1>StartRun, <1>SkipDevice, <1>UnknownEngine, <1>NoCredential, <1>BeginBackup,
     <1>FetchFails, <1>FetchSucceeds, <1>SaveReturns, <1>SaveUnsupported, <1>SaveRetries,
     <1>SaveFails, <1>ObjectDeleted, <1>FinishSaved, <1>FinishBinaryFailed,
     <1>FallbackStarts, <1>FallbackUnavailable, <1>FallbackSaves, <1>FallbackFails,
     <1>FallbackCommits, <1>NotifyReturns, <1>CommitFails, <1>TriggerRaises,
     <1>CountDevice, <1>FinishRun, <1>MarkStale, <1>DeleteBackup, <1>DeleteDestination,
     <1>DisableDevice, <1>Crash, <1>Stutter
  DEF Next, Progress, Operators

\* A finished JobRun row counts every device of its job exactly once, in every
\* interleaving, whatever is skipped, raised, rolled back, deleted or restarted.
THEOREM CountersAreExact == Spec => []CountersExact
<1>1. CountInv => CountersExact
  BY DEF CountInv, CountedAt, Exact, CountersExact
<1> QED BY CountInit, CountStep, <1>1, PTL DEF Spec

-----------------------------------------------------------------------------
(* Success is backed by what was stored *)

\* The row a coroutine holds is the one it inserted, or is gone, or its id was used
\* again, and then both backups are shared; what its locals call saved was stored;
\* and between two devices it has no locals.
Mine(w) ==
  \/ rows[cur[w]].st = "absent"
  \/ rows[cur[w]].owner = Slot(w)
  \/ Slot(w) \in shared /\ rows[cur[w]].owner \in shared

BackedAt(w) ==
  /\ pc[w] \in {"idle", "device"} => cur[w] = 0 /\ task[w] = EmptyTask
  /\ pc[w] \in Working => /\ task[w].saved \subseteq stored[Slot(w)]
                          /\ task[w].fb => task[w].saved # {}
  /\ pc[w] \in Working /\ cur[w] # 0 => Mine(w)

RowBacked(i) ==
  /\ rows[i].st # "absent" => rows[i].owner \in Slots
  /\ rows[i].st = "success" /\ rows[i].owner \notin shared =>
       /\ rows[i].content = rows[i].owner
       /\ rows[i].label # {}
       /\ rows[i].label \subseteq stored[rows[i].owner]

BackedInv ==
  /\ TypeInv
  /\ \A w \in Workers : BackedAt(w)
  /\ \A i \in Ids : RowBacked(i)

\* A row that exists after a step existed before it, for the same slot, or was
\* inserted by it, and then every backup that still holds its id is shared with the
\* new one; what was stored stays stored, what was shared stays shared.
RowsKept ==
  /\ \A i \in Ids : rows'[i].st # "absent" =>
       \/ rows[i].st # "absent" /\ rows'[i].owner = rows[i].owner
       \/ /\ rows[i].st = "absent"
          /\ \A v \in Workers : pc[v] \in Working /\ cur[v] = i =>
               Slot(v) \in shared' /\ rows'[i].owner \in shared'
  /\ \A s \in Slots : stored[s] \subseteq stored'[s]
  /\ shared \subseteq shared'

SameLocals(w) == /\ pc'[w] = pc[w] /\ idx'[w] = idx[w]
                 /\ cur'[w] = cur[w] /\ task'[w] = task[w]

LEMMA BackedInit == Init => BackedInv
BY TypeInit
DEF Init, BackedInv, BackedAt, RowBacked, Working, AbsentRow

LEMMA BackedElsewhere ==
  ASSUME BackedInv, NEW w \in Workers, SameLocals(w), RowsKept
  PROVE  BackedAt(w)'
<1>1. pc[w] \in Working => Slot(w) \in Slots /\ Slot(w)' = Slot(w)
  BY SlotInSlots DEF BackedInv, SameLocals, Slot
<1>2. ASSUME pc[w] \in Working, cur[w] # 0, Mine(w) PROVE Mine(w)'
  BY <1>1, <1>2 DEF BackedInv, SameLocals, RowsKept, Mine, TypeInv, TypeOK
<1> QED BY <1>1, <1>2 DEF BackedInv, BackedAt, SameLocals, RowsKept, TypeInv, TypeOK

LEMMA BackedSameRow ==
  ASSUME BackedInv, RowsKept, NEW i \in Ids, rows'[i] = rows[i]
  PROVE  RowBacked(i)'
BY DEF BackedInv, RowBacked, RowsKept

\* A step of one coroutine that writes one row at most.
LEMMA BackedOneRow ==
  ASSUME BackedInv, RowsKept, TypeInv', NEW w \in Workers,
         \A v \in Workers \ {w} : SameLocals(v), BackedAt(w)',
         \A i \in Ids : rows'[i] = rows[i] \/ RowBacked(i)'
  PROVE  BackedInv'
<1>1. \A v \in Workers : BackedAt(v)'
  BY BackedElsewhere
<1>2. \A i \in Ids : RowBacked(i)'
  BY BackedSameRow
<1> QED BY <1>1, <1>2 DEF BackedInv

LEMMA NewRowFields ==
  ASSUME NEW s, NEW status, NEW message
  PROVE  NewRow(s, status, message).st = status /\ NewRow(s, status, message).owner = s
BY DEF AbsentRow, NewRow

\* An inserted row is the one of its coroutine, and shared with all that hold its id.
LEMMA InsertKeeps ==
  ASSUME TypeInv, NEW w \in Workers, NEW i \in Ids, NEW status, NEW message,
         InsertRow(w, i, status, message), stored' = stored
  PROVE  /\ RowsKept
         /\ \A k \in Ids \ {i} : rows'[k] = rows[k]
         /\ rows[i].st = "absent" /\ i # 0
         /\ rows'[i].st = status /\ rows'[i].owner = Slot(w)
         /\ cur' = [cur EXCEPT ![w] = i]
<1> USE DEF TypeInv, TypeOK
<1>1. /\ rows' = [rows EXCEPT ![i] = NewRow(Slot(w), status, message)]
      /\ rows[i].st = "absent" /\ i # 0 /\ cur' = [cur EXCEPT ![w] = i]
      /\ shared' = shared \union Sharers(w, i)
  BY DEF InsertRow, NextId, Ids
<1>2. rows'[i].st = status /\ rows'[i].owner = Slot(w) /\ \A k \in Ids \ {i} : rows'[k] = rows[k]
  BY <1>1, NewRowFields
<1>3. ASSUME NEW v \in Workers, pc[v] \in Working, cur[v] = i
      PROVE  Slot(v) \in shared' /\ Slot(w) \in shared'
  <2>1. v \in Holders(i)
    BY <1>3 DEF Holders
  <2>2. Sharers(w, i) = {Slot(u) : u \in Holders(i) \union {w}}
    BY <2>1 DEF Sharers
  <2> QED BY <1>1, <2>1, <2>2
<1> QED BY <1>1, <1>2, <1>3 DEF RowsKept

LEMMA FailedRowFields ==
  ASSUME NEW r \in Row, NEW s, NEW message, NEW names
  PROVE  /\ FailedRow(r, s, message, names).st = "failed"
         /\ FailedRow(r, s, message, names).owner = r.owner
BY DEF Row, FailedRow

LEMMA WrittenRowFields ==
  ASSUME NEW r \in Row, NEW s, NEW S, NEW message, NEW names
  PROVE  /\ WrittenRow(r, s, S, message, names).st = "success"
         /\ WrittenRow(r, s, S, message, names).owner = r.owner
         /\ WrittenRow(r, s, S, message, names).content = s
         /\ WrittenRow(r, s, S, message, names).label = S
BY DEF Row, WrittenRow

LEMMA TaskFields ==
  ASSUME NEW t \in Task, NEW d \in Dests
  PROVE  /\ Accepted(t, d).saved = t.saved \union {d} /\ Accepted(t, d).fb = t.fb
         /\ Refused(t, d).saved = t.saved /\ Refused(t, d).fb = t.fb
         /\ PassedOver(t, d).saved = t.saved /\ PassedOver(t, d).fb = t.fb
         /\ TriedAgain(t).saved = t.saved /\ TriedAgain(t).fb = t.fb
         /\ FallingBack(t, d).saved = t.saved /\ FallingBack(t, d).fb = t.fb
         /\ FellBack(t).saved = {t.local}
BY DEF Task, Accepted, Refused, PassedOver, TriedAgain, FallingBack, FellBack

LEMMA EmptyFields == EmptyTask.saved = {} /\ EmptyTask.fb = FALSE
BY DEF EmptyTask

LEMMA BackedStep == BackedInv /\ [Next]_vars => BackedInv'
<1> SUFFICES ASSUME BackedInv, [Next]_vars PROVE BackedInv'
  OBVIOUS
<1>0. TypeInv /\ TypeInv' /\ (\A w \in Workers : BackedAt(w)) /\ (\A i \in Ids : RowBacked(i))
  BY TypeStep DEF BackedInv
<1> USE <1>0 DEF TypeInv, TypeOK, Position, Goto, Result, Working, SameLocals, database, memory, observers
<1>StartRun. ASSUME NEW w \in Workers, StartRun(w) PROVE BackedInv'
  <2>1. RowsKept /\ \A i \in Ids : rows'[i] = rows[i]
    BY <1>StartRun DEF StartRun, RowsKept
  <2>2. \A v \in Workers \ {w} : SameLocals(v)
    BY <1>StartRun DEF StartRun
  <2>3. BackedAt(w)'
    BY <1>StartRun DEF StartRun, BackedAt, Mine, Slot
  <2> QED BY <2>1, <2>2, <2>3, BackedOneRow
<1>SkipDevice. ASSUME NEW w \in Workers, SkipDevice(w) PROVE BackedInv'
  <2>1. RowsKept /\ \A i \in Ids : rows'[i] = rows[i]
    BY <1>SkipDevice DEF SkipDevice, RowsKept
  <2>2. \A v \in Workers \ {w} : SameLocals(v)
    BY <1>SkipDevice DEF SkipDevice, CountFailed
  <2>3. BackedAt(w)'
    BY <1>SkipDevice DEF SkipDevice, BackedAt, Mine, Slot, CountFailed
  <2> QED BY <2>1, <2>2, <2>3, BackedOneRow
<1>UnknownEngine. ASSUME NEW w \in Workers, UnknownEngine(w) PROVE BackedInv'
  <2>1. RowsKept /\ \A i \in Ids : rows'[i] = rows[i]
    BY <1>UnknownEngine DEF UnknownEngine, RowsKept
  <2>2. \A v \in Workers \ {w} : SameLocals(v)
    BY <1>UnknownEngine DEF UnknownEngine, Raise, Forget
  <2>3. BackedAt(w)'
    BY <1>UnknownEngine, EmptyFields DEF UnknownEngine, BackedAt, Mine, Raise, Forget
  <2> QED BY <2>1, <2>2, <2>3, BackedOneRow
<1>NoCredential. ASSUME NEW w \in Workers, NoCredential(w) PROVE BackedInv'
  <2>1. PICK i \in Ids : InsertRow(w, i, "failed", "error")
    BY <1>NoCredential DEF NoCredential
  <2>2. Slot(w) \in Slots /\ Slot(w)' = Slot(w) /\ stored' = stored
    BY <1>NoCredential, SlotInSlots DEF NoCredential, Slot
  <2>3. RowsKept /\ i # 0 /\ cur' = [cur EXCEPT ![w] = i] /\ \A k \in Ids \ {i} : rows'[k] = rows[k]
    BY <2>1, <2>2, InsertKeeps
  <2>4. rows'[i].st = "failed" /\ rows'[i].owner = Slot(w)
    BY <2>1, <2>2, InsertKeeps
  <2>5. \A k \in Ids : rows'[k] = rows[k] \/ RowBacked(k)'
    BY <2>2, <2>3, <2>4 DEF RowBacked
  <2>6. \A v \in Workers \ {w} : SameLocals(v)
    BY <1>NoCredential, <2>1 DEF NoCredential, InsertRow
  <2>7. BackedAt(w)'
    <3>1. pc[w] = "device" /\ pc'[w] = "notify" /\ task' = task /\ cur'[w] = i
      BY <1>NoCredential, <2>1 DEF NoCredential, InsertRow
    <3> QED BY <2>2, <2>4, <3>1, EmptyFields DEF BackedAt, Mine
  <2> QED BY <2>3, <2>5, <2>6, <2>7, BackedOneRow
<1>BeginBackup. ASSUME NEW w \in Workers, BeginBackup(w) PROVE BackedInv'
  <2>1. PICK i \in Ids : InsertRow(w, i, "in_progress", "none")
    BY <1>BeginBackup DEF BeginBackup
  <2>2. Slot(w) \in Slots /\ Slot(w)' = Slot(w) /\ stored' = stored
    BY <1>BeginBackup, SlotInSlots DEF BeginBackup, Slot
  <2>3. RowsKept /\ i # 0 /\ cur' = [cur EXCEPT ![w] = i] /\ \A k \in Ids \ {i} : rows'[k] = rows[k]
    BY <2>1, <2>2, InsertKeeps
  <2>4. rows'[i].st = "in_progress" /\ rows'[i].owner = Slot(w)
    BY <2>1, <2>2, InsertKeeps
  <2>5. \A k \in Ids : rows'[k] = rows[k] \/ RowBacked(k)'
    BY <2>2, <2>3, <2>4 DEF RowBacked
  <2>6. \A v \in Workers \ {w} : SameLocals(v)
    BY <1>BeginBackup, <2>1 DEF BeginBackup, InsertRow
  <2>7. BackedAt(w)'
    <3>1. pc[w] = "device" /\ pc'[w] = "fetch" /\ task' = task /\ cur'[w] = i
      BY <1>BeginBackup, <2>1 DEF BeginBackup, InsertRow
    <3> QED BY <2>2, <2>4, <3>1, EmptyFields DEF BackedAt, Mine
  <2> QED BY <2>3, <2>5, <2>6, <2>7, BackedOneRow
<1>FetchFails. ASSUME NEW w \in Workers, FetchFails(w) PROVE BackedInv'
  <2>1. /\ cur[w] \in Ids /\ rows[cur[w]].st # "absent"
        /\ Slot(w) \in Slots /\ Slot(w)' = Slot(w) /\ stored' = stored /\ shared' = shared
    BY <1>FetchFails, SlotInSlots DEF FetchFails, RowThere, Slot
  <2>2. rows' = [rows EXCEPT ![cur[w]] = FailedRow(@, rows[cur[w]].content, "error", {})]
    BY <1>FetchFails DEF FetchFails
  <2>4. rows'[cur[w]].st = "failed" /\ rows'[cur[w]].owner = rows[cur[w]].owner
    BY <2>1, <2>2, FailedRowFields
  <2>5. RowsKept /\ \A k \in Ids : rows'[k] = rows[k] \/ RowBacked(k)'
    BY <2>1, <2>2, <2>4 DEF RowsKept, RowBacked
  <2>6. \A v \in Workers \ {w} : SameLocals(v)
    BY <1>FetchFails DEF FetchFails
  <2>7. BackedAt(w)'
    BY <1>FetchFails, <2>1, <2>4 DEF FetchFails, BackedAt, Mine
  <2> QED BY <2>5, <2>6, <2>7, BackedOneRow
<1>FetchSucceeds. ASSUME NEW w \in Workers, NEW k \in {"text", "binary"}, FetchSucceeds(w, k) PROVE BackedInv'
  <2>1. RowsKept /\ \A i \in Ids : rows'[i] = rows[i]
    BY <1>FetchSucceeds DEF FetchSucceeds, RowsKept
  <2>2. \A v \in Workers \ {w} : SameLocals(v)
    BY <1>FetchSucceeds DEF FetchSucceeds
  <2>3. BackedAt(w)'
    BY <1>FetchSucceeds DEF FetchSucceeds, BackedAt, Mine, Slot, EmptyTask
  <2> QED BY <2>1, <2>2, <2>3, BackedOneRow
<1>SaveReturns. ASSUME NEW w \in Workers, NEW d \in Dests, SaveReturns(w, d) PROVE BackedInv'
  <2>1. RowsKept /\ \A i \in Ids : rows'[i] = rows[i]
    BY <1>SaveReturns DEF SaveReturns, RowsKept
  <2>2. \A v \in Workers \ {w} : SameLocals(v)
    BY <1>SaveReturns DEF SaveReturns
  <2>3. BackedAt(w)'
    <3>1. /\ pc[w] = "save" /\ pc' = pc /\ task'[w] = Accepted(task[w], d)
          /\ Slot(w) \in Slots /\ Slot(w)' = Slot(w)
      BY <1>SaveReturns, SlotInSlots DEF SaveReturns, Saving, Slot
    <3>2. task'[w].saved = task[w].saved \union {d} /\ task'[w].fb = task[w].fb
      BY <3>1, TaskFields
    <3>3. stored'[Slot(w)] = stored[Slot(w)] \union {d}
      BY <1>SaveReturns, <3>1 DEF SaveReturns
    <3> QED BY <1>SaveReturns, <3>1, <3>2, <3>3 DEF SaveReturns, BackedAt, Mine
  <2> QED BY <2>1, <2>2, <2>3, BackedOneRow
<1>SaveUnsupported. ASSUME NEW w \in Workers, NEW d \in Dests, SaveUnsupported(w, d) PROVE BackedInv'
  <2>1. RowsKept /\ \A i \in Ids : rows'[i] = rows[i]
    BY <1>SaveUnsupported DEF SaveUnsupported, RowsKept
  <2>2. \A v \in Workers \ {w} : SameLocals(v)
    BY <1>SaveUnsupported DEF SaveUnsupported
  <2>3. BackedAt(w)'
    <3>1. pc[w] = "save" /\ pc' = pc /\ task'[w] = PassedOver(task[w], d)
      BY <1>SaveUnsupported DEF SaveUnsupported, Saving
    <3>2. task'[w].saved = task[w].saved /\ task'[w].fb = task[w].fb
      BY <3>1, TaskFields
    <3> QED BY <1>SaveUnsupported, <3>1, <3>2 DEF SaveUnsupported, BackedAt, Mine, Slot
  <2> QED BY <2>1, <2>2, <2>3, BackedOneRow
<1>SaveRetries. ASSUME NEW w \in Workers, NEW d \in Dests, SaveRetries(w, d) PROVE BackedInv'
  <2>1. RowsKept /\ \A i \in Ids : rows'[i] = rows[i]
    BY <1>SaveRetries DEF SaveRetries, RowsKept
  <2>2. \A v \in Workers \ {w} : SameLocals(v)
    BY <1>SaveRetries DEF SaveRetries
  <2>3. BackedAt(w)'
    BY <1>SaveRetries, TaskFields DEF SaveRetries, Saving, BackedAt, Mine, Slot
  <2> QED BY <2>1, <2>2, <2>3, BackedOneRow
<1>SaveFails. ASSUME NEW w \in Workers, NEW d \in Dests, SaveFails(w, d) PROVE BackedInv'
  <2>1. RowsKept /\ \A i \in Ids : rows'[i] = rows[i]
    BY <1>SaveFails DEF SaveFails, RowsKept
  <2>2. \A v \in Workers \ {w} : SameLocals(v)
    BY <1>SaveFails DEF SaveFails
  <2>3. BackedAt(w)'
    <3>1. pc[w] = "save" /\ pc' = pc /\ task'[w] = Refused(task[w], d)
      BY <1>SaveFails DEF SaveFails, Saving
    <3>2. task'[w].saved = task[w].saved /\ task'[w].fb = task[w].fb
      BY <3>1, TaskFields
    <3> QED BY <1>SaveFails, <3>1, <3>2 DEF SaveFails, BackedAt, Mine, Slot
  <2> QED BY <2>1, <2>2, <2>3, BackedOneRow
<1>ObjectDeleted. ASSUME NEW w \in Workers, ObjectDeleted(w) PROVE BackedInv'
  <2>1. RowsKept /\ \A i \in Ids : rows'[i] = rows[i]
    BY <1>ObjectDeleted DEF ObjectDeleted, RowsKept
  <2>2. \A v \in Workers \ {w} : SameLocals(v)
    BY <1>ObjectDeleted DEF ObjectDeleted, Raise, Forget
  <2>3. BackedAt(w)'
    BY <1>ObjectDeleted DEF ObjectDeleted, BackedAt, Mine, Slot, Raise, Forget
  <2> QED BY <2>1, <2>2, <2>3, BackedOneRow
<1>FinishSaved. ASSUME NEW w \in Workers, FinishSaved(w) PROVE BackedInv'
  <2>1. /\ cur[w] \in Ids /\ rows[cur[w]].st # "absent" /\ rows[cur[w]].owner \in {Slot(w)} \union shared
        /\ Slot(w) \in Slots /\ Slot(w)' = Slot(w) /\ stored' = stored /\ shared' = shared
        /\ task[w].saved # {} /\ task[w].saved \subseteq stored[Slot(w)]
    BY <1>FinishSaved, SlotInSlots DEF FinishSaved, RowThere, Slot, LoopDone, BackedAt, Mine
  <2>2. rows' = [rows EXCEPT ![cur[w]] = SavedRow(w, @)]
    BY <1>FinishSaved DEF FinishSaved
  <2>3. /\ rows'[cur[w]].st = "success" /\ rows'[cur[w]].owner = rows[cur[w]].owner
        /\ rows'[cur[w]].content = Slot(w) /\ rows'[cur[w]].label = task[w].saved
    <3>1. rows'[cur[w]] = SavedRow(w, rows[cur[w]])
      BY <2>1, <2>2
    <3> QED BY <2>1, <3>1, WrittenRowFields DEF SavedRow
  <2>4. RowsKept /\ \A k \in Ids : rows'[k] = rows[k] \/ RowBacked(k)'
    BY <2>1, <2>2, <2>3 DEF RowsKept, RowBacked
  <2>5. \A v \in Workers \ {w} : SameLocals(v)
    BY <1>FinishSaved DEF FinishSaved
  <2>6. BackedAt(w)'
    BY <1>FinishSaved, <2>1, <2>3 DEF FinishSaved, BackedAt, Mine, LoopDone
  <2> QED BY <2>4, <2>5, <2>6, BackedOneRow
<1>FinishBinaryFailed. ASSUME NEW w \in Workers, FinishBinaryFailed(w) PROVE BackedInv'
  <2>1. /\ cur[w] \in Ids /\ rows[cur[w]].st # "absent"
        /\ Slot(w) \in Slots /\ Slot(w)' = Slot(w) /\ stored' = stored /\ shared' = shared
    BY <1>FinishBinaryFailed, SlotInSlots DEF FinishBinaryFailed, RowThere, Slot, LoopDone
  <2>2. rows' = [rows EXCEPT ![cur[w]] = FailedRow(@, Slot(w), "error", task[w].errs)]
    BY <1>FinishBinaryFailed DEF FinishBinaryFailed
  <2>4. rows'[cur[w]].st = "failed" /\ rows'[cur[w]].owner = rows[cur[w]].owner
    BY <2>1, <2>2, FailedRowFields
  <2>5. RowsKept /\ \A k \in Ids : rows'[k] = rows[k] \/ RowBacked(k)'
    BY <2>1, <2>2, <2>4 DEF RowsKept, RowBacked
  <2>6. \A v \in Workers \ {w} : SameLocals(v)
    BY <1>FinishBinaryFailed DEF FinishBinaryFailed
  <2>7. BackedAt(w)'
    BY <1>FinishBinaryFailed, <2>1, <2>4 DEF FinishBinaryFailed, BackedAt, Mine, LoopDone
  <2> QED BY <2>5, <2>6, <2>7, BackedOneRow
<1>FallbackStarts. ASSUME NEW w \in Workers, NEW d \in Dests, FallbackStarts(w, d) PROVE BackedInv'
  <2>1. RowsKept /\ \A i \in Ids : rows'[i] = rows[i]
    BY <1>FallbackStarts DEF FallbackStarts, RowsKept
  <2>2. \A v \in Workers \ {w} : SameLocals(v)
    BY <1>FallbackStarts DEF FallbackStarts
  <2>3. BackedAt(w)'
    <3>1. pc[w] = "save" /\ pc'[w] = "fallback" /\ task'[w] = FallingBack(task[w], d)
      BY <1>FallbackStarts DEF FallbackStarts, NeedsFallback, LoopDone
    <3>2. task'[w].saved = task[w].saved /\ task'[w].fb = task[w].fb
      BY <3>1, TaskFields
    <3> QED BY <1>FallbackStarts, <3>1, <3>2 DEF FallbackStarts, BackedAt, Mine, Slot
  <2> QED BY <2>1, <2>2, <2>3, BackedOneRow
<1>FallbackUnavailable. ASSUME NEW w \in Workers, FallbackUnavailable(w) PROVE BackedInv'
  <2>1. RowsKept /\ \A i \in Ids : rows'[i] = rows[i]
    BY <1>FallbackUnavailable DEF FallbackUnavailable, RowsKept
  <2>2. \A v \in Workers \ {w} : SameLocals(v)
    BY <1>FallbackUnavailable DEF FallbackUnavailable
  <2>3. BackedAt(w)'
    BY <1>FallbackUnavailable DEF FallbackUnavailable, NeedsFallback, LoopDone, BackedAt, Mine, Slot
  <2> QED BY <2>1, <2>2, <2>3, BackedOneRow
<1>FallbackSaves. ASSUME NEW w \in Workers, FallbackSaves(w) PROVE BackedInv'
  <2>1. RowsKept /\ \A i \in Ids : rows'[i] = rows[i]
    BY <1>FallbackSaves DEF FallbackSaves, RowsKept
  <2>2. \A v \in Workers \ {w} : SameLocals(v)
    BY <1>FallbackSaves DEF FallbackSaves
  <2>3. BackedAt(w)'
    <3>1. /\ pc[w] = "fallback" /\ pc'[w] = "fbnotify" /\ task'[w] = FellBack(task[w])
          /\ Slot(w) \in Slots /\ Slot(w)' = Slot(w)
      BY <1>FallbackSaves, SlotInSlots DEF FallbackSaves, Slot
    <3>2. task'[w].saved = {task[w].local}
      BY <3>1, TaskFields
    <3>3. stored'[Slot(w)] = stored[Slot(w)] \union {task[w].local}
      BY <1>FallbackSaves, <3>1 DEF FallbackSaves
    <3> QED BY <1>FallbackSaves, <3>1, <3>2, <3>3 DEF FallbackSaves, BackedAt, Mine
  <2> QED BY <2>1, <2>2, <2>3, BackedOneRow
<1>FallbackFails. ASSUME NEW w \in Workers, FallbackFails(w) PROVE BackedInv'
  <2>1. RowsKept /\ \A i \in Ids : rows'[i] = rows[i]
    BY <1>FallbackFails DEF FallbackFails, RowsKept
  <2>2. \A v \in Workers \ {w} : SameLocals(v)
    BY <1>FallbackFails DEF FallbackFails
  <2>3. BackedAt(w)'
    BY <1>FallbackFails DEF FallbackFails, BackedAt, Mine, Slot
  <2> QED BY <2>1, <2>2, <2>3, BackedOneRow
<1>FallbackCommits. ASSUME NEW w \in Workers, FallbackCommits(w) PROVE BackedInv'
  <2>1. /\ cur[w] \in Ids /\ rows[cur[w]].st # "absent" /\ rows[cur[w]].owner \in {Slot(w)} \union shared
        /\ Slot(w) \in Slots /\ Slot(w)' = Slot(w) /\ stored' = stored /\ shared' = shared
        /\ task[w].fb => task[w].saved # {}
        /\ task[w].saved \subseteq stored[Slot(w)]
    BY <1>FallbackCommits, SlotInSlots DEF FallbackCommits, RowThere, Slot, BackedAt, Mine
  <2>2. rows' = [rows EXCEPT ![cur[w]] =
                   IF task[w].fb THEN WrittenRow(@, Slot(w), task[w].saved, "fallback", {})
                                 ELSE FailedRow(@, Slot(w), "error", task[w].errs)]
    BY <1>FallbackCommits DEF FallbackCommits
  <2>4. ASSUME task[w].fb
        PROVE  RowsKept /\ \A k \in Ids : rows'[k] = rows[k] \/ RowBacked(k)'
    <3>1. /\ rows'[cur[w]].st = "success" /\ rows'[cur[w]].owner = rows[cur[w]].owner
          /\ rows'[cur[w]].content = Slot(w) /\ rows'[cur[w]].label = task[w].saved
      BY <2>1, <2>2, <2>4, WrittenRowFields
    <3> QED BY <2>1, <2>2, <2>4, <3>1 DEF RowBacked, RowsKept
  <2>5. ASSUME ~task[w].fb
        PROVE  RowsKept /\ \A k \in Ids : rows'[k] = rows[k] \/ RowBacked(k)'
    <3>1. rows'[cur[w]].st = "failed" /\ rows'[cur[w]].owner = rows[cur[w]].owner
      BY <2>1, <2>2, <2>5, FailedRowFields
    <3> QED BY <2>1, <2>2, <3>1 DEF RowBacked, RowsKept
  <2>6. \A v \in Workers \ {w} : SameLocals(v)
    BY <1>FallbackCommits DEF FallbackCommits
  <2>7. BackedAt(w)'
    <3>1. rows'[cur[w]].owner = rows[cur[w]].owner
      BY <2>1, <2>2, WrittenRowFields, FailedRowFields
    <3> QED BY <1>FallbackCommits, <2>1, <3>1 DEF FallbackCommits, BackedAt, Mine
  <2> QED BY <2>4, <2>5, <2>6, <2>7, BackedOneRow
<1>NotifyReturns. ASSUME NEW w \in Workers, NotifyReturns(w) PROVE BackedInv'
  <2>1. RowsKept /\ \A i \in Ids : rows'[i] = rows[i]
    BY <1>NotifyReturns DEF NotifyReturns, RowsKept
  <2>2. \A v \in Workers \ {w} : SameLocals(v)
    BY <1>NotifyReturns DEF NotifyReturns
  <2>3. BackedAt(w)'
    BY <1>NotifyReturns DEF NotifyReturns, BackedAt, Mine, Slot
  <2> QED BY <2>1, <2>2, <2>3, BackedOneRow
<1>CommitFails. ASSUME NEW w \in Workers, CommitFails(w) PROVE BackedInv'
  <2>1. RowsKept /\ \A i \in Ids : rows'[i] = rows[i]
    BY <1>CommitFails DEF CommitFails, RowsKept
  <2>2. \A v \in Workers \ {w} : SameLocals(v)
    BY <1>CommitFails DEF CommitFails, Forget
  <2>3. BackedAt(w)'
    BY <1>CommitFails DEF CommitFails, BackedAt, Mine, Slot, Forget
  <2> QED BY <2>1, <2>2, <2>3, BackedOneRow
<1>TriggerRaises. ASSUME NEW w \in Workers, TriggerRaises(w) PROVE BackedInv'
  <2>1. RowsKept /\ \A i \in Ids : rows'[i] = rows[i]
    BY <1>TriggerRaises DEF TriggerRaises, RowsKept
  <2>2. \A v \in Workers \ {w} : SameLocals(v)
    BY <1>TriggerRaises DEF TriggerRaises, Forget
  <2>3. BackedAt(w)'
    BY <1>TriggerRaises DEF TriggerRaises, BackedAt, Mine, Slot, Forget
  <2> QED BY <2>1, <2>2, <2>3, BackedOneRow
<1>CountDevice. ASSUME NEW w \in Workers, CountDevice(w) PROVE BackedInv'
  <2>1. RowsKept /\ \A i \in Ids : rows'[i] = rows[i]
    BY <1>CountDevice DEF CountDevice, RowsKept
  <2>2. \A v \in Workers \ {w} : SameLocals(v)
    BY <1>CountDevice DEF CountDevice
  <2>3. BackedAt(w)'
    BY <1>CountDevice DEF CountDevice, BackedAt, Mine, Slot
  <2> QED BY <2>1, <2>2, <2>3, BackedOneRow
<1>FinishRun. ASSUME NEW w \in Workers, FinishRun(w) PROVE BackedInv'
  <2>1. RowsKept /\ \A i \in Ids : rows'[i] = rows[i]
    BY <1>FinishRun DEF FinishRun, RowsKept
  <2>2. \A v \in Workers \ {w} : SameLocals(v)
    BY <1>FinishRun DEF FinishRun, Forget
  <2>3. BackedAt(w)'
    BY <1>FinishRun DEF FinishRun, BackedAt, Mine, Slot, Forget
  <2> QED BY <2>1, <2>2, <2>3, BackedOneRow
<1>MarkStale. ASSUME NEW i \in Ids, MarkStale(i) PROVE BackedInv'
  <2>1. \A k \in Ids :
          rows'[k] = rows[k] \/ (rows'[k].st = "failed" /\ rows'[k].owner = rows[k].owner
                                 /\ rows[k].st = "in_progress")
    <3> SUFFICES ASSUME NEW k \in Ids
                 PROVE  rows'[k] = rows[k] \/ (rows'[k].st = "failed" /\ rows'[k].owner = rows[k].owner
                                 /\ rows[k].st = "in_progress")
      OBVIOUS
    <3>1. rows[k] \in Row
      OBVIOUS
    <3> QED BY <1>MarkStale, <3>1, FailedRowFields DEF MarkStale
  <2>2. RowsKept
    BY <1>MarkStale, <2>1 DEF MarkStale, RowsKept
  <2>3. \A w \in Workers : BackedAt(w)'
    BY <1>MarkStale, <2>2, BackedElsewhere DEF MarkStale
  <2>4. \A k \in Ids : RowBacked(k)'
    BY <2>1, <2>2, BackedSameRow DEF RowBacked
  <2> QED BY <2>3, <2>4 DEF BackedInv
<1>DeleteBackup. ASSUME NEW i \in Ids, DeleteBackup(i) PROVE BackedInv'
  <2>1. /\ rows' = [rows EXCEPT ![i] = AbsentRow] /\ stored' = stored /\ shared' = shared
        /\ \A w \in Workers : SameLocals(w)
    BY <1>DeleteBackup DEF DeleteBackup
  <2>2. rows'[i].st = "absent" /\ \A k \in Ids \ {i} : rows'[k] = rows[k]
    BY <2>1 DEF AbsentRow
  <2>3. RowsKept
    BY <2>1, <2>2 DEF RowsKept
  <2>4. \A k \in Ids : RowBacked(k)'
    BY <2>2, <2>3, BackedSameRow DEF RowBacked
  <2>5. \A w \in Workers : BackedAt(w)'
    BY <2>1, <2>3, BackedElsewhere
  <2> QED BY <2>4, <2>5 DEF BackedInv
<1>DeleteDestination. ASSUME NEW d \in Dests, DeleteDestination(d) PROVE BackedInv'
  BY <1>DeleteDestination DEF DeleteDestination, BackedInv, BackedAt, Mine, RowBacked, Slot
<1>DisableDevice. ASSUME NEW v \in Devices, DisableDevice(v) PROVE BackedInv'
  BY <1>DisableDevice DEF DisableDevice, BackedInv, BackedAt, Mine, RowBacked, Slot
<1>Crash. CASE Crash
  BY <1>Crash DEF Crash, Stopped, BackedInv, BackedAt, Mine, RowBacked
<1>Stutter. CASE UNCHANGED vars
  BY <1>Stutter DEF vars, BackedInv, BackedAt, Mine, RowBacked, Slot
<1> QED
  BY <1>StartRun, <1>SkipDevice, <1>UnknownEngine, <1>NoCredential, <1>BeginBackup,
     <1>FetchFails, <1>FetchSucceeds, <1>SaveReturns, <1>SaveUnsupported, <1>SaveRetries,
     <1>SaveFails, <1>ObjectDeleted, <1>FinishSaved, <1>FinishBinaryFailed,
     <1>FallbackStarts, <1>FallbackUnavailable, <1>FallbackSaves, <1>FallbackFails,
     <1>FallbackCommits, <1>NotifyReturns, <1>CommitFails, <1>TriggerRaises,
     <1>CountDevice, <1>FinishRun, <1>MarkStale, <1>DeleteBackup, <1>DeleteDestination,
     <1>DisableDevice, <1>Crash, <1>Stutter
  DEF Next, Progress, Operators

\* A row that says success holds the configuration of the backup it was inserted
\* for, and every destination its label names accepted that backup, also when rows
\* are deleted under running backups, unless two backups came to hold its id.
THEOREM SuccessBacked == Spec => []SuccessIsBacked
<1>1. BackedInv => SuccessIsBacked
  BY DEF BackedInv, RowBacked, SuccessIsBacked
<1> QED BY BackedInit, BackedStep, <1>1, PTL DEF Spec
-----------------------------------------------------------------------------
(* The refinement of JobLedger.  CountInv says what the session has        *)
(* counted.  Ahead adds that the session is never behind its row, so that  *)
(* a commit takes no count back, and neither does a rollback, which makes  *)
(* the session forget but writes no row.  Every step but the start of a    *)
(* job, its end and a crash is Ordinary: it leaves the status of the rows  *)
(* alone and moves the counters of one row towards its session.            *)

Active == Working \union {"device"}

Ahead(w) ==
  /\ pc[w] = "idle" => runs[w] = [st |-> "none", succ |-> 0, fail |-> 0]
  /\ pc[w] \in Active => /\ runs[w].st = "running"
                         /\ runs[w].succ <= tally[w].succ
                         /\ runs[w].fail <= tally[w].fail

LedgerInv == CountInv /\ \A w \in Jobs : Ahead(w)

\* A row between what it was and what the session had counted.
Towards(w) ==
  /\ runs'[w].st = runs[w].st
  /\ runs[w].succ <= runs'[w].succ /\ runs'[w].succ <= tally[w].succ
  /\ runs[w].fail <= runs'[w].fail /\ runs'[w].fail <= tally[w].fail

Ordinary(w) ==
  /\ pc[w] \in Active
  /\ \A v \in Workers \ {w} : pc'[v] = pc[v] /\ runs'[v] = runs[v] /\ tally'[v] = tally[v]
  /\ w \in Jobs => Towards(w)
  /\ \/ pc'[w] \in {"done", "aborted", "dead"}
     \/ /\ pc'[w] \in Active
        /\ w \in Jobs => runs'[w].succ <= tally'[w].succ /\ runs'[w].fail <= tally'[w].fail

-----------------------------------------------------------------------------
(* Steps of the ledger *)

LEMMA InitLedger == Init => LedgerInv /\ Ledger!Init
<1> SUFFICES ASSUME Init PROVE LedgerInv /\ Ledger!Init
  OBVIOUS
<1>1. \A w \in Jobs : w \in Workers /\ runs[w] = [st |-> "none", succ |-> 0, fail |-> 0]
  BY WorkerAssumption DEF Init
<1>2. \A w \in Jobs : Ahead(w)
  BY <1>1 DEF Init, Ahead, Active, Working
<1>3. Ledger!Init
  BY <1>1 DEF Ledger!Init, Ledger!Entry
<1> QED BY <1>2, <1>3, CountInit DEF LedgerInv

LedgerStep == [Ledger!Next]_([w \in Jobs |-> runs[w]])

\* No job's row changes.
LEMMA QuietLedger ==
  ASSUME \A w \in Jobs : runs'[w] = runs[w]
  PROVE  LedgerStep
BY DEF LedgerStep

LEMMA Counted ==
  ASSUME CountInv, NEW w \in Jobs, pc[w] \in Active
  PROVE  /\ w \in Workers /\ runs[w] \in RunRow
         /\ tally[w].succ \in Nat /\ tally[w].fail \in Nat
         /\ tally[w].succ + tally[w].fail <= Len(Targets[w])
         /\ Len(Targets[w]) \in Nat
<1>1. w \in Workers /\ Len(Targets[w]) \in Nat
  BY WorkerAssumption
<1>2. /\ tally[w].succ + tally[w].fail = idx[w] - 1
      /\ idx[w] <= Len(Targets[w]) + 1
      /\ idx[w] \in Nat
  BY <1>1 DEF CountInv, CountedAt, TypeInv, TypeOK, Position, Active
<1> QED BY <1>1, <1>2 DEF CountInv, TypeInv, TypeOK

\* The total of the ledger, seen through the refinement mapping.
LEMMA BookIsNext ==
  \A w \in Jobs : \A s, f \in 0 .. Len(Targets[w]) :
    Ledger!Book(w, s, f) \/ Ledger!Close(w, s, f) => Ledger!Next
<1>1. \A w \in Jobs : [v \in Jobs |-> Len(Targets[v])][w] = Len(Targets[w])
  OBVIOUS
<1>2. ASSUME NEW w \in Jobs, NEW s \in 0 .. Len(Targets[w]), NEW f \in 0 .. Len(Targets[w]),
             Ledger!Book(w, s, f) \/ Ledger!Close(w, s, f)
      PROVE  Ledger!Next
  <2>1. /\ s \in 0 .. [v \in Jobs |-> Len(Targets[v])][w]
        /\ f \in 0 .. [v \in Jobs |-> Len(Targets[v])][w]
    BY <1>1
  <2> QED BY <1>2, <2>1, Zenon DEF Ledger!Next
<1> QED BY <1>2

LEMMA OrdinaryLedger ==
  ASSUME LedgerInv, CountInv', NEW w \in Workers, Ordinary(w)
  PROVE  LedgerStep /\ \A j \in Jobs : Ahead(j)'
<1>1. ASSUME NEW j \in Jobs PROVE Ahead(j)'
  <2>1. CASE j # w
    BY <2>1, WorkerAssumption DEF Ordinary, LedgerInv, Ahead
  <2>2. CASE j = w
    BY <2>2 DEF Ordinary, LedgerInv, Ahead, Towards, Active, Working
  <2> QED BY <2>1, <2>2
<1>2. ASSUME w \notin Jobs PROVE LedgerStep
  BY <1>2, QuietLedger, WorkerAssumption DEF Ordinary
<1>3. ASSUME w \in Jobs PROVE LedgerStep
  <2>1. PICK s, f \in Nat : runs'[w].succ = s /\ runs'[w].fail = f
    BY DEF CountInv, TypeInv, TypeOK, RunRow
  <2>2. /\ runs[w].st = "running" /\ runs'[w].st = "running"
        /\ runs[w].succ <= s /\ runs[w].fail <= f
        /\ s <= tally[w].succ /\ f <= tally[w].fail
    BY <1>3, <2>1 DEF Ordinary, Towards, LedgerInv, Ahead
  <2>3. pc[w] \in Active /\ CountInv
    BY DEF Ordinary, LedgerInv
  <2>4. /\ tally[w].succ \in Nat /\ tally[w].fail \in Nat
        /\ tally[w].succ + tally[w].fail <= Len(Targets[w])
        /\ Len(Targets[w]) \in Nat
    BY <1>3, <2>3, Counted
  <2>5. s \in 0 .. Len(Targets[w]) /\ f \in 0 .. Len(Targets[w]) /\ s + f <= Len(Targets[w])
    BY <2>2, <2>4
  <2>6. runs'[w] = [st |-> "running", succ |-> s, fail |-> f]
    BY <2>1, <2>2 DEF CountInv, TypeInv, TypeOK, RunRow
  <2>7. [j \in Jobs |-> runs'[j]] =
          [[j \in Jobs |-> runs[j]] EXCEPT ![w] = [st |-> "running", succ |-> s, fail |-> f]]
    BY <1>3, <2>6, WorkerAssumption DEF Ordinary
  <2>8. Ledger!Book(w, s, f)
    BY <1>3, <2>2, <2>5, <2>7 DEF Ledger!Book, Ledger!Entry
  <2>9. Ledger!Next
    BY <1>3, <2>5, <2>8, BookIsNext
  <2> QED BY <2>9 DEF LedgerStep
<1> QED BY <1>1, <1>2, <1>3

-----------------------------------------------------------------------------
(* The kinds of ordinary steps *)

\* Where the session and the row of a running job stand.
LEMMA AheadNumbers ==
  ASSUME LedgerInv, NEW w \in Workers
  PROVE  /\ runs[w].succ \in Nat /\ runs[w].fail \in Nat
         /\ tally[w].succ \in Nat /\ tally[w].fail \in Nat
         /\ w \in Jobs /\ pc[w] \in Active =>
              runs[w].succ <= tally[w].succ /\ runs[w].fail <= tally[w].fail
BY DEF LedgerInv, CountInv, TypeInv, TypeOK, RunRow, Ahead

\* A step that touches neither the rows nor the counters.
LEMMA Moves ==
  ASSUME LedgerInv, NEW w \in Workers, pc[w] \in Active, NEW label \in Active,
         Goto(w, label), runs' = runs, tally' = tally
  PROVE  Ordinary(w)
<1>1. pc'[w] = label /\ \A v \in Workers \ {w} : pc'[v] = pc[v]
  BY DEF Goto, LedgerInv, CountInv, TypeInv, TypeOK
<1> QED BY <1>1, AheadNumbers DEF Ordinary, Towards

\* A commit.
LEMMA Commits ==
  ASSUME LedgerInv, NEW w \in Workers, pc[w] \in Active, NEW label \in Active,
         Goto(w, label), runs' = Flushed(w), tally' = tally
  PROVE  Ordinary(w)
<1>1. pc'[w] = label /\ \A v \in Workers \ {w} : pc'[v] = pc[v]
  BY DEF Goto, LedgerInv, CountInv, TypeInv, TypeOK
<1>2. /\ runs'[w].st = runs[w].st
      /\ runs'[w].succ = tally[w].succ /\ runs'[w].fail = tally[w].fail
      /\ \A v \in Workers \ {w} : runs'[v] = runs[v]
  BY FlushCounts DEF LedgerInv, CountInv
<1> QED BY <1>1, <1>2, AheadNumbers DEF Ordinary, Towards

\* A failure record, committed or rolled back, when what was committed last holds the
\* counters of the session.
LEMMA Records ==
  ASSUME LedgerInv, NEW w \in Workers, pc[w] \in Active, NEW label \in Active,
         pc' = [pc EXCEPT ![w] = label],
         NEW i \in Ids, NEW d \in Dests \union {NoDest},
         NEW committed \in [Workers -> RunRow],
         \A v \in Workers \ {w} : committed[v] = runs[v],
         w \in Jobs => /\ committed[w].st = runs[w].st
                       /\ committed[w].succ = tally[w].succ
                       /\ committed[w].fail = tally[w].fail,
         RecordFailure(w, i, d, committed)
  PROVE  Ordinary(w)
<1>1. pc'[w] = label /\ \A v \in Workers \ {w} : pc'[v] = pc[v]
  BY DEF LedgerInv, CountInv, TypeInv, TypeOK
<1>2. TypeInv
  BY DEF LedgerInv, CountInv
<1>3. \A v \in Workers \ {w} : runs'[v] = runs[v] /\ tally'[v] = tally[v]
  BY <1>2, RecordOthers
<1>4. w \in Jobs => /\ runs'[w].st = runs[w].st
                    /\ runs'[w].succ = tally[w].succ /\ runs'[w].fail = tally[w].fail
                    /\ tally'[w].succ = tally[w].succ /\ tally'[w].fail = tally[w].fail
  BY <1>2, RecordOwn
<1> QED BY <1>1, <1>3, <1>4, AheadNumbers DEF Ordinary, Towards

\* One more device counted.
LEMMA Counts ==
  ASSUME LedgerInv, NEW w \in Workers, pc[w] \in Active, NEW label \in Active,
         pc' = [pc EXCEPT ![w] = label], runs' = runs, NEW ok \in BOOLEAN,
         tally' = [tally EXCEPT ![w] = CountedIn(@, ok)]
  PROVE  Ordinary(w)
<1>1. pc'[w] = label /\ \A v \in Workers \ {w} : pc'[v] = pc[v] /\ tally'[v] = tally[v]
  BY DEF LedgerInv, CountInv, TypeInv, TypeOK
<1>2. tally \in [Workers -> [succ : Nat, fail : Nat]]
  BY DEF LedgerInv, CountInv, TypeInv, TypeOK
<1>3. tally[w].succ <= tally'[w].succ /\ tally[w].fail <= tally'[w].fail
  BY <1>2 DEF CountedIn
<1>4. tally'[w].succ \in Nat /\ tally'[w].fail \in Nat
  BY <1>2 DEF CountedIn
<1> QED BY <1>1, <1>3, <1>4, AheadNumbers DEF Ordinary, Towards

\* The end of a coroutine that writes no row.
LEMMA Ends ==
  ASSUME LedgerInv, NEW w \in Workers, pc[w] \in Active, NEW label \in {"done", "aborted"},
         Goto(w, label), Forget(w), runs' = runs
  PROVE  Ordinary(w)
<1>1. pc'[w] = label /\ \A v \in Workers \ {w} : pc'[v] = pc[v] /\ tally'[v] = tally[v]
  BY DEF Goto, Forget, LedgerInv, CountInv, TypeInv, TypeOK
<1> QED BY <1>1, AheadNumbers DEF Ordinary, Towards

LEMMA Raises ==
  ASSUME LedgerInv, NEW w \in Workers, pc[w] \in Active, Raise(w), runs' = runs
  PROVE  Ordinary(w)
<1>1. CASE Goto(w, "count") /\ tally' = tally
  BY <1>1, Moves DEF Active, Working
<1>2. CASE Goto(w, "done") /\ Forget(w)
  BY <1>2, Ends
<1> QED BY <1>1, <1>2 DEF Raise

LEMMA CountsSeen ==
  ASSUME LedgerInv, NEW w \in Workers, pc[w] \in Active, pc' = [pc EXCEPT ![w] = "device"],
         runs' = runs, tally' = [tally EXCEPT ![w] = CountedIn(@, SeesSuccess(w))]
  PROVE  Ordinary(w)
<1>1. CASE SeesSuccess(w) = TRUE
  BY <1>1, Counts DEF Active
<1>2. CASE SeesSuccess(w) = FALSE
  BY <1>2, Counts DEF Active
<1>3. SeesSuccess(w) \in BOOLEAN
  BY DEF SeesSuccess
<1> QED BY <1>1, <1>2, <1>3

-----------------------------------------------------------------------------
(* Every step *)

LEMMA Labels == Working \subseteq Active /\ "device" \in Active
BY DEF Active

LEMMA OrdinaryStep ==
  ASSUME LedgerInv, NEW w \in Workers, Progress(w), FinishRun(w) => w \notin Jobs
  PROVE  Ordinary(w)
<1> USE Labels DEF Working
<1>0. TypeInv /\ Flushed(w) \in [Workers -> RunRow]
  BY FlushTypes DEF LedgerInv, CountInv
<1>1. /\ Flushed(w)[w].st = runs[w].st
      /\ Flushed(w)[w].succ = tally[w].succ /\ Flushed(w)[w].fail = tally[w].fail
      /\ \A v \in Workers \ {w} : Flushed(w)[v] = runs[v]
  BY <1>0, FlushCounts
<1>2. pc \in [Workers -> PCs] /\ cur \in [Workers -> Ids \union {0}] /\ runs \in [Workers -> RunRow]
  BY <1>0 DEF TypeInv, TypeOK
<1>SkipDevice. CASE SkipDevice(w)
  <2>1. pc' = [pc EXCEPT ![w] = "device"]
    BY <1>2, <1>SkipDevice DEF SkipDevice
  <2> QED BY <1>SkipDevice, <2>1, Counts DEF SkipDevice, CountFailed, database
<1>UnknownEngine. CASE UnknownEngine(w)
  BY <1>UnknownEngine, Raises DEF UnknownEngine, database
<1>NoCredential. CASE NoCredential(w)
  <2>1. PICK i \in Ids : RecordFailure(w, i, NoDest, Flushed(w))
    BY <1>NoCredential DEF NoCredential, Inserted
  <2>2. pc[w] = "device" /\ pc' = [pc EXCEPT ![w] = "notify"]
    BY <1>NoCredential DEF NoCredential, Goto
  <2> QED BY <1>0, <1>1, <2>1, <2>2, Records
<1>BeginBackup. CASE BeginBackup(w)
  BY <1>BeginBackup, Commits DEF BeginBackup, Inserted
<1>FetchFails. CASE FetchFails(w)
  <2>1. cur[w] \in Ids /\ RecordFailure(w, cur[w], NoDest, Flushed(w))
    BY <1>2, <1>FetchFails DEF FetchFails, RowThere
  <2>2. pc[w] = "fetch" /\ pc' = [pc EXCEPT ![w] = "notify"]
    BY <1>FetchFails DEF FetchFails, Goto
  <2>3. PICK i \in Ids : i = cur[w]
    BY <2>1
  <2>4. RecordFailure(w, i, NoDest, Flushed(w))
    BY <2>1, <2>3
  <2> QED BY <1>0, <1>1, <2>2, <2>4, Records
<1>FetchSucceeds. CASE \E k \in {"text", "binary"} : FetchSucceeds(w, k)
  BY <1>FetchSucceeds, Moves DEF FetchSucceeds, database
<1>SaveReturns. ASSUME NEW d \in Dests, SaveReturns(w, d) PROVE Ordinary(w)
  <2>1. pc[w] = "save" /\ pc' = [pc EXCEPT ![w] = "save"]
    BY <1>2, <1>SaveReturns DEF SaveReturns, Saving
  <2> QED BY <1>SaveReturns, <2>1, Moves DEF SaveReturns, Goto, database
<1>SaveUnsupported. ASSUME NEW d \in Dests, SaveUnsupported(w, d) PROVE Ordinary(w)
  <2>1. pc[w] = "save" /\ pc' = [pc EXCEPT ![w] = "save"]
    BY <1>2, <1>SaveUnsupported DEF SaveUnsupported, Saving
  <2> QED BY <1>SaveUnsupported, <2>1, Moves DEF SaveUnsupported, Goto, database
<1>SaveRetries. ASSUME NEW d \in Dests, SaveRetries(w, d) PROVE Ordinary(w)
  <2>1. pc[w] = "save" /\ pc' = [pc EXCEPT ![w] = "save"]
    BY <1>2, <1>SaveRetries DEF SaveRetries, Saving
  <2> QED BY <1>SaveRetries, <2>1, Moves DEF SaveRetries, Goto, database
<1>SaveFails. ASSUME NEW d \in Dests, SaveFails(w, d) PROVE Ordinary(w)
  <2>1. cur[w] \in Ids /\ RecordFailure(w, cur[w], d, runs)
    BY <1>2, <1>SaveFails DEF SaveFails, RowThere
  <2>2. pc[w] = "save" /\ pc' = [pc EXCEPT ![w] = "save"]
    BY <1>2, <1>SaveFails DEF SaveFails, Saving
  <2>3. w \in Jobs => runs[w].succ = tally[w].succ /\ runs[w].fail = tally[w].fail
    BY <2>2 DEF LedgerInv, CountInv, CountedAt
  <2>4. PICK i \in Ids : i = cur[w]
    BY <2>1
  <2>5. RecordFailure(w, i, d, runs)
    BY <2>1, <2>4
  <2> QED BY <1>2, <2>2, <2>3, <2>5, Records
<1>ObjectDeleted. CASE ObjectDeleted(w)
  BY <1>ObjectDeleted, Raises DEF ObjectDeleted, database
<1>FinishSaved. CASE FinishSaved(w)
  <2>1. pc[w] = "save" /\ runs' = Flushed(w) /\ tally' = tally
    BY <1>FinishSaved DEF FinishSaved, Flush, LoopDone
  <2>2. Goto(w, "count") \/ Goto(w, "notify")
    BY <1>FinishSaved DEF FinishSaved
  <2> QED BY <2>1, <2>2, Commits
<1>FinishBinaryFailed. CASE FinishBinaryFailed(w)
  BY <1>FinishBinaryFailed, Commits DEF FinishBinaryFailed, Flush, LoopDone
<1>FallbackUnavailable. CASE FallbackUnavailable(w)
  BY <1>FallbackUnavailable, Commits DEF FallbackUnavailable, Flush, NeedsFallback, LoopDone
<1>FallbackCommits. CASE FallbackCommits(w)
  BY <1>FallbackCommits, Commits DEF FallbackCommits, Flush
<1>FallbackStarts. ASSUME NEW d \in Dests, FallbackStarts(w, d) PROVE Ordinary(w)
  BY <1>FallbackStarts, Commits DEF FallbackStarts, Flush, NeedsFallback, LoopDone
<1>FallbackSaves. CASE FallbackSaves(w)
  BY <1>FallbackSaves, Moves DEF FallbackSaves, database
<1>FallbackFails. CASE FallbackFails(w)
  BY <1>FallbackFails, Moves DEF FallbackFails, database
<1>NotifyReturns. CASE NotifyReturns(w)
  BY <1>NotifyReturns, Moves DEF NotifyReturns, database
<1>CommitFails. CASE CommitFails(w)
  BY <1>CommitFails, Ends DEF CommitFails, LoopDone, database
<1>TriggerRaises. CASE TriggerRaises(w)
  BY <1>TriggerRaises, Ends DEF TriggerRaises, database
<1>CountDevice. CASE CountDevice(w)
  <2>1. CASE w \in Jobs
    BY <1>CountDevice, <2>1, CountsSeen, Labels DEF CountDevice, Goto, database
  <2>2. CASE w \notin Jobs
    BY <1>CountDevice, <2>2, Moves DEF CountDevice, database
  <2> QED BY <2>1, <2>2
<1>FinishRun. CASE FinishRun(w)
  BY <1>FinishRun, Ends, Labels DEF FinishRun
<1> QED
  BY <1>SkipDevice, <1>UnknownEngine, <1>NoCredential, <1>BeginBackup,
     <1>FetchFails, <1>FetchSucceeds, <1>SaveReturns, <1>SaveUnsupported, <1>SaveRetries,
     <1>SaveFails, <1>ObjectDeleted, <1>FinishSaved, <1>FinishBinaryFailed,
     <1>FallbackStarts, <1>FallbackUnavailable, <1>FallbackSaves, <1>FallbackFails,
     <1>FallbackCommits, <1>NotifyReturns, <1>CommitFails, <1>TriggerRaises,
     <1>CountDevice, <1>FinishRun
  DEF Progress

\* A job is opened, with counters that nothing has moved yet.
LEMMA StartLedger ==
  ASSUME LedgerInv, NEW w \in Workers, StartRun(w)
  PROVE  LedgerStep /\ \A j \in Jobs : Ahead(j)'
<1>1. /\ pc[w] = "idle" /\ pc'[w] = "device" /\ tally' = tally
      /\ \A v \in Workers \ {w} : pc'[v] = pc[v] /\ runs'[v] = runs[v]
      /\ w \notin Jobs => runs' = runs
      /\ w \in Jobs => runs' = [runs EXCEPT ![w].st = "running"]
  BY DEF StartRun, Goto, LedgerInv, CountInv, TypeInv, TypeOK
<1>2. CASE w \notin Jobs
  <2>1. \A j \in Jobs : Ahead(j)'
    BY <1>1, <1>2, WorkerAssumption DEF Ahead, LedgerInv
  <2>2. LedgerStep
    BY <1>1, <1>2, QuietLedger
  <2> QED BY <2>1, <2>2
<1>3. CASE w \in Jobs
  <2>1. runs[w] = [st |-> "none", succ |-> 0, fail |-> 0] /\ tally[w] = NoTally
    BY <1>1, <1>3 DEF LedgerInv, Ahead, CountInv, CountedAt
  <2>2. runs'[w] = [st |-> "running", succ |-> 0, fail |-> 0]
    BY <1>1, <1>3, <2>1 DEF LedgerInv, CountInv, TypeInv, TypeOK, RunRow
  <2>3. \A j \in Jobs : Ahead(j)'
    BY <1>1, <2>1, <2>2, WorkerAssumption DEF Ahead, LedgerInv, NoTally, Active
  <2>4. [j \in Jobs |-> runs'[j]] =
          [[j \in Jobs |-> runs[j]] EXCEPT ![w] = [st |-> "running", succ |-> 0, fail |-> 0]]
    BY <1>1, <1>3, <2>2, WorkerAssumption
  <2>5. Ledger!Open(w)
    BY <1>3, <2>1, <2>4 DEF Ledger!Open, Ledger!Entry
  <2>6. Ledger!Next
    BY <1>3, <2>5 DEF Ledger!Next
  <2> QED BY <2>3, <2>6 DEF LedgerStep
<1> QED BY <1>2, <1>3

\* A job is closed by its coroutine when each device has been counted.
LEMMA FinishLedger ==
  ASSUME LedgerInv, NEW w \in Jobs, FinishRun(w)
  PROVE  LedgerStep /\ \A j \in Jobs : Ahead(j)'
<1>1. w \in Workers /\ CountInv /\ CountedAt(w) /\ Ahead(w) /\ pc[w] = "device" /\ pc[w] \in Active
  BY WorkerAssumption DEF FinishRun, LedgerInv, CountInv, Active
<1>2. /\ pc'[w] = "done"
      /\ \A v \in Workers \ {w} : pc'[v] = pc[v] /\ runs'[v] = runs[v] /\ tally'[v] = tally[v]
  BY <1>1 DEF FinishRun, Goto, Forget, CountInv, TypeInv, TypeOK
<1>3. \A j \in Jobs : Ahead(j)'
  BY <1>2, WorkerAssumption DEF Ahead, LedgerInv, Active, Working
<1>4. PICK s, f \in Nat : tally[w].succ = s /\ tally[w].fail = f
  BY <1>1, Counted
<1>5. runs'[w] = [st |-> IF f = 0 THEN "completed" ELSE "failed", succ |-> s, fail |-> f]
  BY <1>1, <1>4 DEF FinishRun, CountInv, TypeInv, TypeOK
<1>6. Len(Targets[w]) \in Nat /\ s + f = Len(Targets[w])
  <2>1. idx[w] = Len(Targets[w]) + 1 /\ Len(Targets[w]) \in Nat
    <3>1. Len(Targets[w]) \in Nat /\ idx[w] \in Nat /\ idx[w] <= Len(Targets[w]) + 1
      BY <1>1, Lengths DEF CountInv, TypeInv, TypeOK, Position
    <3>2. ~(idx[w] <= Len(Targets[w]))
      BY DEF FinishRun, HasDevice
    <3> QED BY <3>1, <3>2
  <2>2. s + f = idx[w] - 1
    BY <1>1, <1>4 DEF CountedAt
  <2> QED BY <2>1, <2>2
<1>7. s \in 0 .. Len(Targets[w]) /\ f \in 0 .. Len(Targets[w])
  BY <1>6
<1>8. runs[w].st = "running" /\ runs[w].succ <= s /\ runs[w].fail <= f
  BY <1>1, <1>4 DEF Ahead
<1>9. [j \in Jobs |-> runs'[j]] =
        [[j \in Jobs |-> runs[j]] EXCEPT ![w] =
           [st |-> IF f = 0 THEN "completed" ELSE "failed", succ |-> s, fail |-> f]]
  BY <1>2, <1>5, WorkerAssumption
<1>10. Ledger!Close(w, s, f)
  BY <1>6, <1>8, <1>9 DEF Ledger!Close, Ledger!Entry
<1>11. Ledger!Next
  BY <1>7, <1>10, BookIsNext
<1> QED BY <1>3, <1>11 DEF LedgerStep

LEMMA LedgerNext == LedgerInv /\ [Next]_vars => LedgerInv' /\ LedgerStep
<1> SUFFICES ASSUME LedgerInv, [Next]_vars PROVE LedgerInv' /\ LedgerStep
  OBVIOUS
<1>0. CountInv'
  BY CountStep DEF LedgerInv
<1>1. ASSUME NEW w \in Workers, StartRun(w) PROVE LedgerStep /\ \A j \in Jobs : Ahead(j)'
  BY <1>1, StartLedger
<1>2. ASSUME NEW w \in Workers, Progress(w) PROVE LedgerStep /\ \A j \in Jobs : Ahead(j)'
  <2>1. CASE FinishRun(w) /\ w \in Jobs
    BY <2>1, FinishLedger
  <2>2. CASE ~(FinishRun(w) /\ w \in Jobs)
    BY <1>0, <1>2, <2>2, OrdinaryStep, OrdinaryLedger
  <2> QED BY <2>1, <2>2
<1>3. ASSUME runs' = runs, pc' = pc, tally' = tally
      PROVE  LedgerStep /\ \A j \in Jobs : Ahead(j)'
  BY <1>3, QuietLedger DEF Ahead, LedgerInv
<1>4. ASSUME \/ \E i \in Ids : MarkStale(i)
             \/ Operators
             \/ UNCHANGED vars
      PROVE  LedgerStep /\ \A j \in Jobs : Ahead(j)'
  <2>1. runs' = runs /\ pc' = pc /\ tally' = tally
    BY <1>4 DEF MarkStale, Operators, DeleteBackup, DeleteDestination, DisableDevice,
                vars, database, memory
  <2> QED BY <1>3, <2>1
<1>5. ASSUME Crash PROVE LedgerStep /\ \A j \in Jobs : Ahead(j)'
  <2>1. runs' = runs
    BY <1>5 DEF Crash, database
  <2>2. ASSUME NEW j \in Jobs PROVE Ahead(j)'
    <3>1. j \in Workers /\ Ahead(j)
      BY WorkerAssumption DEF LedgerInv
    <3>2. pc'[j] = IF pc[j] \in Stopped THEN pc[j] ELSE "dead"
      BY <1>5, <3>1 DEF Crash
    <3> QED BY <2>1, <3>1, <3>2 DEF Ahead, Stopped, Active, Working
  <2>3. LedgerStep
    BY <2>1, QuietLedger
  <2> QED BY <2>2, <2>3
<1>6. LedgerStep /\ \A j \in Jobs : Ahead(j)'
  BY <1>1, <1>2, <1>4, <1>5 DEF Next
<1> QED BY <1>0, <1>6 DEF LedgerInv

\* The JobRun rows of BackupRun behave as JobLedger promises.
THEOREM LedgerImplemented == Spec => ImplementsLedger
<1>1. Init => LedgerInv /\ Ledger!Init
  BY InitLedger
<1>2. LedgerInv /\ [Next]_vars => LedgerInv' /\ LedgerStep
  BY LedgerNext
<1> QED BY <1>1, <1>2, PTL DEF Spec, ImplementsLedger, Ledger!Spec, LedgerStep

-----------------------------------------------------------------------------
(* What becomes of a backup.  A row that is not decided yet belongs to the *)
(* coroutine that holds it, is in progress or marked stale, and has no     *)
(* configuration; from its last commit on nobody writes to it again.  So a *)
(* row stays with its verdict, what a job has counted stays true, and the  *)
(* row names what the destination loop could not save.  All this holds of  *)
(* the slots that are not shared: a row that another coroutine writes to   *)
(* has an owner that is shared, by Mine.                                   *)

\* The outcome of the backup is not committed yet.
Undecided == {"fetch", "save", "fallback", "fbnotify"}

\* The row of w exists and nobody else has written to it.
Alone(w) == rows[cur[w]].st # "absent" /\ Slot(w) \notin shared

\* An undecided coroutine holds a row without a configuration, in progress or marked
\* stale meanwhile; and one that remembers a success holds a row that says so and has
\* stored the device; unless the row is gone or shared.
HeldAt(w) ==
  /\ pc[w] \in Undecided =>
       /\ cur[w] # 0
       /\ Alone(w) => /\ rows[cur[w]].content = NoSlot
                      /\ \/ rows[cur[w]].st = "in_progress"
                         \/ rows[cur[w]].st = "failed" /\ rows[cur[w]].msg = "stale"
  /\ pc[w] \in {"notify", "count"} /\ res[w] = "ok" =>
       /\ cur[w] # 0 /\ stored[Slot(w)] # {}
       /\ Alone(w) => rows[cur[w]].st = "success"

\* A destination that a text backup was to reach is still to do, failed or has accepted.
Accounted(w) ==
  pc[w] \in Undecided \ {"fetch"} =>
    /\ resolved[Slot(w)] \subseteq task[w].todo \union task[w].errs \union stored[Slot(w)]
    /\ task[w].kind = "binary" => resolved[Slot(w)] = {}
    /\ pc[w] # "save" => task[w].todo = {}

\* A coroutine has rows of the devices before the current one, and of the current one
\* only the row that it holds.
OwnedAt(w) ==
  \A i \in Ids, n \in 1 .. MaxItems : rows[i].owner = <<w, n>> =>
    /\ pc[w] # "idle"
    /\ pc[w] \in Active => n < idx[w] \/ (n = idx[w] /\ pc[w] \in Working /\ cur[w] = i)

\* A row in progress has no configuration, and one with its own names every destination
\* of the backup that did not accept it.
RowDecided(i) ==
  /\ rows[i].st = "absent" => rows[i] = AbsentRow
  /\ rows[i].st = "in_progress" => rows[i].content = NoSlot
  /\ rows[i].st \in {"success", "failed"} /\ rows[i].content = rows[i].owner
       /\ rows[i].owner # NoSlot /\ rows[i].owner \notin shared /\ rows[i].msg # "fallback" =>
     resolved[rows[i].owner] \subseteq stored[rows[i].owner] \union rows[i].named

\* The backup of a slot is stored, and no row of the slot says anything else; or it
\* shared its row.
DoneWell(w, n) ==
  <<w, n>> \notin shared =>
    /\ stored[<<w, n>>] # {}
    /\ \A i \in Ids : rows[i].owner = <<w, n>> => rows[i].st = "success"

\* What a job without failures has counted, or closed, is done well.
SoFar(w) ==
  /\ runs[w].st = "completed" => \A n \in 1 .. Len(Targets[w]) : DoneWell(w, n)
  /\ pc[w] \in Active /\ tally[w].fail = 0 => \A n \in 1 .. idx[w] - 1 : DoneWell(w, n)

OutcomeInv ==
  /\ CountInv /\ BackedInv
  /\ \A w \in Workers : HeldAt(w) /\ Accounted(w) /\ OwnedAt(w)
  /\ \A i \in Ids : RowDecided(i)
  /\ \A w \in Jobs : SoFar(w)

LEMMA OutcomeInit == Init => OutcomeInv
<1> SUFFICES ASSUME Init PROVE OutcomeInv
  OBVIOUS
<1>1. CountInv /\ BackedInv
  BY CountInit, BackedInit
<1>2. \A w \in Workers : HeldAt(w) /\ Accounted(w)
  BY DEF Init, HeldAt, Accounted, Undecided
<1>3. \A i \in Ids : rows[i] = AbsentRow /\ rows[i].owner = NoSlot
  BY DEF Init, AbsentRow
<1>4. \A w \in Workers : OwnedAt(w)
  BY <1>3, BoundAssumption DEF OwnedAt, Slots
<1>5. \A i \in Ids : RowDecided(i)
  BY <1>3 DEF RowDecided, AbsentRow
<1>6. \A w \in Jobs : SoFar(w)
  BY WorkerAssumption DEF Init, SoFar, Active, Working
<1> QED BY <1>1, <1>2, <1>4, <1>5, <1>6 DEF OutcomeInv

-----------------------------------------------------------------------------
(* The kinds of steps, as far as outcomes go *)

Others(w) ==
  \A v \in Workers \ {w} : /\ SameLocals(v) /\ res'[v] = res[v]
                           /\ tally'[v] = tally[v] /\ runs'[v] = runs[v]

SameObservers == stored' = stored /\ resolved' = resolved /\ shared' = shared

Starts(w) ==
  /\ pc[w] = "idle" /\ pc'[w] = "device" /\ idx'[w] = idx[w]
  /\ rows' = rows /\ SameObservers
  /\ w \in Jobs => runs'[w].st = "running"

Inserts(w, i) ==
  /\ pc[w] = "device" /\ HasDevice(w) /\ rows[i].st = "absent"
  /\ idx'[w] = idx[w] /\ cur'[w] = i
  /\ stored' = stored /\ resolved' = resolved /\ shared \subseteq shared'
  /\ \/ pc'[w] = "fetch" /\ rows' = [rows EXCEPT ![i] = NewRow(Slot(w), "in_progress", "none")]
     \/ /\ pc'[w] = "notify" /\ res'[w] = "reread"
        /\ rows' = [rows EXCEPT ![i] = NewRow(Slot(w), "failed", "error")]
  /\ w \in Jobs => tally'[w].fail = tally[w].fail /\ runs'[w].st = runs[w].st

\* The outcome is written to the row, which exists.
Decides(w) ==
  /\ pc[w] \in Undecided /\ pc'[w] \in {"notify", "count"} /\ rows[cur[w]].st # "absent"
  /\ idx'[w] = idx[w] /\ cur'[w] = cur[w] /\ SameObservers
  /\ \E r \in Row :
       /\ rows' = [rows EXCEPT ![cur[w]] = r]
       /\ r.owner = rows[cur[w]].owner /\ r.owner \in {Slot(w)} \union shared
       /\ r.st \in {"success", "failed"}
       /\ res'[w] = "ok" => r.st = "success" /\ stored[Slot(w)] # {}
       /\ r.owner \notin shared /\ r.content = Slot(w) /\ r.msg # "fallback" =>
            resolved[Slot(w)] \subseteq stored[Slot(w)] \union r.named
  /\ w \in Jobs => tally'[w].fail = tally[w].fail /\ runs'[w].st = runs[w].st

\* Any other step within the backup of one device.
Works(w) ==
  /\ pc[w] \in Active /\ pc'[w] \in Working
  /\ HasDevice(w)
  /\ idx'[w] = idx[w] /\ cur'[w] = cur[w] /\ rows' = rows /\ shared' = shared
  /\ \A s \in Slots : stored[s] \subseteq stored'[s]
  /\ \A s \in Slots : resolved'[s] = resolved[s] \/ (s = Slot(w) /\ pc[w] = "fetch")
  /\ w \in Jobs => tally'[w].fail = tally[w].fail /\ runs'[w].st = runs[w].st
  /\ HeldAt(w)' /\ Accounted(w)'

\* On to the next device.
Passes(w) ==
  /\ pc[w] \in {"device", "count"} /\ pc'[w] = "device"
  /\ idx'[w] = idx[w] + 1 /\ rows' = rows /\ SameObservers
  /\ w \in Jobs => /\ runs'[w].st = runs[w].st
                   /\ tally'[w].fail = 0 => tally[w].fail = 0 /\ DoneWell(w, idx[w])

Leaves(w) ==
  /\ pc[w] \in Active /\ pc'[w] \in {"done", "aborted"}
  /\ rows' = rows /\ SameObservers
  /\ w \in Jobs /\ runs'[w].st = "completed" => tally[w].fail = 0 /\ idx[w] = Len(Targets[w]) + 1

\* Steps of nobody's coroutine.
SameMemory == UNCHANGED <<runs, memory, observers>>

Marks ==
  /\ SameMemory
  /\ \A k \in Ids : \/ rows'[k] = rows[k]
                    \/ /\ rows[k].st = "in_progress" /\ rows'[k].st = "failed"
                       /\ rows'[k].msg = "stale" /\ rows'[k].owner = rows[k].owner
                       /\ rows'[k].content = rows[k].content

Deletes(i) ==
  /\ SameMemory
  /\ rows' = [rows EXCEPT ![i] = AbsentRow]

Dies ==
  /\ rows' = rows /\ runs' = runs /\ SameObservers
  /\ \A w \in Workers : IF pc[w] \in Stopped THEN pc'[w] = pc[w] /\ idx'[w] = 1 ELSE pc'[w] = "dead"

Rests == SameMemory /\ rows' = rows

OutcomeKind ==
  \/ \E w \in Workers :
       /\ Others(w)
       /\ \/ Starts(w) \/ Decides(w) \/ Works(w) \/ Passes(w) \/ Leaves(w)
          \/ \E i \in Ids : Inserts(w, i)
  \/ Marks \/ (\E i \in Ids : Deletes(i)) \/ Dies \/ Rests

-----------------------------------------------------------------------------
(* Lemmas about the invariant *)

\* A coroutine that sees a success has stored the device, or shared its row.
LEMMA SeenStored ==
  ASSUME OutcomeInv, NEW w \in Workers, pc[w] = "count", SeesSuccess(w)
  PROVE  Slot(w) \in Slots /\ DoneWell(w, idx[w])
<1>1. Slot(w) \in Slots /\ idx[w] \in 1 .. MaxItems
  <2>1. Slot(w) \in Slots
    BY SlotInSlots DEF OutcomeInv, BackedInv, Working
  <2> QED BY <2>1 DEF Slot, Slots
<1>2. CASE Slot(w) \in shared
  BY <1>1, <1>2 DEF DoneWell, Slot
<1>3. CASE Slot(w) \notin shared
  <2>1. /\ cur[w] \in Ids /\ HeldAt(w) /\ BackedAt(w) /\ RowBacked(cur[w])
        /\ rows[cur[w]].st # "absent" => rows[cur[w]].st = "success"
    BY <1>3 DEF OutcomeInv, HeldAt, Alone, SeesSuccess, RowThere, BackedInv, TypeInv, TypeOK
  <2>2. stored[Slot(w)] # {}
    <3>1. CASE res[w] = "ok"
      BY <2>1, <3>1 DEF HeldAt
    <3>2. CASE res[w] # "ok"
      <4>1. rows[cur[w]].st = "success" /\ cur[w] # 0
        BY <3>2 DEF SeesSuccess, RowThere
      <4>2. rows[cur[w]].owner = Slot(w)
        BY <1>3, <2>1, <4>1 DEF BackedAt, Mine, Working
      <4> QED BY <1>3, <2>1, <4>1, <4>2 DEF RowBacked
    <3> QED BY <3>1, <3>2
  <2>3. ASSUME NEW i \in Ids, rows[i].owner = Slot(w) PROVE rows[i].st = "success"
    <3>1. i = cur[w]
      BY <1>1, <2>3 DEF OutcomeInv, OwnedAt, Active, Working, Slot, BackedInv, TypeInv, TypeOK
    <3>2. rows[i].st # "absent"
      <4>1. rows[i].st = "absent" => rows[i].owner = NoSlot
        BY DEF OutcomeInv, RowDecided, AbsentRow
      <4> QED BY <1>1, <2>3, <4>1, BoundAssumption
    <3> QED BY <2>1, <3>1, <3>2
  <2> QED BY <1>1, <2>2, <2>3 DEF DoneWell, Slot
<1> QED BY <1>1, <1>2, <1>3

\* A row that a step of w may change: none, one of the current slot of w, or one that
\* is shared.
OwnRows(w) ==
  \A i \in Ids : \/ rows'[i] = rows[i]
                 \/ /\ pc[w] \in Active
                    /\ \/ rows[i].st = "absent" /\ rows'[i].owner = Slot(w)
                       \/ /\ rows'[i].owner = rows[i].owner
                          /\ rows[i].owner \in {Slot(w)} \union shared'

Grows == (\A s \in Slots : stored[s] \subseteq stored'[s]) /\ shared \subseteq shared'

LEMMA DoneStays ==
  ASSUME OutcomeInv, NEW w \in Workers, NEW v \in Workers, NEW n \in 1 .. MaxItems,
         DoneWell(w, n), OwnRows(v), Grows,
         w = v /\ pc[w] \in Active => n < idx[w]
  PROVE  DoneWell(w, n)'
<1>1. <<w, n>> \in Slots
  BY DEF Slots
<1>2. idx[v] \in Nat
  BY DEF OutcomeInv, BackedInv, TypeInv, TypeOK
<1>3. pc[v] \in Active => <<w, n>> # Slot(v)
  BY <1>2 DEF Slot
<1> QED BY <1>1, <1>3 DEF DoneWell, OwnRows, Grows

\* A step of w, seen from another coroutine.
LEMMA OutcomeElsewhere ==
  ASSUME OutcomeInv, BackedInv', NEW w \in Workers, NEW v \in Workers \ {w}, Others(w),
         OwnRows(w), Grows,
         \A s \in Slots : resolved'[s] = resolved[s] \/ s = Slot(w)
  PROVE  /\ HeldAt(v)' /\ Accounted(v)' /\ OwnedAt(v)'
         /\ v \in Jobs => SoFar(v)'
<1>0. SameLocals(v) /\ res'[v] = res[v] /\ tally'[v] = tally[v] /\ runs'[v] = runs[v] /\ BackedAt(v)
  BY DEF Others, OutcomeInv, BackedInv
<1>1. ASSUME pc[v] \in Working, cur[v] # 0, Alone(v)'
      PROVE  cur[v] \in Ids /\ rows'[cur[v]] = rows[cur[v]] /\ Alone(v)
  <2>1. Slot(v)' = Slot(v) /\ Slot(v) # Slot(w) /\ cur'[v] = cur[v] /\ pc'[v] = pc[v] /\ cur[v] \in Ids
    BY <1>0, <1>1 DEF Slot, SameLocals, OutcomeInv, BackedInv, TypeInv, TypeOK
  <2>2. Mine(v)'
    BY <1>1, <2>1 DEF BackedInv, BackedAt
  <2>3. rows'[cur[v]].owner = Slot(v) /\ Slot(v) \notin shared'
    BY <1>1, <2>1, <2>2 DEF Mine, Alone
  <2>4. rows'[cur[v]] = rows[cur[v]]
    BY <2>1, <2>3 DEF OwnRows
  <2> QED BY <1>1, <2>1, <2>3, <2>4 DEF Alone, Grows
<1>2. HeldAt(v)'
  <2>1. ASSUME pc[v] \in Working PROVE Slot(v) \in Slots /\ Slot(v)' = Slot(v)
    BY <1>0, <2>1, SlotInSlots DEF OutcomeInv, BackedInv, SameLocals, Slot
  <2> QED BY <1>0, <1>1, <2>1 DEF OutcomeInv, HeldAt, SameLocals, Undecided, Working, Grows
<1>3. Accounted(v)'
  <2>1. CASE pc[v] \in Undecided \ {"fetch"}
    <3>1. Slot(v) \in Slots /\ Slot(v)' = Slot(v) /\ Slot(v) # Slot(w)
      BY <1>0, <2>1, SlotInSlots DEF OutcomeInv, BackedInv, SameLocals, Slot, Undecided, Working
    <3>2. resolved'[Slot(v)] = resolved[Slot(v)] /\ stored[Slot(v)] \subseteq stored'[Slot(v)]
      BY <3>1 DEF Grows
    <3> QED BY <1>0, <3>1, <3>2 DEF OutcomeInv, Accounted, SameLocals
  <2>2. CASE pc[v] \notin Undecided \ {"fetch"}
    BY <1>0, <2>2 DEF Accounted, SameLocals
  <2> QED BY <2>1, <2>2
<1>4. OwnedAt(v)'
  <2>1. \A i \in Ids, n \in 1 .. MaxItems : rows'[i].owner = <<v, n>> => rows[i].owner = <<v, n>>
    BY DEF OwnRows, Slot
  <2> QED BY <1>0, <2>1 DEF OutcomeInv, OwnedAt, SameLocals
<1>5. ASSUME v \in Jobs PROVE SoFar(v)'
  <2>1. Len(Targets[v]) \in Nat /\ MaxItems \in Nat /\ Len(Targets[v]) <= MaxItems
    BY Lengths
  <2>2. idx[v] \in 1 .. MaxItems + 1
    BY DEF OutcomeInv, BackedInv, TypeInv, TypeOK
  <2>3. \A n \in 1 .. MaxItems : DoneWell(v, n) => DoneWell(v, n)'
    BY DoneStays
  <2>4. SoFar(v)
    BY <1>5 DEF OutcomeInv
  <2> QED BY <1>0, <2>1, <2>2, <2>3, <2>4 DEF SoFar, SameLocals
<1> QED BY <1>2, <1>3, <1>4, <1>5

\* The rows that the step leaves alone.
LEMMA DecidedSame ==
  ASSUME OutcomeInv, NEW i \in Ids, rows'[i] = rows[i], Grows,
         rows[i].content = rows[i].owner /\ rows[i].owner # NoSlot /\ rows[i].owner \notin shared =>
           resolved'[rows[i].owner] = resolved[rows[i].owner]
  PROVE  RowDecided(i)'
<1>1. RowDecided(i) /\ RowBacked(i)
  BY DEF OutcomeInv, BackedInv
<1> QED BY <1>1 DEF RowDecided, RowBacked, Grows

-----------------------------------------------------------------------------
(* Each kind of step keeps the invariant *)

\* What is left to show of a step of w.
LEMMA OutcomeOne ==
  ASSUME OutcomeInv, CountInv', BackedInv', NEW w \in Workers, Others(w), OwnRows(w),
         Grows, \A s \in Slots : resolved'[s] = resolved[s] \/ s = Slot(w),
         HeldAt(w)', Accounted(w)', OwnedAt(w)', w \in Jobs => SoFar(w)',
         \A i \in Ids : RowDecided(i)'
  PROVE  OutcomeInv'
<1>1. \A v \in Workers : HeldAt(v)' /\ Accounted(v)' /\ OwnedAt(v)'
  BY OutcomeElsewhere
<1>2. \A v \in Jobs : SoFar(v)'
  BY OutcomeElsewhere, WorkerAssumption
<1> QED BY <1>1, <1>2 DEF OutcomeInv

\* The numbers of a coroutine.
LEMMA Indices ==
  ASSUME OutcomeInv, NEW w \in Workers
  PROVE  /\ idx[w] \in 1 .. MaxItems + 1 /\ cur[w] \in Ids \union {0}
         /\ MaxItems \in Nat /\ Len(Targets[w]) \in Nat /\ Len(Targets[w]) <= MaxItems
         /\ BackedAt(w) /\ HeldAt(w) /\ Accounted(w) /\ OwnedAt(w)
         /\ w \in Jobs => SoFar(w) /\ CountedAt(w)
BY Lengths DEF OutcomeInv, BackedInv, TypeInv, TypeOK, CountInv

LEMMA StartsKeeps ==
  ASSUME OutcomeInv, CountInv', BackedInv', NEW w \in Workers, Others(w), Starts(w)
  PROVE  OutcomeInv'
<1>1. OwnRows(w) /\ \A i \in Ids : RowDecided(i)'
  BY DecidedSame DEF Starts, SameObservers, OwnRows, Grows
<1>2. HeldAt(w)' /\ Accounted(w)'
  BY DEF Starts, HeldAt, Accounted, Undecided
<1>3. OwnedAt(w)'
  BY Indices DEF Starts, OwnedAt
<1>4. w \in Jobs => SoFar(w)'
  BY Indices DEF Starts, SoFar, CountedAt
<1> QED BY <1>1, <1>2, <1>3, <1>4, OutcomeOne DEF Starts, SameObservers, Grows

LEMMA PassesKeeps ==
  ASSUME OutcomeInv, CountInv', BackedInv', NEW w \in Workers, Others(w), Passes(w)
  PROVE  OutcomeInv'
<1>1. OwnRows(w) /\ \A i \in Ids : RowDecided(i)'
  BY DecidedSame DEF Passes, SameObservers, OwnRows, Grows
<1>2. HeldAt(w)' /\ Accounted(w)'
  BY DEF Passes, HeldAt, Accounted, Undecided
<1>3. OwnedAt(w)'
  BY Indices DEF Passes, OwnedAt, Active, Working
<1>4. ASSUME w \in Jobs PROVE SoFar(w)'
  <2>1. ~(runs'[w].st = "completed")
    BY <1>4, Indices DEF Passes, CountedAt, Finished
  <2>2. \A n \in 1 .. MaxItems : DoneWell(w, n) => DoneWell(w, n)'
    BY DEF Passes, SameObservers, DoneWell
  <2>3. idx[w] <= MaxItems + 1 /\ idx[w] \in Nat /\ idx'[w] = idx[w] + 1 /\ MaxItems \in Nat
    BY Indices DEF Passes
  <2>4. idx'[w] <= MaxItems + 1
    BY DEF BackedInv, TypeInv, TypeOK
  <2>5. tally'[w].fail = 0 => \A n \in 1 .. idx[w] : DoneWell(w, n)
    <3>1. tally'[w].fail = 0 => tally[w].fail = 0 /\ DoneWell(w, idx[w])
      BY <1>4 DEF Passes
    <3>2. tally[w].fail = 0 => \A n \in 1 .. idx[w] - 1 : DoneWell(w, n)
      BY <1>4, Indices DEF Passes, SoFar, Active, Working
    <3> QED BY <2>3, <3>1, <3>2
  <2>6. tally'[w].fail = 0 => \A n \in 1 .. idx'[w] - 1 : DoneWell(w, n)'
    <3>1. \A n \in 1 .. idx'[w] - 1 : n \in 1 .. idx[w] /\ n \in 1 .. MaxItems
      BY <2>3, <2>4
    <3> QED BY <2>2, <2>5, <3>1
  <2> QED BY <2>1, <2>6 DEF SoFar
<1> QED BY <1>1, <1>2, <1>3, <1>4, OutcomeOne DEF Passes, SameObservers, Grows

LEMMA LeavesKeeps ==
  ASSUME OutcomeInv, CountInv', BackedInv', NEW w \in Workers, Others(w), Leaves(w)
  PROVE  OutcomeInv'
<1>1. OwnRows(w) /\ \A i \in Ids : RowDecided(i)'
  BY DecidedSame DEF Leaves, SameObservers, OwnRows, Grows
<1>2. HeldAt(w)' /\ Accounted(w)'
  BY DEF Leaves, HeldAt, Accounted, Undecided
<1>3. OwnedAt(w)'
  BY Indices DEF Leaves, OwnedAt, Active, Working
<1>4. ASSUME w \in Jobs PROVE SoFar(w)'
  <2>1. \A n \in 1 .. Len(Targets[w]) : DoneWell(w, n) => DoneWell(w, n)'
    BY DEF Leaves, SameObservers, DoneWell
  <2>2. runs'[w].st = "completed" => \A n \in 1 .. Len(Targets[w]) : DoneWell(w, n)
    BY <1>4, Indices DEF Leaves, SoFar
  <2> QED BY <2>1, <2>2 DEF Leaves, SoFar, Active, Working
<1> QED BY <1>1, <1>2, <1>3, <1>4, OutcomeOne DEF Leaves, SameObservers, Grows

\* What a job has counted stays done well, if its failures and its row stay as they are.
LEMMA SoFarStays ==
  ASSUME OutcomeInv, NEW w \in Jobs, OwnRows(w), pc[w] \in Active, Grows,
         idx'[w] = idx[w], tally'[w].fail = tally[w].fail, runs'[w].st = runs[w].st
  PROVE  SoFar(w)'
<1>1. w \in Workers
  BY WorkerAssumption
<1>2. ~(runs'[w].st = "completed")
  BY <1>1, Indices DEF CountedAt, Finished, Active, Working
<1>3. \A n \in 1 .. idx[w] - 1 : n \in 1 .. MaxItems /\ n < idx[w]
  BY <1>1, Indices
<1>4. \A n \in 1 .. idx[w] - 1 : DoneWell(w, n) => DoneWell(w, n)'
  BY <1>1, <1>3, DoneStays
<1> QED BY <1>1, <1>2, <1>4, Indices DEF SoFar

LEMMA WorksKeeps ==
  ASSUME OutcomeInv, CountInv', BackedInv', NEW w \in Workers, Others(w), Works(w)
  PROVE  OutcomeInv'
<1>1. OwnRows(w)
  BY DEF Works, OwnRows
<1>2. \A i \in Ids : RowDecided(i)'
  <2> SUFFICES ASSUME NEW i \in Ids, rows[i].content = rows[i].owner, rows[i].owner # NoSlot,
                      rows[i].owner \notin shared
               PROVE  resolved'[rows[i].owner] = resolved[rows[i].owner]
    BY DecidedSame DEF Works, Grows
  <2>1. rows[i].owner \in Slots
    BY DEF OutcomeInv, BackedInv, TypeInv, TypeOK, Row
  <2>2. CASE rows[i].owner = Slot(w) /\ pc[w] = "fetch"
    <3>1. idx[w] \in 1 .. MaxItems
      BY <2>1, <2>2 DEF Slot, Slots
    <3>2. cur[w] = i
      BY <2>2, <3>1, Indices DEF OwnedAt, Slot, Active, Working
    <3>3. rows[i].st # "absent" /\ Slot(w) \notin shared => rows[i].content = NoSlot
      BY <2>2, <3>2, Indices DEF HeldAt, Alone, Undecided
    <3>4. rows[i].st = "absent" => rows[i].owner = NoSlot
      BY DEF OutcomeInv, RowDecided, AbsentRow
    <3> QED BY <2>1, <2>2, <3>3, <3>4
  <2>3. CASE ~(rows[i].owner = Slot(w) /\ pc[w] = "fetch")
    BY <2>1, <2>3 DEF Works
  <2> QED BY <2>2, <2>3
<1>3. OwnedAt(w)'
  BY Indices DEF Works, OwnedAt, Active, Working
<1>4. w \in Jobs => SoFar(w)'
  BY <1>1, SoFarStays DEF Works, Grows
<1> QED BY <1>1, <1>2, <1>3, <1>4, OutcomeOne DEF Works, Grows

LEMMA InsertsKeeps ==
  ASSUME OutcomeInv, CountInv', BackedInv', NEW w \in Workers, Others(w),
         NEW i \in Ids, Inserts(w, i)
  PROVE  OutcomeInv'
<1>1. PICK st \in {"in_progress", "failed"}, m \in {"none", "error"} :
        /\ rows' = [rows EXCEPT ![i] = NewRow(Slot(w), st, m)]
        /\ pc'[w] = "fetch" => st = "in_progress"
        /\ pc'[w] \in {"fetch", "notify"} /\ (pc'[w] = "notify" => res'[w] = "reread")
  BY DEF Inserts
<1>2. /\ rows'[i].owner = Slot(w) /\ rows'[i].st = st /\ rows'[i].content = NoSlot
      /\ \A k \in Ids \ {i} : rows'[k] = rows[k]
  BY <1>1 DEF OutcomeInv, BackedInv, TypeInv, TypeOK, NewRow, AbsentRow
<1>3. pc[w] = "device" /\ Slot(w) \in Slots /\ i # 0
  BY SlotInSlots DEF Inserts, OutcomeInv, BackedInv, Ids
<1>4. OwnRows(w)
  BY <1>2, <1>3 DEF OwnRows, Inserts, Active
<1>g. Grows /\ resolved' = resolved
  BY DEF Inserts, Grows
<1>5. \A k \in Ids : RowDecided(k)'
  <2>1. RowDecided(i)'
    BY <1>1, <1>2, <1>3, BoundAssumption DEF RowDecided
  <2>2. \A k \in Ids \ {i} : RowDecided(k)'
    BY <1>2, <1>g, DecidedSame
  <2> QED BY <2>1, <2>2
<1>6. HeldAt(w)' /\ Accounted(w)'
  BY <1>1, <1>2, <1>3 DEF HeldAt, Alone, Accounted, Undecided, Inserts
<1>7. OwnedAt(w)'
  <2> SUFFICES ASSUME NEW k \in Ids, NEW n \in 1 .. MaxItems, rows'[k].owner = <<w, n>>
               PROVE  n < idx[w] \/ (n = idx[w] /\ k = i)
    BY <1>1, Indices DEF OwnedAt, Inserts, Working
  <2>1. CASE k = i
    BY <1>2, <2>1 DEF Slot
  <2>2. CASE k # i
    BY <1>2, <1>3, <2>2, Indices DEF OwnedAt, Active, Working
  <2> QED BY <2>1, <2>2
<1>8. w \in Jobs => SoFar(w)'
  BY <1>3, <1>4, <1>g, SoFarStays DEF Inserts, Active
<1> QED BY <1>4, <1>g, <1>5, <1>6, <1>7, <1>8, OutcomeOne

LEMMA DecidesKeeps ==
  ASSUME OutcomeInv, CountInv', BackedInv', NEW w \in Workers, Others(w), Decides(w)
  PROVE  OutcomeInv'
<1>1. PICK r \in Row :
        /\ rows' = [rows EXCEPT ![cur[w]] = r]
        /\ r.owner = rows[cur[w]].owner /\ r.owner \in {Slot(w)} \union shared
        /\ r.st \in {"success", "failed"}
        /\ res'[w] = "ok" => r.st = "success" /\ stored[Slot(w)] # {}
        /\ r.owner \notin shared /\ r.content = Slot(w) /\ r.msg # "fallback" =>
             resolved[Slot(w)] \subseteq stored[Slot(w)] \union r.named
  BY DEF Decides
<1>2. /\ pc[w] \in Undecided /\ pc[w] \in Working /\ cur[w] \in Ids /\ cur[w] # 0
      /\ SameObservers /\ Grows
  BY Indices DEF Decides, HeldAt, Undecided, Working, SameObservers, Grows
<1>3. rows'[cur[w]] = r /\ \A k \in Ids \ {cur[w]} : rows'[k] = rows[k]
  BY <1>1, <1>2 DEF OutcomeInv, BackedInv, TypeInv, TypeOK
<1>4. OwnRows(w)
  BY <1>1, <1>2, <1>3 DEF OwnRows, Active, SameObservers
<1>5. \A k \in Ids : RowDecided(k)'
  <2>1. ASSUME NEW k \in Ids, k = cur[w] PROVE RowDecided(k)'
    BY <1>1, <1>2, <1>3, <2>1 DEF RowDecided, SameObservers
  <2>2. ASSUME NEW k \in Ids, k # cur[w] PROVE RowDecided(k)'
    BY <1>2, <1>3, <2>2, DecidedSame DEF SameObservers
  <2> QED BY <2>1, <2>2
<1>6. HeldAt(w)' /\ Accounted(w)'
  BY <1>1, <1>2, <1>3 DEF HeldAt, Alone, Accounted, Undecided, Decides, SameObservers, Slot
<1>7. OwnedAt(w)'
  <2> SUFFICES ASSUME NEW k \in Ids, NEW n \in 1 .. MaxItems, rows'[k].owner = <<w, n>>
               PROVE  n < idx[w] \/ (n = idx[w] /\ k = cur[w])
    BY <1>2 DEF OwnedAt, Decides, Working
  <2>1. rows[k].owner = <<w, n>>
    BY <1>1, <1>2, <1>3
  <2> QED BY <1>2, <2>1, Indices DEF OwnedAt, Active
<1>8. w \in Jobs => SoFar(w)'
  BY <1>2, <1>4, SoFarStays DEF Decides, Active
<1> QED BY <1>2, <1>4, <1>5, <1>6, <1>7, <1>8, OutcomeOne DEF SameObservers

\* Steps of nobody's coroutine.
LEMMA RestsKeeps ==
  ASSUME OutcomeInv, CountInv', BackedInv', Rests
  PROVE  OutcomeInv'
<1>1. \A w \in Workers : HeldAt(w)' /\ Accounted(w)' /\ OwnedAt(w)'
  BY DEF Rests, SameMemory, memory, observers, OutcomeInv, HeldAt, Alone, Accounted, OwnedAt, Slot
<1>2. \A i \in Ids : RowDecided(i)'
  BY DEF Rests, SameMemory, memory, observers, OutcomeInv, RowDecided
<1>3. \A w \in Jobs : SoFar(w)'
  BY DEF Rests, SameMemory, memory, observers, OutcomeInv, SoFar, DoneWell
<1> QED BY <1>1, <1>2, <1>3 DEF OutcomeInv

LEMMA DiesKeeps ==
  ASSUME OutcomeInv, CountInv', BackedInv', Dies
  PROVE  OutcomeInv'
<1>1. \A w \in Workers : HeldAt(w)' /\ Accounted(w)' /\ OwnedAt(w)'
  BY DEF Dies, SameObservers, OutcomeInv, HeldAt, Alone, Accounted, OwnedAt, Undecided, Stopped, Active, Working
<1>2. \A i \in Ids : RowDecided(i)'
  BY DEF Dies, SameObservers, OutcomeInv, RowDecided
<1>3. \A w \in Jobs : SoFar(w)'
  BY WorkerAssumption DEF Dies, SameObservers, OutcomeInv, SoFar, DoneWell, Stopped, Active, Working
<1> QED BY <1>1, <1>2, <1>3 DEF OutcomeInv

\* Rows that lose nothing but what is not theirs.
LEMMA MarksKeeps ==
  ASSUME OutcomeInv, CountInv', BackedInv', Marks
  PROVE  OutcomeInv'
<1> USE DEF SameMemory, memory, observers
<1>1. \A w \in Workers : HeldAt(w)'
  <2> SUFFICES ASSUME NEW w \in Workers PROVE HeldAt(w)'
    OBVIOUS
  <2>1. cur[w] # 0 => cur[w] \in Ids
    BY Indices
  <2> QED BY <2>1, Indices DEF Marks, HeldAt, Alone, Slot
<1>2. \A w \in Workers : Accounted(w)'
  BY DEF Marks, OutcomeInv, Accounted, Slot
<1>3. \A w \in Workers : OwnedAt(w)'
  BY DEF Marks, OutcomeInv, OwnedAt
<1>4. \A i \in Ids : RowDecided(i)'
  <2> SUFFICES ASSUME NEW i \in Ids PROVE RowDecided(i)'
    OBVIOUS
  <2>1. RowDecided(i) /\ RowBacked(i)
    BY DEF OutcomeInv, BackedInv
  <2>2. CASE rows'[i] = rows[i]
    BY <2>2, DecidedSame DEF Marks, Grows
  <2>3. CASE rows'[i] # rows[i]
    <3>1. /\ rows'[i].st = "failed" /\ rows'[i].content = NoSlot /\ rows'[i].owner \in Slots
      BY <2>1, <2>3 DEF Marks, RowDecided, RowBacked
    <3> QED BY <3>1, BoundAssumption DEF RowDecided
  <2> QED BY <2>2, <2>3
<1>5. \A w \in Jobs : SoFar(w)'
  <2>1. \A w, n : DoneWell(w, n) => DoneWell(w, n)'
    BY DEF Marks, DoneWell
  <2> QED BY <2>1 DEF Marks, OutcomeInv, SoFar
<1> QED BY <1>1, <1>2, <1>3, <1>4, <1>5 DEF OutcomeInv

LEMMA DeletesKeeps ==
  ASSUME OutcomeInv, CountInv', BackedInv', NEW i \in Ids, Deletes(i)
  PROVE  OutcomeInv'
<1> USE DEF SameMemory, memory, observers
<1>0. /\ rows'[i] = AbsentRow /\ rows'[i].owner = NoSlot /\ rows'[i].st = "absent"
      /\ \A k \in Ids \ {i} : rows'[k] = rows[k]
  BY DEF Deletes, AbsentRow, OutcomeInv, BackedInv, TypeInv, TypeOK
<1>1. \A w \in Workers : HeldAt(w)'
  <2> SUFFICES ASSUME NEW w \in Workers PROVE HeldAt(w)'
    OBVIOUS
  <2>1. cur[w] # 0 => cur[w] \in Ids
    BY Indices
  <2> QED BY <1>0, <2>1, Indices DEF Deletes, HeldAt, Alone, Slot
<1>2. \A w \in Workers : Accounted(w)'
  BY DEF Deletes, OutcomeInv, Accounted, Slot
<1>3. \A w \in Workers : OwnedAt(w)'
  <2>1. \A w \in Workers, n \in 1 .. MaxItems : <<w, n>> # NoSlot
    BY BoundAssumption DEF Slots
  <2>2. \A w \in Workers, k \in Ids, n \in 1 .. MaxItems :
          rows'[k].owner = <<w, n>> => rows[k].owner = <<w, n>>
    BY <1>0, <2>1
  <2> QED BY <2>2 DEF Deletes, OutcomeInv, OwnedAt
<1>4. \A k \in Ids : RowDecided(k)'
  <2>1. RowDecided(i)'
    BY <1>0 DEF RowDecided
  <2>2. \A k \in Ids \ {i} : RowDecided(k)'
    BY <1>0, DecidedSame DEF Deletes, Grows
  <2> QED BY <2>1, <2>2
<1>5. \A w \in Jobs : SoFar(w)'
  <2> SUFFICES ASSUME NEW w \in Jobs PROVE SoFar(w)'
    OBVIOUS
  <2>1. \A n \in 1 .. MaxItems : <<w, n>> # NoSlot
    BY BoundAssumption, WorkerAssumption DEF Slots
  <2>2. \A n \in 1 .. MaxItems : DoneWell(w, n) => DoneWell(w, n)'
    BY <1>0, <2>1 DEF Deletes, DoneWell
  <2>3. (\A n \in 1 .. Len(Targets[w]) : n \in 1 .. MaxItems) /\ \A n \in 1 .. idx[w] - 1 : n \in 1 .. MaxItems
    BY WorkerAssumption, Indices
  <2> QED BY <2>2, <2>3 DEF Deletes, OutcomeInv, SoFar
<1> QED BY <1>1, <1>2, <1>3, <1>4, <1>5 DEF OutcomeInv

LEMMA KindKeeps ==
  ASSUME OutcomeInv, CountInv', BackedInv', OutcomeKind
  PROVE  OutcomeInv'
BY StartsKeeps, PassesKeeps, LeavesKeeps, WorksKeeps, InsertsKeeps, DecidesKeeps,
   RestsKeeps, DiesKeeps, MarksKeeps, DeletesKeeps
DEF OutcomeKind

-----------------------------------------------------------------------------
(* Every step is of a kind *)

LEMMA RecordSession ==
  ASSUME CountInv, NEW w \in Workers, NEW i \in Ids, NEW d \in Dests \union {NoDest},
         NEW committed \in [Workers -> RunRow],
         \A v \in Workers \ {w} : committed[v] = runs[v],
         w \in Jobs => /\ committed[w].st = runs[w].st
                       /\ committed[w].succ = tally[w].succ
                       /\ committed[w].fail = tally[w].fail,
         RecordFailure(w, i, d, committed)
  PROVE  /\ \A v \in Workers \ {w} : runs'[v] = runs[v] /\ tally'[v] = tally[v]
         /\ w \in Jobs => runs'[w].st = runs[w].st /\ tally'[w].fail = tally[w].fail
<1>1. TypeInv
  BY DEF CountInv
<1> QED BY <1>1, RecordOthers, RecordOwn

LEMMA TaskLists ==
  ASSUME NEW t \in Task, NEW d \in Dests
  PROVE  /\ Accepted(t, d).todo = t.todo \ {d} /\ Accepted(t, d).errs = t.errs
         /\ Refused(t, d).todo = t.todo \ {d} /\ Refused(t, d).errs = t.errs \union {d}
         /\ PassedOver(t, d).todo = t.todo \ {d} /\ PassedOver(t, d).errs = t.errs
         /\ TriedAgain(t).todo = t.todo /\ TriedAgain(t).errs = t.errs
         /\ FallingBack(t, d).todo = t.todo /\ FallingBack(t, d).errs = t.errs
         /\ FellBack(t).todo = t.todo /\ FellBack(t).errs = t.errs
         /\ Accepted(t, d).kind = t.kind /\ Refused(t, d).kind = t.kind
         /\ PassedOver(t, d).kind = t.kind /\ TriedAgain(t).kind = t.kind
         /\ FallingBack(t, d).kind = t.kind /\ FellBack(t).kind = t.kind
BY DEF Task, Accepted, Refused, PassedOver, TriedAgain, FallingBack, FellBack

LEMMA FailedRowTexts ==
  ASSUME NEW r \in Row, NEW s, NEW message, NEW names
  PROVE  /\ FailedRow(r, s, message, names).content = s
         /\ FailedRow(r, s, message, names).msg = message
         /\ FailedRow(r, s, message, names).named = names
BY DEF Row, FailedRow

LEMMA WrittenRowTexts ==
  ASSUME NEW r \in Row, NEW s, NEW S, NEW message, NEW names
  PROVE  /\ WrittenRow(r, s, S, message, names).msg = message
         /\ WrittenRow(r, s, S, message, names).named = names
BY DEF Row, WrittenRow

\* An exception out of run_backup_for_device.
LEMMA RaiseKind ==
  ASSUME OutcomeInv, NEW w \in Workers, pc[w] \in Active, HasDevice(w), Raise(w),
         rows' = rows, runs' = runs, SameObservers
  PROVE  Others(w) /\ (Works(w) \/ Leaves(w))
<1>1. TypeOK
  BY DEF OutcomeInv, BackedInv, TypeInv
<1>2. CASE w \in Jobs
  <2>1. Others(w)
    BY <1>1, <1>2 DEF Raise, Goto, Result, TypeOK, Others, SameLocals
  <2>2. Works(w)
    BY <1>1, <1>2 DEF Raise, Goto, Result, TypeOK, Works, SameObservers, HeldAt, Accounted,
                      Undecided, Working
  <2> QED BY <2>1, <2>2
<1>3. CASE w \notin Jobs
  BY <1>1, <1>3 DEF Raise, Goto, Forget, TypeOK, Others, SameLocals, Leaves
<1> QED BY <1>2, <1>3

\* A step of w that writes no row and stays within the backup of the device.
LEMMA WorksOn ==
  ASSUME OutcomeInv, NEW w \in Workers, pc[w] \in Active, HasDevice(w), NEW label \in Working,
         Goto(w, label) \/ (pc' = pc /\ pc[w] = label), rows' = rows, idx' = idx, cur' = cur,
         \A v \in Workers \ {w} : /\ task'[v] = task[v] /\ res'[v] = res[v]
                                  /\ tally'[v] = tally[v] /\ runs'[v] = runs[v],
         w \in Jobs => tally'[w].fail = tally[w].fail /\ runs'[w].st = runs[w].st,
         shared' = shared, \A s \in Slots : stored[s] \subseteq stored'[s],
         \A s \in Slots : resolved'[s] = resolved[s] \/ (s = Slot(w) /\ pc[w] = "fetch"),
         HeldAt(w)', Accounted(w)'
  PROVE  Others(w) /\ Works(w)
<1>1. pc'[w] = label /\ \A v \in Workers \ {w} : pc'[v] = pc[v]
  BY DEF Goto, OutcomeInv, BackedInv, TypeInv, TypeOK
<1> QED BY <1>1 DEF Others, SameLocals, Works

LEMMA CoroutineKind ==
  ASSUME OutcomeInv, NEW w \in Workers, StartRun(w) \/ Progress(w)
  PROVE  OutcomeKind
<1> DEFINE MyKind == Others(w) /\ (\/ Starts(w) \/ Decides(w) \/ Works(w) \/ Passes(w) \/ Leaves(w)
                                   \/ \E i \in Ids : Inserts(w, i))
<1> SUFFICES MyKind
  BY DEF OutcomeKind
<1>0. TypeInv /\ TypeOK /\ CountInv /\ (pc[w] \in Working \/ HasDevice(w) => Slot(w) \in Slots)
  BY SlotInSlots DEF OutcomeInv, BackedInv, TypeInv
<1>1. /\ pc[w] \in Working => HasDevice(w)
      /\ cur[w] \in Ids \union {0}
      /\ task[w] \in Task
  BY <1>0 DEF TypeInv, TypeOK, Position, HasDevice
<1>2. BackedAt(w) /\ HeldAt(w) /\ Accounted(w) /\ (w \in Jobs => CountedAt(w))
  BY Indices
<1>3. Flushed(w) \in [Workers -> RunRow]
  BY <1>0, FlushTypes
<1>4. /\ Flushed(w)[w].st = runs[w].st
      /\ Flushed(w)[w].succ = tally[w].succ /\ Flushed(w)[w].fail = tally[w].fail
      /\ \A v \in Workers \ {w} : Flushed(w)[v] = runs[v]
  BY <1>0, FlushCounts
<1> HIDE DEF MyKind
<1> USE DEF TypeOK, Active, Working
<1>StartRun. CASE StartRun(w)
  <2> USE <1>0, <1>StartRun DEF StartRun, Goto, database, memory, observers
  <2>1. Others(w)
    BY DEF Others, SameLocals
  <2>2. Starts(w)
    BY DEF Starts, SameObservers, RunRow
  <2> QED BY <2>1, <2>2 DEF MyKind
<1>SkipDevice. CASE SkipDevice(w)
  <2> USE <1>0, <1>SkipDevice DEF SkipDevice, CountFailed, database, memory, observers
  <2>1. Others(w)
    BY DEF Others, SameLocals
  <2>2. tally'[w].fail # 0
    BY DEF CountedIn
  <2>3. Passes(w)
    BY <2>2 DEF Passes, SameObservers
  <2> QED BY <2>1, <2>3 DEF MyKind
<1>UnknownEngine. CASE UnknownEngine(w)
  BY <1>UnknownEngine, RaiseKind DEF UnknownEngine, database, observers, SameObservers, MyKind
<1>NoCredential. CASE NoCredential(w)
  <2>1. PICK i \in Ids : InsertRow(w, i, "failed", "error") /\ RecordFailure(w, i, NoDest, Flushed(w))
    BY <1>NoCredential DEF NoCredential, Inserted
  <2>2. /\ \A v \in Workers \ {w} : runs'[v] = runs[v] /\ tally'[v] = tally[v]
        /\ w \in Jobs => runs'[w].st = runs[w].st /\ tally'[w].fail = tally[w].fail
    BY <1>0, <1>3, <1>4, <2>1, RecordSession
  <2>3. Others(w)
    BY <1>0, <1>NoCredential, <2>1, <2>2 DEF NoCredential, InsertRow, Goto, Result, Others, SameLocals
  <2>4. rows[i].st = "absent"
    BY <2>1 DEF InsertRow, NextId, Ids
  <2>5. Inserts(w, i)
    BY <1>0, <1>NoCredential, <2>1, <2>2, <2>4
    DEF NoCredential, InsertRow, Goto, Result, Inserts, SameObservers, observers
  <2> QED BY <2>3, <2>5 DEF MyKind
<1>BeginBackup. CASE BeginBackup(w)
  <2>1. PICK i \in Ids : InsertRow(w, i, "in_progress", "none")
    BY <1>BeginBackup DEF BeginBackup
  <2>2. Others(w)
    BY <1>0, <1>4, <1>BeginBackup, <2>1 DEF BeginBackup, InsertRow, Inserted, Goto, Others, SameLocals
  <2>3. rows[i].st = "absent"
    BY <2>1 DEF InsertRow, NextId, Ids
  <2>4. Inserts(w, i)
    BY <1>0, <1>4, <1>BeginBackup, <2>1, <2>3
    DEF BeginBackup, InsertRow, Inserted, Goto, Inserts, SameObservers, observers
  <2> QED BY <2>2, <2>4 DEF MyKind
<1>FetchFails. CASE FetchFails(w)
  <2>1. /\ cur[w] \in Ids /\ cur[w] # 0 /\ pc[w] = "fetch" /\ rows[cur[w]].st # "absent"
        /\ RecordFailure(w, cur[w], NoDest, Flushed(w))
    BY <1>1, <1>FetchFails DEF FetchFails, RowThere
  <2>2. PICK i \in Ids : i = cur[w]
    BY <2>1
  <2>3. RecordFailure(w, i, NoDest, Flushed(w))
    BY <2>1, <2>2
  <2>4. /\ \A v \in Workers \ {w} : runs'[v] = runs[v] /\ tally'[v] = tally[v]
        /\ w \in Jobs => runs'[w].st = runs[w].st /\ tally'[w].fail = tally[w].fail
    BY <1>0, <1>3, <1>4, <2>3, RecordSession
  <2>5. Others(w)
    BY <1>0, <1>FetchFails, <2>4 DEF FetchFails, Goto, Result, Others, SameLocals
  <2>6. Decides(w)
    <3> DEFINE r == FailedRow(rows[cur[w]], rows[cur[w]].content, "error", {})
    <3>1. rows' = [rows EXCEPT ![cur[w]] = r]
      BY <1>FetchFails DEF FetchFails
    <3>2. /\ r \in Row /\ r.st = "failed" /\ r.owner = rows[cur[w]].owner
          /\ r.owner \in {Slot(w)} \union shared
          /\ r.owner \notin shared => r.content # Slot(w)
      <4>1. /\ rows[cur[w]] \in Row /\ rows[cur[w]].content \in Slots \union {NoSlot}
            /\ Slot(w) \in Slots /\ rows[cur[w]].owner \in {Slot(w)} \union shared
        BY <1>0, <1>2, <2>1, <1>FetchFails DEF FetchFails, RowThere, BackedAt, Mine, Row
      <4>2. r \in Row
        BY <4>1, RowTypes DEF Messages, RowStatus
      <4>3. r.st = "failed" /\ r.owner = rows[cur[w]].owner /\ r.content = rows[cur[w]].content
        BY <4>1, FailedRowFields, FailedRowTexts
      <4>4. r.owner \notin shared => rows[cur[w]].content = NoSlot
        BY <1>2, <2>1, <4>1, <4>3, <1>FetchFails DEF FetchFails, RowThere, HeldAt, Alone, Undecided
      <4> QED BY <4>1, <4>2, <4>3, <4>4, BoundAssumption
    <3>3. pc'[w] = "notify" /\ res'[w] = "reread" /\ idx' = idx /\ cur' = cur /\ SameObservers
      BY <1>0, <1>FetchFails DEF FetchFails, Goto, Result, SameObservers, observers
    <3> HIDE DEF r
    <3> QED BY <2>1, <2>4, <3>1, <3>2, <3>3 DEF Decides, Undecided
  <2> QED BY <2>5, <2>6 DEF MyKind
<1>FetchSucceeds. ASSUME NEW k \in {"text", "binary"}, FetchSucceeds(w, k) PROVE MyKind
  <2> USE <1>FetchSucceeds DEF FetchSucceeds, database, Goto
  <2>1. pc[w] = "fetch" /\ Slot(w) \in Slots /\ Slot(w)' = Slot(w) /\ HasDevice(w) /\ pc'[w] = "save"
    BY <1>0, <1>1 DEF Slot
  <2>2. /\ task'[w].kind = k /\ task'[w].todo = Selected[w] \intersect dests
        /\ task'[w].errs = {}
        /\ \A v \in Workers \ {w} : task'[v] = task[v]
    BY <1>0 DEF EmptyTask
  <2>3. resolved'[Slot(w)] = IF k = "text" THEN Selected[w] \intersect dests ELSE {}
    BY <1>0, <2>1
  <2>4. HeldAt(w)' /\ Accounted(w)'
    BY <1>2, <2>1, <2>2, <2>3 DEF HeldAt, Alone, Accounted, Undecided
  <2>5. Others(w) /\ Works(w)
    BY <1>0, <2>1, <2>2, <2>4, WorksOn
  <2> QED BY <2>5 DEF MyKind
<1>SaveReturns. ASSUME NEW d \in Dests, SaveReturns(w, d) PROVE MyKind
  <2> USE <1>SaveReturns DEF SaveReturns, Saving, database
  <2>1. pc[w] = "save" /\ Slot(w) \in Slots /\ Slot(w)' = Slot(w) /\ HasDevice(w)
    BY <1>0, <1>1 DEF Slot
  <2>2. task'[w] = Accepted(task[w], d) /\ \A v \in Workers \ {w} : task'[v] = task[v]
    BY <1>0
  <2>3. task'[w].kind = task[w].kind /\ task'[w].todo = task[w].todo \ {d} /\ task'[w].errs = task[w].errs
    BY <1>1, <2>2, TaskLists
  <2>4. stored'[Slot(w)] = stored[Slot(w)] \union {d} /\ \A s \in Slots : stored[s] \subseteq stored'[s]
    BY <1>0, <2>1
  <2>5. HeldAt(w)' /\ Accounted(w)'
    BY <1>2, <2>1, <2>3, <2>4 DEF HeldAt, Alone, Accounted, Undecided
  <2>6. Others(w) /\ Works(w)
    BY <2>1, <2>2, <2>4, <2>5, WorksOn
  <2> QED BY <2>6 DEF MyKind
<1>SaveUnsupported. ASSUME NEW d \in Dests, SaveUnsupported(w, d) PROVE MyKind
  <2> USE <1>SaveUnsupported DEF SaveUnsupported, Saving, database, observers
  <2>1. pc[w] = "save" /\ Slot(w)' = Slot(w) /\ HasDevice(w) /\ task[w].kind = "binary"
    BY <1>1 DEF Slot, Supports, Task
  <2>2. task'[w] = PassedOver(task[w], d) /\ \A v \in Workers \ {w} : task'[v] = task[v]
    BY <1>0
  <2>3. task'[w].kind = "binary"
    BY <1>1, <2>1, <2>2, TaskLists
  <2>4. HeldAt(w)' /\ Accounted(w)'
    BY <1>2, <2>1, <2>3 DEF HeldAt, Alone, Accounted, Undecided
  <2>5. Others(w) /\ Works(w)
    BY <2>1, <2>2, <2>4, WorksOn
  <2> QED BY <2>5 DEF MyKind
<1>SaveRetries. ASSUME NEW d \in Dests, SaveRetries(w, d) PROVE MyKind
  <2> USE <1>SaveRetries DEF SaveRetries, Saving, database, observers
  <2>1. pc[w] = "save" /\ Slot(w)' = Slot(w) /\ HasDevice(w)
    BY <1>1 DEF Slot
  <2>2. task'[w] = TriedAgain(task[w]) /\ \A v \in Workers \ {w} : task'[v] = task[v]
    BY <1>0
  <2>3. task'[w].kind = task[w].kind /\ task'[w].todo = task[w].todo /\ task'[w].errs = task[w].errs
    BY <1>1, <2>2, TaskLists
  <2>4. HeldAt(w)' /\ Accounted(w)'
    BY <1>2, <2>1, <2>3 DEF HeldAt, Alone, Accounted, Undecided
  <2>5. Others(w) /\ Works(w)
    BY <2>1, <2>2, <2>4, WorksOn
  <2> QED BY <2>5 DEF MyKind
<1>SaveFails. ASSUME NEW d \in Dests, SaveFails(w, d) PROVE MyKind
  <2> USE <1>SaveFails DEF SaveFails, Saving, database, observers
  <2>1. pc[w] = "save" /\ Slot(w)' = Slot(w) /\ HasDevice(w) /\ cur[w] \in Ids
    BY <1>1 DEF Slot, RowThere
  <2>2. PICK i \in Ids : i = cur[w]
    BY <2>1
  <2>3. RecordFailure(w, i, d, runs)
    BY <2>2
  <2>4. /\ \A v \in Workers \ {w} : runs'[v] = runs[v] /\ tally'[v] = tally[v]
        /\ w \in Jobs => runs'[w].st = runs[w].st /\ tally'[w].fail = tally[w].fail
    BY <1>0, <1>2, <2>1, <2>3, RecordSession DEF CountedAt
  <2>5. task'[w] = Refused(task[w], d) /\ \A v \in Workers \ {w} : task'[v] = task[v]
    BY <1>0
  <2>6. /\ task'[w].kind = task[w].kind /\ task'[w].todo = task[w].todo \ {d}
        /\ task'[w].errs = task[w].errs \union {d}
    BY <1>1, <2>5, TaskLists
  <2>7. HeldAt(w)' /\ Accounted(w)'
    BY <1>2, <2>1, <2>6 DEF HeldAt, Alone, Accounted, Undecided
  <2>8. Others(w) /\ Works(w)
    BY <2>1, <2>4, <2>5, <2>7, WorksOn
  <2> QED BY <2>8 DEF MyKind
<1>ObjectDeleted. CASE ObjectDeleted(w)
  BY <1>1, <1>ObjectDeleted, RaiseKind DEF ObjectDeleted, database, observers, SameObservers, MyKind
<1>FinishSaved. CASE FinishSaved(w)
  <2> USE <1>FinishSaved DEF FinishSaved, LoopDone, Flush
  <2>1. /\ pc[w] = "save" /\ cur[w] \in Ids /\ cur[w] # 0 /\ Slot(w) \in Slots
        /\ rows[cur[w]] \in Row /\ rows[cur[w]].msg \in Messages
        /\ rows[cur[w]].st # "absent" /\ rows[cur[w]].owner \in {Slot(w)} \union shared
        /\ rows[cur[w]].named \in SUBSET Dests
        /\ task[w].saved \in SUBSET Dests /\ task[w].errs \in SUBSET Dests
        /\ stored[Slot(w)] # {}
    BY <1>0, <1>1, <1>2 DEF RowThere, BackedAt, Mine, Row, Task
  <2>2. Others(w)
    BY <1>0, <1>4 DEF Goto, Result, Others, SameLocals
  <2>3. PICK m \in Messages, S \in SUBSET Dests :
          /\ SavedRow(w, rows[cur[w]]) = WrittenRow(rows[cur[w]], Slot(w), task[w].saved, m, S)
          /\ PartialText(w) => S = task[w].errs
    <3>1. CASE PartialText(w)
      BY <2>1, <3>1 DEF SavedRow, Messages
    <3>2. CASE ~PartialText(w)
      BY <2>1, <3>2 DEF SavedRow
    <3> QED BY <3>1, <3>2
  <2>4. Decides(w)
    <3> DEFINE r == SavedRow(w, rows[cur[w]])
    <3>1. rows' = [rows EXCEPT ![cur[w]] = r]
      OBVIOUS
    <3>2. r \in Row /\ r.st = "success" /\ r.owner = rows[cur[w]].owner /\ r.named = S
      BY <2>1, <2>3, RowTypes, WrittenRowFields, WrittenRowTexts DEF RowStatus
    <3>3. resolved[Slot(w)] \subseteq stored[Slot(w)] \union S
      <4>1. CASE PartialText(w)
        BY <1>2, <2>1, <2>3, <4>1 DEF Accounted, Undecided
      <4>2. CASE ~PartialText(w)
        BY <1>1, <1>2, <2>1, <4>2 DEF Accounted, Undecided, PartialText, Task
      <4> QED BY <4>1, <4>2
    <3>4. pc'[w] \in {"notify", "count"} /\ idx' = idx /\ cur' = cur /\ SameObservers
      BY <1>0 DEF Goto, SameObservers, observers
    <3>5. w \in Jobs => tally'[w].fail = tally[w].fail /\ runs'[w].st = runs[w].st
      BY <1>4
    <3> HIDE DEF r
    <3> QED BY <2>1, <3>1, <3>2, <3>3, <3>4, <3>5 DEF Decides, Undecided
  <2> QED BY <2>2, <2>4 DEF MyKind
<1>FinishBinaryFailed. CASE FinishBinaryFailed(w)
  <2> USE <1>FinishBinaryFailed DEF FinishBinaryFailed, LoopDone, Flush
  <2>1. /\ pc[w] = "save" /\ cur[w] \in Ids /\ cur[w] # 0 /\ Slot(w) \in Slots
        /\ rows[cur[w]] \in Row /\ task[w].errs \in SUBSET Dests
        /\ rows[cur[w]].st # "absent" /\ rows[cur[w]].owner \in {Slot(w)} \union shared
    BY <1>0, <1>1, <1>2 DEF RowThere, BackedAt, Mine, Task
  <2>2. Others(w)
    BY <1>0, <1>4 DEF Goto, Result, Others, SameLocals
  <2>3. Decides(w)
    <3> DEFINE r == FailedRow(rows[cur[w]], Slot(w), "error", task[w].errs)
    <3>1. rows' = [rows EXCEPT ![cur[w]] = r]
      OBVIOUS
    <3>2. r \in Row /\ r.st = "failed" /\ r.owner = rows[cur[w]].owner
      <4>1. r \in Row
        BY <2>1, RowTypes DEF RowStatus, Messages
      <4> QED BY <2>1, <4>1, FailedRowFields
    <3>3. resolved[Slot(w)] = {}
      BY <1>2, <2>1 DEF Accounted, Undecided
    <3>4. pc'[w] = "notify" /\ res'[w] = "reread" /\ idx' = idx /\ cur' = cur /\ SameObservers
      BY <1>0 DEF Goto, Result, SameObservers, observers
    <3>5. w \in Jobs => tally'[w].fail = tally[w].fail /\ runs'[w].st = runs[w].st
      BY <1>4
    <3> HIDE DEF r
    <3> QED BY <2>1, <3>1, <3>2, <3>3, <3>4, <3>5 DEF Decides, Undecided
  <2> QED BY <2>2, <2>3 DEF MyKind
<1>FallbackStarts. ASSUME NEW d \in Dests, FallbackStarts(w, d) PROVE MyKind
  <2> USE <1>FallbackStarts DEF FallbackStarts, NeedsFallback, LoopDone, Flush, observers
  <2>1. pc[w] = "save" /\ Slot(w)' = Slot(w) /\ HasDevice(w) /\ pc'[w] = "fallback"
    BY <1>0, <1>1 DEF Slot, Goto
  <2>2. task'[w] = FallingBack(task[w], d) /\ \A v \in Workers \ {w} : task'[v] = task[v]
    BY <1>0
  <2>3. task'[w].kind = task[w].kind /\ task'[w].todo = {} /\ task'[w].errs = task[w].errs
    BY <1>1, <2>2, TaskLists
  <2>4. HeldAt(w)' /\ Accounted(w)'
    BY <1>2, <2>1, <2>3 DEF HeldAt, Alone, Accounted, Undecided
  <2>5. Others(w) /\ Works(w)
    BY <1>4, <2>1, <2>2, <2>4, WorksOn
  <2> QED BY <2>5 DEF MyKind
<1>FallbackUnavailable. CASE FallbackUnavailable(w)
  <2> USE <1>FallbackUnavailable DEF FallbackUnavailable, NeedsFallback, LoopDone, Flush, observers
  <2>1. pc[w] = "save" /\ Slot(w)' = Slot(w) /\ HasDevice(w) /\ pc'[w] = "fbnotify"
    BY <1>0, <1>1 DEF Slot, Goto
  <2>2. HeldAt(w)' /\ Accounted(w)'
    BY <1>2, <2>1 DEF HeldAt, Alone, Accounted, Undecided
  <2>3. Others(w) /\ Works(w)
    BY <1>4, <2>1, <2>2, WorksOn
  <2> QED BY <2>3 DEF MyKind
<1>FallbackSaves. CASE FallbackSaves(w)
  <2> USE <1>FallbackSaves DEF FallbackSaves, database
  <2>1. pc[w] = "fallback" /\ Slot(w) \in Slots /\ Slot(w)' = Slot(w) /\ HasDevice(w) /\ pc'[w] = "fbnotify"
    BY <1>0, <1>1 DEF Slot, Goto
  <2>2. task'[w] = FellBack(task[w]) /\ \A v \in Workers \ {w} : task'[v] = task[v]
    BY <1>0
  <2>3. /\ task'[w].kind = task[w].kind /\ task'[w].todo = task[w].todo /\ task'[w].errs = task[w].errs
        /\ task[w].local \in Dests
    BY <1>0, <1>1, <2>1, <2>2, TaskLists DEF TypeInv, Position
  <2>4. \A s \in Slots : stored[s] \subseteq stored'[s]
    BY <1>0, <2>1
  <2>5. HeldAt(w)' /\ Accounted(w)'
    BY <1>2, <2>1, <2>3, <2>4 DEF HeldAt, Alone, Accounted, Undecided
  <2>6. Others(w) /\ Works(w)
    BY <2>1, <2>2, <2>4, <2>5, WorksOn
  <2> QED BY <2>6 DEF MyKind
<1>FallbackFails. CASE FallbackFails(w)
  <2> USE <1>FallbackFails DEF FallbackFails, database, observers
  <2>1. pc[w] = "fallback" /\ Slot(w)' = Slot(w) /\ HasDevice(w) /\ pc'[w] = "fbnotify"
    BY <1>0, <1>1 DEF Slot, Goto
  <2>2. HeldAt(w)' /\ Accounted(w)'
    BY <1>2, <2>1 DEF HeldAt, Alone, Accounted, Undecided
  <2>3. Others(w) /\ Works(w)
    BY <2>1, <2>2, WorksOn
  <2> QED BY <2>3 DEF MyKind
<1>FallbackCommits. CASE FallbackCommits(w)
  <2> USE <1>FallbackCommits DEF FallbackCommits, Flush
  <2>1. /\ pc[w] = "fbnotify" /\ cur[w] \in Ids /\ cur[w] # 0 /\ Slot(w) \in Slots
        /\ rows[cur[w]] \in Row
        /\ rows[cur[w]].st # "absent" /\ rows[cur[w]].owner \in {Slot(w)} \union shared
        /\ task[w].errs \in SUBSET Dests /\ task[w].saved \in SUBSET Dests
        /\ task[w].fb => stored[Slot(w)] # {}
    BY <1>0, <1>1, <1>2 DEF RowThere, BackedAt, Mine, Task
  <2>2. Others(w)
    BY <1>0, <1>4 DEF Goto, Result, Others, SameLocals
  <2>3. pc'[w] = "count" /\ idx' = idx /\ cur' = cur /\ SameObservers
    BY <1>0 DEF Goto, SameObservers, observers
  <2>4. w \in Jobs => tally'[w].fail = tally[w].fail /\ runs'[w].st = runs[w].st
    BY <1>4
  <2>5. Decides(w)
    <3>1. CASE task[w].fb
      <4> DEFINE r == WrittenRow(rows[cur[w]], Slot(w), task[w].saved, "fallback", {})
      <4>1. rows' = [rows EXCEPT ![cur[w]] = r]
        BY <3>1
      <4>2. r \in Row /\ r.st = "success" /\ r.owner = rows[cur[w]].owner /\ r.msg = "fallback"
        BY <2>1, RowTypes, WrittenRowFields, WrittenRowTexts DEF RowStatus, Messages
      <4> HIDE DEF r
      <4> QED BY <2>1, <2>3, <2>4, <3>1, <4>1, <4>2 DEF Decides, Undecided
    <3>2. CASE ~task[w].fb
      <4> DEFINE r == FailedRow(rows[cur[w]], Slot(w), "error", task[w].errs)
      <4>1. rows' = [rows EXCEPT ![cur[w]] = r]
        BY <3>2
      <4>2. r \in Row /\ r.st = "failed" /\ r.owner = rows[cur[w]].owner /\ r.named = task[w].errs
        <5>1. r \in Row
          BY <2>1, RowTypes DEF RowStatus, Messages
        <5> QED BY <2>1, <5>1, FailedRowFields, FailedRowTexts
      <4>3. resolved[Slot(w)] \subseteq stored[Slot(w)] \union task[w].errs
        BY <1>2, <2>1 DEF Accounted, Undecided
      <4>4. res'[w] = "failed"
        BY <1>0, <3>2 DEF Result
      <4> HIDE DEF r
      <4> QED BY <2>1, <2>3, <2>4, <4>1, <4>2, <4>3, <4>4 DEF Decides, Undecided
    <3> QED BY <3>1, <3>2
  <2> QED BY <2>2, <2>5 DEF MyKind
<1>NotifyReturns. CASE NotifyReturns(w)
  <2> USE <1>NotifyReturns DEF NotifyReturns, database, observers
  <2>1. pc[w] = "notify" /\ Slot(w)' = Slot(w) /\ HasDevice(w) /\ pc'[w] = "count"
    BY <1>0, <1>1 DEF Slot, Goto
  <2>2. HeldAt(w)' /\ Accounted(w)'
    BY <1>2, <2>1 DEF HeldAt, Alone, Accounted, Undecided
  <2>3. Others(w) /\ Works(w)
    BY <2>1, <2>2, WorksOn
  <2> QED BY <2>3 DEF MyKind
<1>CommitFails. CASE CommitFails(w)
  <2> USE <1>0, <1>CommitFails DEF CommitFails, LoopDone, Goto, Forget, database, observers
  <2>1. Others(w)
    BY DEF Others, SameLocals
  <2>2. pc[w] \in Active /\ pc'[w] = "aborted" /\ SameObservers
    BY DEF SameObservers
  <2>3. w \in Jobs => runs'[w].st # "completed"
    BY <1>2, <2>2 DEF CountedAt, Finished
  <2> QED BY <2>1, <2>2, <2>3 DEF MyKind, Leaves
<1>TriggerRaises. CASE TriggerRaises(w)
  <2> USE <1>0, <1>TriggerRaises DEF TriggerRaises, Unreadable, Goto, Forget, database, observers
  <2>1. Others(w)
    BY DEF Others, SameLocals
  <2>2. Leaves(w)
    BY DEF Leaves, SameObservers
  <2> QED BY <2>1, <2>2 DEF MyKind
<1>CountDevice. CASE CountDevice(w)
  <2> USE <1>0, <1>CountDevice DEF CountDevice, Goto, Result, database, observers
  <2>1. Others(w)
    <3>1. \A v \in Workers \ {w} : tally'[v] = tally[v]
      OBVIOUS
    <3> QED BY <3>1 DEF Others, SameLocals
  <2>2. ASSUME w \in Jobs, tally'[w].fail = 0 PROVE tally[w].fail = 0 /\ SeesSuccess(w)
    <3>1. CASE SeesSuccess(w) = TRUE
      BY <2>2, <3>1 DEF CountedIn
    <3>2. CASE SeesSuccess(w) = FALSE
      BY <2>2, <3>2 DEF CountedIn
    <3>3. SeesSuccess(w) \in BOOLEAN
      BY DEF SeesSuccess
    <3> QED BY <3>1, <3>2, <3>3
  <2>3. Passes(w)
    BY <2>2, SeenStored DEF Passes, SameObservers
  <2> QED BY <2>1, <2>3 DEF MyKind
<1>FinishRun. CASE FinishRun(w)
  <2> USE <1>0, <1>FinishRun DEF FinishRun, Goto, Forget, observers
  <2>1. Others(w)
    BY DEF Others, SameLocals
  <2>2. idx[w] = Len(Targets[w]) + 1
    <3>1. Len(Targets[w]) \in Nat /\ idx[w] \in Nat /\ idx[w] <= Len(Targets[w]) + 1
      BY Lengths DEF TypeInv, Position
    <3> QED BY <3>1 DEF HasDevice
  <2>3. w \in Jobs => runs'[w].st = IF tally[w].fail = 0 THEN "completed" ELSE "failed"
    OBVIOUS
  <2>4. Leaves(w)
    BY <2>2, <2>3 DEF Leaves, SameObservers
  <2> QED BY <2>1, <2>4 DEF MyKind
<1> QED
  BY <1>StartRun, <1>SkipDevice, <1>UnknownEngine, <1>NoCredential, <1>BeginBackup,
     <1>FetchFails, <1>FetchSucceeds, <1>SaveReturns, <1>SaveUnsupported, <1>SaveRetries,
     <1>SaveFails, <1>ObjectDeleted, <1>FinishSaved, <1>FinishBinaryFailed,
     <1>FallbackStarts, <1>FallbackUnavailable, <1>FallbackSaves, <1>FallbackFails,
     <1>FallbackCommits, <1>NotifyReturns, <1>CommitFails, <1>TriggerRaises,
     <1>CountDevice, <1>FinishRun
  DEF Progress

LEMMA StepKind ==
  ASSUME OutcomeInv, [Next]_vars
  PROVE  OutcomeKind
<1> USE DEF database, memory, observers, OutcomeInv, BackedInv, TypeInv, TypeOK
<1>1. ASSUME NEW w \in Workers, StartRun(w) \/ Progress(w) PROVE OutcomeKind
  BY <1>1, CoroutineKind
<1>2. ASSUME NEW i \in Ids, MarkStale(i) PROVE Marks
  <2> SUFFICES ASSUME NEW k \in Ids
               PROVE  \/ rows'[k] = rows[k]
                      \/ /\ rows[k].st = "in_progress" /\ rows'[k].st = "failed"
                         /\ rows'[k].msg = "stale" /\ rows'[k].owner = rows[k].owner
                         /\ rows'[k].content = rows[k].content
    BY <1>2 DEF MarkStale, Marks, SameMemory
  <2>1. rows[k] \in Row
    OBVIOUS
  <2>2. rows'[k] = rows[k] \/ (/\ rows[k].st = "in_progress"
                               /\ rows'[k] = FailedRow(rows[k], rows[k].content, "stale", {}))
    BY <1>2 DEF MarkStale
  <2> DEFINE r == FailedRow(rows[k], rows[k].content, "stale", {})
  <2>3. r.st = "failed" /\ r.owner = rows[k].owner
    BY <2>1, FailedRowFields
  <2>4. r.msg = "stale" /\ r.content = rows[k].content
    BY <2>1, FailedRowTexts
  <2> HIDE DEF r
  <2> QED BY <2>2, <2>3, <2>4 DEF r
<1>3. ASSUME NEW i \in Ids, DeleteBackup(i) PROVE Deletes(i)
  BY <1>3 DEF DeleteBackup, Deletes, SameMemory
<1>4. ASSUME \/ \E d \in Dests : DeleteDestination(d)
             \/ \E v \in Devices : DisableDevice(v)
             \/ UNCHANGED vars
      PROVE  Rests
  BY <1>4 DEF DeleteDestination, DisableDevice, vars, Rests, SameMemory
<1>5. ASSUME Crash PROVE Dies
  BY <1>5 DEF Crash, Dies, SameObservers
<1> QED BY <1>1, <1>2, <1>3, <1>4, <1>5 DEF Next, Operators, OutcomeKind

LEMMA OutcomeStep == OutcomeInv /\ [Next]_vars => OutcomeInv'
<1> SUFFICES ASSUME OutcomeInv, [Next]_vars PROVE OutcomeInv'
  OBVIOUS
<1>1. CountInv' /\ BackedInv'
  BY CountStep, BackedStep DEF OutcomeInv
<1>2. OutcomeKind
  BY StepKind
<1> QED BY <1>1, <1>2, KindKeeps

-----------------------------------------------------------------------------
(* What follows *)

LEMMA OutcomesHold ==
  ASSUME OutcomeInv
  PROVE  SuccessIsBacked /\ CompletedMeansStored /\ FailedDestinationIsVisible
<1>1. SuccessIsBacked
  BY DEF OutcomeInv, BackedInv, RowBacked, SuccessIsBacked
<1>2. CompletedMeansStored
  BY DEF OutcomeInv, SoFar, DoneWell, CompletedMeansStored
<1>3. FailedDestinationIsVisible
  BY DEF OutcomeInv, RowDecided, FailedDestinationIsVisible
<1> QED BY <1>1, <1>2, <1>3

\* VerdictStands, of one step.
Stands ==
  \A i \in Ids : rows[i].owner \notin shared =>
    /\ rows[i].st = "success" => rows'[i] \in {rows[i], AbsentRow}
    /\ rows[i].st = "failed" /\ rows'[i].st \notin {"failed", "absent"} =>
         rows[i].msg = "stale" /\ Holders(i) # {}

LEMMA StandsStep ==
  ASSUME OutcomeInv, OutcomeKind
  PROVE  Stands
<1>1. rows \in [Ids -> Row]
  BY DEF OutcomeInv, BackedInv, TypeInv, TypeOK
<1>2. ASSUME rows' = rows PROVE Stands
  BY <1>2 DEF Stands
<1>3. ASSUME NEW w \in Workers, Decides(w) PROVE Stands
  <2>1. rows[cur[w]].owner \notin shared =>
          rows[cur[w]].st = "in_progress" \/ (rows[cur[w]].st = "failed" /\ rows[cur[w]].msg = "stale")
    BY <1>3, Indices DEF Decides, HeldAt, Alone
  <2>2. w \in Holders(cur[w]) /\ \A i \in Ids : i # cur[w] => rows'[i] = rows[i]
    BY <1>1, <1>3 DEF Decides, Holders
  <2> QED BY <2>1, <2>2 DEF Stands
<1>4. ASSUME NEW w \in Workers, NEW i \in Ids, Inserts(w, i) PROVE Stands
  BY <1>1, <1>4 DEF Inserts, Stands
<1>5. ASSUME Marks PROVE Stands
  BY <1>5 DEF Marks, Stands
<1>6. ASSUME NEW i \in Ids, Deletes(i) PROVE Stands
  <2>1. rows'[i] = AbsentRow /\ AbsentRow.st = "absent" /\ \A k \in Ids : k # i => rows'[k] = rows[k]
    BY <1>1, <1>6 DEF Deletes, AbsentRow
  <2> QED BY <2>1 DEF Stands
<1> QED BY <1>2, <1>3, <1>4, <1>5, <1>6
        DEF OutcomeKind, Starts, Works, Passes, Leaves, Dies, Rests

\* A job reported completed stored each of its devices, and no row of it says anything
\* but success, whatever maintenance marks, operators delete, other jobs do and crashes
\* interrupt; a device that shared its row with another backup is left out.
THEOREM CompletedStored == Spec => []CompletedMeansStored
BY OutcomeStep, OutcomeInit, OutcomesHold, PTL DEF Spec

\* No destination of a finished text backup fails silently: the invariant shows more, that
\* the row itself names it unless it is a fallback or two backups wrote it.
THEOREM FailureVisible == Spec => []FailedDestinationIsVisible
BY OutcomeStep, OutcomeInit, OutcomesHold, PTL DEF Spec

\* No step of anybody changes a row that says success, but to delete it, and only the
\* coroutine that holds it takes back a stale mark, as long as one coroutine holds it.
THEOREM VerdictsStand == Spec => VerdictStands
<1>1. OutcomeInv /\ [Next]_vars => OutcomeInv' /\ Stands
  BY OutcomeStep, StepKind, StandsStep
<1> QED BY <1>1, OutcomeInit, PTL DEF Spec, VerdictStands, Stands

-----------------------------------------------------------------------------
(* With the failures that retries and operators resolve *)

\* What is resolved is a failure, and a retry that resolved it has stored the device.
ResolvedInv ==
  /\ OutcomeInv
  /\ settled \subseteq Failure \X Who
  /\ ResolvedByStored

\* A retry that finds its backup succeeded has stored the device it was for.
LEMMA SucceededStored ==
  ASSUME OutcomeInv, NEW w \in Workers, Succeeded(w)
  PROVE  /\ idx[w] \in 1 .. Len(Targets[w])
         /\ stored[<<w, idx[w]>>] # {} \/ <<w, idx[w]>> \in shared
<1>1. stored[<<w, idx[w]>>] # {} \/ <<w, idx[w]>> \in shared
  BY SeenStored DEF Succeeded, DoneWell
<1>2. idx[w] <= Len(Targets[w]) /\ idx[w] \in Nat /\ idx[w] >= 1
  BY Indices DEF Succeeded, OutcomeInv, BackedInv, TypeInv, Position, Working
<1> QED BY <1>1, <1>2, Indices

LEMMA DetachedDevice ==
  ASSUME NEW f \in Failure, NEW i \in Ids \union {0}
  PROVE  Detached(f, i) \in Failure /\ DeviceOf(Detached(f, i)) = DeviceOf(f)
BY DEF Failure, Detached, DeviceOf

LEMMA KeptResolved ==
  ASSUME ResolvedInv, NEW p \in Kept
  PROVE  /\ p \in Failure \X Who
         /\ \E q \in settled : DeviceOf(q[1]) = DeviceOf(p[1]) /\ q[2] = p[2]
<1>1. CASE p \in settled
  BY <1>1 DEF ResolvedInv
<1>2. CASE p \notin settled
  <2>1. PICK q \in settled : p = <<Detached(q[1], q[1].bid), q[2]>>
    BY <1>2 DEF Kept
  <2>2. q[1] \in Failure /\ q[2] \in Who /\ q[1].bid \in Ids \union {0}
    BY DEF ResolvedInv, Failure
  <2> QED BY <2>1, <2>2, DetachedDevice
<1> QED BY <1>1, <1>2

LEMMA ResolvedKept == ResolvedInv /\ [DNext]_dVars => ResolvedInv'
<1> SUFFICES ASSUME ResolvedInv, [DNext]_dVars PROVE ResolvedInv'
  OBVIOUS
<1>0. OutcomeInv
  BY DEF ResolvedInv
<1>1. ASSUME Step PROVE ResolvedInv'
  <2>1. OutcomeInv'
    BY <1>0, <1>1, OutcomeStep DEF Step
  <2>2. shared \subseteq shared' /\ \A s \in Slots : stored[s] \subseteq stored'[s]
    BY <1>0, <1>1, StepKind DEF Step, OutcomeKind, Starts, Works, Passes, Leaves, Inserts, Decides,
       Dies, Rests, Marks, Deletes, SameObservers, SameMemory, observers
  <2>3. ASSUME NEW p \in settled'
        PROVE  /\ p \in Failure \X Who
               /\ p[2] # "operator" =>
                    \E n \in 1 .. Len(Targets[p[2]]) :
                      /\ DeviceOf(p[1]) = Targets[p[2]][n]
                      /\ stored[<<p[2], n>>] # {} \/ <<p[2], n>> \in shared
    <3>1. CASE p \in Kept
      BY <3>1, KeptResolved DEF ResolvedInv, ResolvedByStored
    <3>2. ASSUME NEW w \in Workers, Succeeded(w), p \in ResolveAll(w)
          PROVE  /\ p \in Failure \X Who
                 /\ \E n \in 1 .. Len(Targets[p[2]]) :
                      /\ DeviceOf(p[1]) = Targets[p[2]][n]
                      /\ stored[<<p[2], n>>] # {} \/ <<p[2], n>> \in shared
      <4>1. PICK f \in failures : p = <<f, w>> /\ DeviceOf(f) = Targets[w][idx[w]]
        BY <3>2 DEF ResolveAll, Open, Device
      <4>2. f \in Failure /\ w \in Who
        BY <1>0 DEF OutcomeInv, BackedInv, TypeInv, TypeOK, Who
      <4> QED BY <1>0, <3>2, <4>1, <4>2, SucceededStored
    <3> QED BY <1>1, <3>1, <3>2 DEF Step
  <2>4. ResolvedByStored'
    <3> SUFFICES ASSUME NEW p \in settled', p[2] # "operator"
                 PROVE  \E n \in 1 .. Len(Targets[p[2]]) :
                          /\ DeviceOf(p[1]) = Targets[p[2]][n]
                          /\ stored'[<<p[2], n>>] # {} \/ <<p[2], n>> \in shared'
      BY DEF ResolvedByStored, DeviceOf
    <3>1. p[2] \in Workers
      BY <2>3 DEF Who
    <3>2. PICK n \in 1 .. Len(Targets[p[2]]) :
            /\ DeviceOf(p[1]) = Targets[p[2]][n]
            /\ stored[<<p[2], n>>] # {} \/ <<p[2], n>> \in shared
      BY <2>3
    <3>3. <<p[2], n>> \in Slots
      BY <3>1, Lengths DEF Slots
    <3> QED BY <2>2, <3>2, <3>3
  <2> QED BY <2>1, <2>3, <2>4 DEF ResolvedInv
<1>2. ASSUME UNCHANGED <<database, memory, observers>>, incidents' \in Nat
      PROVE  OutcomeInv'
  <2> USE DEF database, memory, observers
  <2>1. TypeInv'
    BY <1>0, <1>2 DEF OutcomeInv, BackedInv, TypeInv, TypeOK, Position, Holding
  <2>2. CountInv'
    BY <1>0, <1>2, <2>1 DEF OutcomeInv, CountInv, CountedAt, Exact, Finished
  <2>3. BackedInv'
    BY <1>0, <1>2, <2>1 DEF OutcomeInv, BackedInv, BackedAt, Mine, RowBacked, Slot
  <2>4. Rests
    BY <1>2 DEF Rests, SameMemory
  <2> QED BY <1>0, <2>2, <2>3, <2>4, RestsKeeps
<1>3. ASSUME NEW f \in failures, MarkResolved(f) PROVE ResolvedInv'
  <2>1. OutcomeInv'
    BY <1>0, <1>2, <1>3 DEF MarkResolved, OutcomeInv, BackedInv, TypeInv, TypeOK
  <2>2. f \in Failure
    BY <1>0 DEF OutcomeInv, BackedInv, TypeInv, TypeOK
  <2>3. stored' = stored /\ shared' = shared /\ settled' = settled \union {<<f, "operator">>}
    BY <1>3 DEF MarkResolved, observers
  <2>4. settled' \subseteq Failure \X Who
    BY <2>2, <2>3 DEF ResolvedInv, Who
  <2>5. ResolvedByStored'
    <3>1. \A p \in settled' : p[2] # "operator" => p \in settled
      BY <2>3
    <3> QED BY <2>3, <3>1 DEF ResolvedInv, ResolvedByStored, DeviceOf
  <2> QED BY <2>1, <2>4, <2>5 DEF ResolvedInv
<1>4. ASSUME UNCHANGED dVars PROVE ResolvedInv'
  <2>1. OutcomeInv'
    BY <1>0, <1>2, <1>4 DEF dVars, vars, OutcomeInv, BackedInv, TypeInv, TypeOK
  <2> QED BY <1>4, <2>1 DEF dVars, vars, observers, ResolvedInv, ResolvedByStored, DeviceOf
<1> QED BY <1>1, <1>3, <1>4 DEF DNext

LEMMA ResolvedInit == DInit => ResolvedInv
BY OutcomeInit DEF DInit, ResolvedInv, ResolvedByStored

\* A failure that a retry resolved is of a device that this retry has stored somewhere,
\* whatever runs between the end of its backup and its look at it, unless its row was
\* another backup's as well.
THEOREM ResolvedStored == DSpec => []ResolvedByStored
<1>1. ResolvedInv => ResolvedByStored
  BY DEF ResolvedInv
<1> QED BY <1>1, ResolvedKept, ResolvedInit, PTL DEF DSpec

\* Resolving failures disturbs none of this.
THEOREM OutcomesWithResolutions ==
  DSpec => /\ [](SuccessIsBacked /\ CompletedMeansStored /\ FailedDestinationIsVisible)
           /\ VerdictStands
<1>1. ResolvedInv => SuccessIsBacked /\ CompletedMeansStored /\ FailedDestinationIsVisible
  BY OutcomesHold DEF ResolvedInv
<1>2. ResolvedInv /\ [DNext]_dVars => [Stands]_vars
  <2> SUFFICES ASSUME ResolvedInv, [DNext]_dVars PROVE [Stands]_vars
    OBVIOUS
  <2>1. CASE Step
    BY <2>1, StepKind, StandsStep DEF Step, ResolvedInv
  <2>2. ASSUME NEW f \in failures, MarkResolved(f) PROVE Stands
    BY <2>2 DEF MarkResolved, database, Stands
  <2>3. CASE UNCHANGED dVars
    BY <2>3 DEF dVars
  <2> QED BY <2>1, <2>2, <2>3 DEF DNext
<1> QED BY <1>1, <1>2, ResolvedKept, ResolvedInit, PTL DEF DSpec, VerdictStands, Stands
=============================================================================
