------------------------------ MODULE BackupRun ------------------------------
(***************************************************************************)
(* The backup pipeline of app/modules/backup_service.py: run_backup_job    *)
(* walks a list of devices, run_backup_for_device backs up one device and  *)
(* writes one Backup row, _handle_text_backup/_handle_binary_backup save   *)
(* the fetched configuration to every destination with retries.            *)
(*                                                                         *)
(* Every coroutine runs on one event loop, so a step is what the code does *)
(* between two awaits.  Several coroutines are interleaved: scheduled jobs *)
(* (with a JobRun row) and manual triggers (without one).  Meanwhile the   *)
(* daily maintenance marks old rows, operators delete rows and             *)
(* destinations, and the process may crash and restart.                    *)
(*                                                                         *)
(* The database rows and the memory of a coroutine are kept apart, as      *)
(* SQLAlchemy does: a counter incremented in the session reaches the row   *)
(* at the next commit, an UPDATE of a row deleted meanwhile fails and      *)
(* leaves the session unusable, and SQLite hands out max(id)+1, so the id  *)
(* of a deleted newest row is used again.                                  *)
(***************************************************************************)
EXTENDS Integers, Sequences

CONSTANTS
  Workers,      \* coroutines that back devices up
  Jobs,         \* those of them that run_backup_job drives, with a JobRun row
  Devices,
  Targets,      \* Targets[w]: the devices of w, in the order they are backed up
  Dests,        \* ids of the destination rows
  Selected,     \* Selected[w]: the destination ids w was given
  LocalDests,   \* destinations of type local
  TextOnly,     \* destinations without save_binary (git)
  MaxRetries,   \* BACKUP_RETRY_MAX_ATTEMPTS
  MaxItems,     \* bound: longest Targets[w]
  MaxId,        \* bound: Backup ids
  MaxIncidents, \* bound: crashes, failure records that could not be written,
                \* rows and destinations deleted, devices disabled
  NoSlot

Slots == Workers \X (1 .. MaxItems)   \* a slot is one device of one worker
Ids == 1 .. MaxId
NoDest == 0

ASSUME WorkerAssumption ==
  /\ Jobs \subseteq Workers
  /\ Targets \in [Workers -> Seq(Devices)]
  /\ MaxItems \in Nat
  /\ \A w \in Workers : Len(Targets[w]) <= MaxItems
ASSUME DestAssumption ==
  /\ Selected \in [Workers -> SUBSET Dests]
  /\ LocalDests \subseteq Dests
  /\ TextOnly \subseteq Dests
  /\ Dests \subseteq Nat \ {0}
ASSUME BoundAssumption ==
  /\ MaxRetries \in Nat \ {0}
  /\ MaxId \in Nat /\ MaxIncidents \in Nat
  /\ NoSlot \notin Slots

VARIABLES
  rows,      \* the backups table
  runs,      \* the JobRun row of each worker
  failures,  \* the backup_failures table
  dests,     \* destinations that exist
  enabled,   \* devices that are enabled
  pc,        \* where each worker awaits
  idx,       \* position in Targets[w] of the device being backed up
  cur,       \* id of the Backup object w holds, 0 if none
  tally,     \* devices_success and devices_failed as w's session holds them
  task,      \* locals of _handle_text_backup and _handle_binary_backup
  res,       \* what reading backup.status after the call will give
  stored,    \* observer: destinations that accepted the backup of a slot
  resolved,  \* observer: destinations the text backup of a slot was to reach
  shared,    \* observer: slots whose backups held one row id at the same time
  incidents  \* crashes, lost failure records, deletions so far

database == <<rows, runs, failures, dests, enabled>>
memory == <<pc, idx, cur, tally, task, res>>
observers == <<stored, resolved, shared>>
vars == <<database, memory, observers, incidents>>

-----------------------------------------------------------------------------
(* Rows *)

RowStatus == {"absent", "in_progress", "success", "failed"}
Messages == {"none", "error", "stale", "partial", "fallback"}

\* owner: the slot the row was inserted for; content: the slot whose
\* configuration, hash or archive was last written to it.
Row == [st : RowStatus, owner : Slots \union {NoSlot},
        content : Slots \union {NoSlot}, label : SUBSET Dests,
        msg : Messages, named : SUBSET Dests]

AbsentRow == [st |-> "absent", owner |-> NoSlot, content |-> NoSlot,
              label |-> {}, msg |-> "none", named |-> {}]

RunRow == [st : {"none", "running", "completed", "failed"}, succ : Nat, fail : Nat]

Failure == [slot : Slots, bid : Ids \union {0}, dest : Dests \union {NoDest}]

Task == [kind : {"text", "binary"}, todo : SUBSET Dests,
         att : 1 .. MaxRetries, saved : SUBSET Dests, errs : SUBSET Dests,
         local : Dests \union {NoDest}, fb : BOOLEAN]

EmptyTask == [kind |-> "text", todo |-> {}, att |-> 1, saved |-> {},
              errs |-> {}, local |-> NoDest, fb |-> FALSE]

NoTally == [succ |-> 0, fail |-> 0]

\* What the code writes to a Backup row: a new row of slot s; a failure; the
\* configuration of slot s with the label S.
NewRow(s, status, message) ==
  [AbsentRow EXCEPT !.st = status, !.msg = message, !.owner = s]
FailedRow(r, s, message, S) ==
  [r EXCEPT !.st = "failed", !.content = s, !.msg = message, !.named = S]
WrittenRow(r, s, S, message, names) ==
  [r EXCEPT !.st = "success", !.content = s, !.label = S, !.msg = message,
            !.named = names]

\* One more device counted.
CountedIn(t, ok) ==
  IF ok THEN [t EXCEPT !.succ = @ + 1] ELSE [t EXCEPT !.fail = @ + 1]

\* The destination d is done with: accepted, failed, or not supported.
Accepted(t, d) == [t EXCEPT !.todo = @ \ {d}, !.att = 1, !.saved = @ \union {d}]
Refused(t, d) == [t EXCEPT !.todo = @ \ {d}, !.att = 1, !.errs = @ \union {d}]
PassedOver(t, d) == [t EXCEPT !.todo = @ \ {d}, !.att = 1]

\* One more attempt; the fallback picks the local destination d; it saves there.
TriedAgain(t) == [t EXCEPT !.att = @ + 1]
FallingBack(t, d) == [t EXCEPT !.local = d]
FellBack(t) == [t EXCEPT !.fb = TRUE, !.saved = {t.local}]

\* The failure record loses its backup.
Detached(f, i) == [f EXCEPT !.bid = IF @ = i THEN 0 ELSE @]

PCs == {"idle", "device", "fetch", "save", "fallback", "fbnotify", "notify",
        "count", "done", "aborted", "dead"}

Stopped == {"idle", "done", "aborted", "dead"}

TypeOK ==
  /\ rows \in [Ids -> Row]
  /\ runs \in [Workers -> RunRow]
  /\ failures \subseteq Failure
  /\ dests \subseteq Dests
  /\ enabled \subseteq Devices
  /\ pc \in [Workers -> PCs]
  /\ idx \in [Workers -> 1 .. MaxItems + 1]
  /\ cur \in [Workers -> Ids \union {0}]
  /\ tally \in [Workers -> [succ : Nat, fail : Nat]]
  /\ task \in [Workers -> Task]
  /\ res \in [Workers -> {"ok", "failed", "reread"}]
  /\ stored \in [Slots -> SUBSET Dests]
  /\ resolved \in [Slots -> SUBSET Dests]
  /\ shared \subseteq Slots
  /\ incidents \in Nat

Init ==
  /\ rows = [i \in Ids |-> AbsentRow]
  /\ runs = [w \in Workers |-> [st |-> "none", succ |-> 0, fail |-> 0]]
  /\ failures = {}
  /\ dests = Dests
  /\ enabled = Devices
  /\ pc = [w \in Workers |-> "idle"]
  /\ idx = [w \in Workers |-> 1]
  /\ cur = [w \in Workers |-> 0]
  /\ tally = [w \in Workers |-> NoTally]
  /\ task = [w \in Workers |-> EmptyTask]
  /\ res = [w \in Workers |-> "ok"]
  /\ stored = [s \in Slots |-> {}]
  /\ resolved = [s \in Slots |-> {}]
  /\ shared = {}
  /\ incidents = 0

-----------------------------------------------------------------------------
(* The session of a worker *)

Slot(w) == <<w, idx[w]>>
Device(w) == Targets[w][idx[w]]
HasDevice(w) == idx[w] <= Len(Targets[w])

\* The row behind the Backup object of w exists: reading an expired attribute
\* or committing a change to it succeeds.
RowThere(w) == cur[w] # 0 /\ rows[cur[w]].st # "absent"

\* The id SQLite gives to the next inserted row: one more than the largest.
NextId(i) ==
  /\ \A k \in Ids : k >= i => rows[k].st = "absent"
  /\ i > 1 => rows[i - 1].st # "absent"

\* Seeded fault: a commit adds the counters to those of the row.
FlushedAgain(w) ==
  [runs EXCEPT ![w] = [st |-> @.st, succ |-> @.succ + tally[w].succ, fail |-> @.fail + tally[w].fail]]

\* db.commit(): the counters the session changed reach the JobRun row.
Flushed(w) ==
  [runs EXCEPT ![w] = [st |-> @.st, succ |-> tally[w].succ, fail |-> tally[w].fail]]
Flush(w) == runs' = Flushed(w)

\* record_backup_failure commits the new failure row, or rolls back and goes
\* on: a rollback gives the session the counters last committed.
RecordFailure(w, i, d, committed) ==
  \/ /\ failures' = failures \union {[slot |-> Slot(w), bid |-> i, dest |-> d]}
     /\ Flush(w)
     /\ UNCHANGED <<tally, incidents>>
  \/ /\ incidents < MaxIncidents
     /\ incidents' = incidents + 1
     /\ runs' = committed
     /\ tally' = [tally EXCEPT ![w] = [succ |-> committed[w].succ, fail |-> committed[w].fail]]
     /\ UNCHANGED failures

\* A coroutine that ends takes its locals and its session with it.
Forget(w) ==
  /\ idx' = [idx EXCEPT ![w] = 1]
  /\ cur' = [cur EXCEPT ![w] = 0]
  /\ tally' = [tally EXCEPT ![w] = NoTally]
  /\ task' = [task EXCEPT ![w] = EmptyTask]
  /\ res' = [res EXCEPT ![w] = "ok"]

Goto(w, label) == pc' = [pc EXCEPT ![w] = label]
Result(w, r) == res' = [res EXCEPT ![w] = r]

\* An exception leaves run_backup_for_device and the session still works:
\* run_backup_job counts the device as failed, a manual trigger gives up.
Raise(w) ==
  \/ /\ w \in Jobs
     /\ Goto(w, "count")
     /\ Result(w, "failed")
     /\ UNCHANGED <<idx, cur, tally, task>>
  \/ /\ w \notin Jobs
     /\ Goto(w, "done")
     /\ Forget(w)

-----------------------------------------------------------------------------
(* run_backup_job and the start of run_backup_for_device *)

StartRun(w) ==
  /\ pc[w] = "idle"
  /\ Goto(w, "device")
  /\ runs' = IF w \in Jobs THEN [runs EXCEPT ![w].st = "running"] ELSE runs
  /\ UNCHANGED <<rows, failures, dests, enabled, idx, cur, tally, task, res,
                 observers, incidents>>

\* Jobs skip a device that is gone or disabled; a manual trigger does not ask.
Skipped(w) == w \in Jobs /\ Device(w) \notin enabled

CountFailed(w) ==
  /\ tally' = [tally EXCEPT ![w] = CountedIn(@, FALSE)]
  /\ idx' = [idx EXCEPT ![w] = @ + 1]

SkipDevice(w) ==
  /\ pc[w] = "device" /\ HasDevice(w) /\ Skipped(w)
  /\ CountFailed(w)
  /\ UNCHANGED <<database, pc, cur, task, res, observers, incidents>>

\* get_engine raises ValueError before any row is written.
UnknownEngine(w) ==
  /\ pc[w] = "device" /\ HasDevice(w) /\ ~Skipped(w)
  /\ Raise(w)
  /\ UNCHANGED <<database, observers, incidents>>

\* The backups that go on with the id i, whether the row is there or was deleted.
Holders(i) == {v \in Workers : cur[v] = i}

\* A new row may get an id that another backup still holds, since its row was
\* deleted: from then on both write to one row.
Sharers(w, i) ==
  IF Holders(i) = {} THEN {} ELSE {Slot(v) : v \in Holders(i) \union {w}}

InsertRow(w, i, status, message) ==
  /\ NextId(i)
  /\ rows' = [rows EXCEPT ![i] = NewRow(Slot(w), status, message)]
  /\ cur' = [cur EXCEPT ![w] = i]
  /\ shared' = shared \union Sharers(w, i)

\* Every call commits the new row first, and the counters with it, so that a
\* later rollback takes back nothing.
Inserted(w) == Flushed(w)

NoCredential(w) ==
  /\ pc[w] = "device" /\ HasDevice(w) /\ ~Skipped(w)
  /\ \E i \in Ids : /\ InsertRow(w, i, "failed", "error")
                    /\ RecordFailure(w, i, NoDest, Inserted(w))
  /\ Goto(w, "notify")
  /\ Result(w, "reread")
  /\ UNCHANGED <<dests, enabled, idx, task, stored, resolved>>

BeginBackup(w) ==
  /\ pc[w] = "device" /\ HasDevice(w) /\ ~Skipped(w)
  /\ \E i \in Ids : InsertRow(w, i, "in_progress", "none")
  /\ runs' = Inserted(w)
  /\ Goto(w, "fetch")
  /\ UNCHANGED <<failures, dests, enabled, idx, tally, task, res, stored, resolved, incidents>>

FetchFails(w) ==
  /\ pc[w] = "fetch" /\ RowThere(w)
  /\ rows' = [rows EXCEPT ![cur[w]] = FailedRow(@, @.content, "error", {})]
  /\ RecordFailure(w, cur[w], NoDest, Flushed(w))
  /\ Goto(w, "notify")
  /\ Result(w, "reread")
  /\ UNCHANGED <<dests, enabled, idx, cur, task, observers>>

\* _resolve_destinations reads the rows that exist when the fetch returns.
FetchSucceeds(w, k) ==
  /\ pc[w] = "fetch"
  /\ task' = [task EXCEPT ![w] = [EmptyTask EXCEPT !.kind = k,
                                                   !.todo = Selected[w] \intersect dests]]
  /\ resolved' = [resolved EXCEPT ![Slot(w)] =
                    IF k = "text" THEN Selected[w] \intersect dests ELSE {}]
  /\ Goto(w, "save")
  /\ UNCHANGED <<database, idx, cur, tally, res, stored, shared, incidents>>

-----------------------------------------------------------------------------
(* The destination loop of _handle_text_backup and _handle_binary_backup *)

Supports(w, d) == task[w].kind = "text" \/ d \notin TextOnly

\* Each recorded failure commits (or rolls back) and so expires the remaining
\* Destination objects: the next one is read again, which raises if it is gone.
Expired(w) == task[w].errs # {}
Readable(w, d) == task[w].att = 1 /\ Expired(w) => d \in dests

\* Rows come in the order of their ids.
First(d, S) == d \in S /\ \A e \in S : d <= e

Saving(w, d) ==
  /\ pc[w] = "save"
  /\ First(d, task[w].todo)
  /\ Readable(w, d)

SaveReturns(w, d) ==
  /\ Saving(w, d) /\ Supports(w, d)
  /\ stored' = [stored EXCEPT ![Slot(w)] = @ \union {d}]
  /\ task' = [task EXCEPT ![w] = Accepted(@, d)]
  /\ UNCHANGED <<database, pc, idx, cur, tally, res, resolved, shared, incidents>>

\* NotImplementedError: the destination is skipped with a log line only.
SaveUnsupported(w, d) ==
  /\ Saving(w, d) /\ ~Supports(w, d)
  /\ task' = [task EXCEPT ![w] = PassedOver(@, d)]
  /\ UNCHANGED <<database, pc, idx, cur, tally, res, observers, incidents>>

\* Seeded fault: the attempts start over.
RetryForever(w, d) ==
  /\ Saving(w, d) /\ Supports(w, d)
  /\ task' = [task EXCEPT ![w].att = IF @ = MaxRetries THEN 1 ELSE @ + 1]
  /\ UNCHANGED <<database, pc, idx, cur, tally, res, observers, incidents>>

\* A transient error before the last attempt: auto-fix, backoff, try again.
SaveRetries(w, d) ==
  /\ Saving(w, d) /\ Supports(w, d)
  /\ task[w].att < MaxRetries
  /\ task' = [task EXCEPT ![w] = TriedAgain(@)]
  /\ UNCHANGED <<database, pc, idx, cur, tally, res, observers, incidents>>

\* A permanent error, or any error of the last attempt.
SaveFails(w, d) ==
  /\ Saving(w, d) /\ Supports(w, d) /\ RowThere(w)
  /\ task' = [task EXCEPT ![w] = Refused(@, d)]
  /\ RecordFailure(w, cur[w], d, runs)
  /\ UNCHANGED <<rows, dests, enabled, pc, idx, cur, res, observers>>

\* analyze_backup_failure runs when no save or, for a text, some save failed.  It
\* reads the names of the failed destinations, or else backup.error_message.
Analysed(w) == task[w].saved = {} \/ (task[w].kind = "text" /\ task[w].errs # {})
AnalysisRaises(w) ==
  Analysed(w) /\ IF task[w].errs = {} THEN ~RowThere(w) ELSE ~(task[w].errs \subseteq dests)

\* ObjectDeletedError: the next destination is gone, backup.id cannot be read
\* for the failure record, or a failed destination is gone at the analysis.
ObjectDeleted(w) ==
  /\ pc[w] = "save"
  /\ \/ \E d \in Dests : First(d, task[w].todo) /\ ~Readable(w, d)
     \/ \E d \in Dests : Saving(w, d) /\ Supports(w, d) /\ ~RowThere(w)
     \/ task[w].todo = {} /\ AnalysisRaises(w)
  /\ Raise(w)
  /\ UNCHANGED <<database, observers, incidents>>

LoopDone(w) == pc[w] = "save" /\ task[w].todo = {} /\ ~AnalysisRaises(w)

-----------------------------------------------------------------------------
(* The end of a backup: the final commit, the fallback, the notifications *)

PartialText(w) == task[w].kind = "text" /\ task[w].errs # {}

\* Seeded faults: the label names every selected destination; the error message
\* of a partial success does not name the destinations that failed.
SavedRowAllNamed(w, r) ==
  WrittenRow(r, Slot(w), task[w].saved \union task[w].errs, r.msg, r.named)
SavedRowUnnamed(w, r) == WrittenRow(r, Slot(w), task[w].saved, r.msg, r.named)

\* _summarize_results and the assignments before the last commit.  A binary
\* backup, and a text backup that lost no destination, keep the old message.
SavedRow(w, r) ==
  WrittenRow(r, Slot(w), task[w].saved,
             IF PartialText(w) THEN "partial" ELSE r.msg,
             IF PartialText(w) THEN task[w].errs ELSE r.named)

FinishSaved(w) ==
  /\ LoopDone(w) /\ task[w].saved # {} /\ RowThere(w)
  /\ rows' = [rows EXCEPT ![cur[w]] = SavedRow(w, @)]
  /\ Flush(w)
  /\ \/ Goto(w, "count")
     \/ task[w].kind = "text" /\ Goto(w, "notify")   \* the configuration changed
  /\ Result(w, "ok")
  /\ UNCHANGED <<failures, dests, enabled, idx, cur, tally, task, observers, incidents>>

FinishBinaryFailed(w) ==
  /\ LoopDone(w) /\ task[w].saved = {} /\ task[w].kind = "binary" /\ RowThere(w)
  /\ rows' = [rows EXCEPT ![cur[w]] = FailedRow(@, Slot(w), "error", task[w].errs)]
  /\ Flush(w)
  /\ Goto(w, "notify")
  /\ Result(w, "reread")
  /\ UNCHANGED <<failures, dests, enabled, idx, cur, tally, task, observers, incidents>>

NeedsFallback(w) == LoopDone(w) /\ task[w].saved = {} /\ task[w].kind = "text"

\* _save_to_local_fallback: the first enabled local destination, if any.
FallbackStarts(w, d) ==
  /\ NeedsFallback(w) /\ RowThere(w) /\ First(d, LocalDests \intersect dests)
  /\ task' = [task EXCEPT ![w] = FallingBack(@, d)]
  /\ Flush(w)
  /\ Goto(w, "fallback")
  /\ UNCHANGED <<rows, failures, dests, enabled, idx, cur, tally, res, observers, incidents>>

FallbackUnavailable(w) ==
  /\ NeedsFallback(w)
  /\ LocalDests \intersect dests = {} \/ ~RowThere(w)
  /\ Flush(w)
  /\ Goto(w, "fbnotify")
  /\ UNCHANGED <<rows, failures, dests, enabled, idx, cur, tally, task, res, observers, incidents>>

FallbackSaves(w) ==
  /\ pc[w] = "fallback"
  /\ stored' = [stored EXCEPT ![Slot(w)] = @ \union {task[w].local}]
  /\ task' = [task EXCEPT ![w] = FellBack(@)]
  /\ Goto(w, "fbnotify")
  /\ UNCHANGED <<database, idx, cur, tally, res, resolved, shared, incidents>>

FallbackFails(w) ==
  /\ pc[w] = "fallback"
  /\ Goto(w, "fbnotify")
  /\ UNCHANGED <<database, idx, cur, tally, task, res, observers, incidents>>

\* The failure notification is awaited before the outcome is committed.
FallbackCommits(w) ==
  /\ pc[w] = "fbnotify" /\ RowThere(w)
  /\ rows' = [rows EXCEPT ![cur[w]] =
       IF task[w].fb
         THEN WrittenRow(@, Slot(w), task[w].saved, "fallback", {})
         ELSE FailedRow(@, Slot(w), "error", task[w].errs)]
  /\ Flush(w)
  /\ Goto(w, "count")
  /\ Result(w, IF task[w].fb THEN "ok" ELSE "failed")
  /\ UNCHANGED <<failures, dests, enabled, idx, cur, tally, task, observers, incidents>>

NotifyReturns(w) ==
  /\ pc[w] = "notify"
  /\ Goto(w, "count")
  /\ UNCHANGED <<database, idx, cur, tally, task, res, observers, incidents>>

\* StaleDataError: the commit updates a row that is gone.  The session then
\* refuses every further use, so the handler of run_backup_job raises as well
\* and the JobRun row stays as it is.
CommitFails(w) ==
  /\ ~RowThere(w)
  /\ \/ pc[w] \in {"fetch", "fbnotify"}
     \/ LoopDone(w) /\ (task[w].saved # {} \/ task[w].kind = "binary")
  /\ Goto(w, "aborted")
  /\ Forget(w)
  /\ UNCHANGED <<database, observers, incidents>>

\* Seeded fault: every call that returns is taken for a success.
SeesNoException(w) == res[w] # "failed"

\* backup.status read after the call: still loaded, or read from the row.
SeesSuccess(w) ==
  \/ res[w] = "ok"
  \/ res[w] = "reread" /\ RowThere(w) /\ rows[cur[w]].st = "success"

\* A manual trigger whose failed row is gone when it reads backup.status.
Unreadable(w) == w \notin Jobs /\ res[w] = "reread" /\ ~RowThere(w)

TriggerRaises(w) ==
  /\ pc[w] = "count" /\ Unreadable(w)
  /\ Goto(w, "done")
  /\ Forget(w)
  /\ UNCHANGED <<database, observers, incidents>>

CountDevice(w) ==
  /\ pc[w] = "count" /\ ~Unreadable(w)
  /\ tally' = IF w \in Jobs THEN [tally EXCEPT ![w] = CountedIn(@, SeesSuccess(w))]
                            ELSE tally
  /\ idx' = [idx EXCEPT ![w] = @ + 1]
  /\ cur' = [cur EXCEPT ![w] = 0]
  /\ task' = [task EXCEPT ![w] = EmptyTask]
  /\ Result(w, "ok")
  /\ Goto(w, "device")
  /\ UNCHANGED <<database, observers, incidents>>

FinishRun(w) ==
  /\ pc[w] = "device" /\ ~HasDevice(w)
  /\ IF w \in Jobs
       THEN runs' = [runs EXCEPT ![w] =
              [st |-> IF tally[w].fail = 0 THEN "completed" ELSE "failed",
               succ |-> tally[w].succ, fail |-> tally[w].fail]]
       ELSE UNCHANGED runs
  /\ Goto(w, "done")
  /\ Forget(w)
  /\ UNCHANGED <<rows, failures, dests, enabled, observers, incidents>>

-----------------------------------------------------------------------------
(* Everything else that touches the same rows *)

InProgress == {k \in Ids : rows[k].st = "in_progress"}

\* Seeded faults: old rows are marked whatever their status is; the newest of
\* the old rows is left out.
MarkOld(i) ==
  /\ i \in InProgress
  /\ rows' = [k \in Ids |->
       IF k <= i /\ rows[k].st # "absent"
         THEN FailedRow(rows[k], rows[k].content, "stale", {})
         ELSE rows[k]]
  /\ UNCHANGED <<runs, failures, dests, enabled, memory, observers, incidents>>
MarkOlder(i) ==
  /\ i \in InProgress
  /\ rows' = [k \in Ids |->
       IF k < i /\ rows[k].st = "in_progress"
         THEN FailedRow(rows[k], rows[k].content, "stale", {})
         ELSE rows[k]]
  /\ UNCHANGED <<runs, failures, dests, enabled, memory, observers, incidents>>

\* run_maintenance marks the in_progress rows older than an hour.  Ids grow
\* with the time of insertion, so the rows older than a cutoff are those up to i.
MarkStale(i) ==
  /\ i \in InProgress
  /\ rows' = [k \in Ids |->
       IF k <= i /\ rows[k].st = "in_progress"
         THEN FailedRow(rows[k], rows[k].content, "stale", {})
         ELSE rows[k]]
  /\ UNCHANGED <<runs, failures, dests, enabled, memory, observers, incidents>>

\* delete_backup: the ORM detaches the failures of the row before deleting it.
\* Nothing asks whether the backup still runs.
DeleteBackup(i) ==
  /\ incidents < MaxIncidents /\ rows[i].st # "absent"
  /\ rows' = [rows EXCEPT ![i] = AbsentRow]
  /\ failures' = {Detached(f, i) : f \in failures}
  /\ incidents' = incidents + 1
  /\ UNCHANGED <<runs, dests, enabled, memory, observers>>

DeleteDestination(d) ==
  /\ incidents < MaxIncidents /\ d \in dests
  /\ dests' = dests \ {d}
  /\ incidents' = incidents + 1
  /\ UNCHANGED <<rows, runs, failures, enabled, memory, observers>>

DisableDevice(v) ==
  /\ incidents < MaxIncidents /\ v \in enabled
  /\ enabled' = enabled \ {v}
  /\ incidents' = incidents + 1
  /\ UNCHANGED <<rows, runs, failures, dests, memory, observers>>

\* The process dies: every coroutine and session is lost, the rows stay.
\* Workers that have not started yet start after the restart.
Crash ==
  /\ incidents < MaxIncidents
  /\ incidents' = incidents + 1
  /\ pc' = [w \in Workers |-> IF pc[w] \in Stopped THEN pc[w] ELSE "dead"]
  /\ idx' = [w \in Workers |-> 1]
  /\ cur' = [w \in Workers |-> 0]
  /\ tally' = [w \in Workers |-> NoTally]
  /\ task' = [w \in Workers |-> EmptyTask]
  /\ res' = [w \in Workers |-> "ok"]
  /\ UNCHANGED <<database, observers>>

-----------------------------------------------------------------------------
(* Specification *)

\* What a worker does once it has started.
Progress(w) ==
  \/ SkipDevice(w) \/ UnknownEngine(w) \/ NoCredential(w) \/ BeginBackup(w)
  \/ FetchFails(w) \/ \E k \in {"text", "binary"} : FetchSucceeds(w, k)
  \/ \E d \in Dests : \/ SaveReturns(w, d) \/ SaveUnsupported(w, d)
                      \/ SaveRetries(w, d) \/ SaveFails(w, d)
                      \/ FallbackStarts(w, d)
  \/ ObjectDeleted(w) \/ FinishSaved(w) \/ FinishBinaryFailed(w)
  \/ FallbackUnavailable(w) \/ FallbackSaves(w) \/ FallbackFails(w)
  \/ FallbackCommits(w) \/ NotifyReturns(w) \/ CommitFails(w)
  \/ TriggerRaises(w) \/ CountDevice(w) \/ FinishRun(w)

Operators ==
  \/ \E i \in Ids : DeleteBackup(i)
  \/ \E d \in Dests : DeleteDestination(d)
  \/ \E v \in Devices : DisableDevice(v)

Next ==
  \/ \E w \in Workers : StartRun(w) \/ Progress(w)
  \/ \E i \in Ids : MarkStale(i)
  \/ Operators
  \/ Crash

Spec == Init /\ [][Next]_vars

\* The event loop resumes every coroutine; every awaited library call returns or
\* raises (most carry a timeout, a git push is assumed to end); the number of
\* attempts is limited; and the maintenance job runs every day, so it comes to
\* see each row.
FairSpec ==
  /\ Spec
  /\ \A w \in Workers : WF_vars(Progress(w))
  /\ \A i \in Ids : WF_vars(MarkStale(i))

-----------------------------------------------------------------------------
(* Properties *)

Finished(w) == runs[w].st \in {"completed", "failed"}

\* A finished JobRun row counts every device of the job exactly once, whatever
\* was skipped, raised, rolled back or counted in a session before a commit:
\* devices_success + devices_failed = devices_total, and "completed" means that
\* no device failed.
CountersExact ==
  \A w \in Jobs : Finished(w) =>
    /\ runs[w].succ + runs[w].fail = Len(Targets[w])
    /\ (runs[w].st = "completed") <=> (runs[w].fail = 0)

\* The JobRun rows behave as JobLedger promises: counters that a watcher has seen never
\* go back, although failure records roll the session back, and a row is closed once.
Ledger == INSTANCE JobLedger WITH Total <- [w \in Jobs |-> Len(Targets[w])],
                                  ledger <- [w \in Jobs |-> runs[w]]
ImplementsLedger == Ledger!Spec

\* A Backup row that says success holds the configuration of the backup it was
\* inserted for, and every destination its label names accepted that backup,
\* although rows are deleted under running backups and ids are used again: only a
\* row that two backups held at once, its id having been used again, may mix them.
SuccessIsBacked ==
  \A i \in Ids : rows[i].st = "success" /\ rows[i].owner \notin shared =>
    /\ rows[i].content = rows[i].owner
    /\ rows[i].label # {}
    /\ rows[i].label \subseteq stored[rows[i].owner]

\* A job reported "completed" stored every one of its devices somewhere, and no
\* row of it says anything but success, not even one marked stale on the way;
\* devices whose row was another backup's as well are left out.
CompletedMeansStored ==
  \A w \in Jobs : runs[w].st = "completed" =>
    \A n \in {m \in 1 .. Len(Targets[w]) : <<w, m>> \notin shared} :
      /\ stored[<<w, n>>] # {}
      /\ \A i \in Ids : rows[i].owner = <<w, n>> => rows[i].st = "success"

\* No destination of a finished text backup fails silently: each accepted the
\* backup, has a failure record, or is named by the error message of the row,
\* even if the failure record could not be written (a row that another backup
\* wrote as well is left out).
FailedDestinationIsVisible ==
  \A i \in Ids :
    LET s == rows[i].owner IN
    rows[i].st \in {"success", "failed"} /\ rows[i].content = s /\ s # NoSlot
      /\ s \notin shared /\ rows[i].msg # "fallback" =>
    \A d \in resolved[s] : \/ d \in stored[s]
                           \/ d \in rows[i].named
                           \/ \E f \in failures : f.slot = s /\ f.dest = d

\* A verdict stands: once a row says success it says so until it is deleted, and
\* a row that says failed changes only if it was marked stale while its backup
\* was still being written, unless two backups write to it.
VerdictStands ==
  [][\A i \in Ids : rows[i].owner \notin shared =>
       /\ rows[i].st = "success" => rows'[i] \in {rows[i], AbsentRow}
       /\ rows[i].st = "failed" /\ rows'[i].st \notin {"failed", "absent"} =>
            rows[i].msg = "stale" /\ Holders(i) # {}]_vars

\* Every job that starts is finished, unless its coroutine died in a crash or on
\* a session that a deleted row made unusable; then nothing finishes the row.
RunsFinish ==
  \A w \in Jobs : runs[w].st = "running" ~> Finished(w) \/ pc[w] \in {"dead", "aborted"}

\* No Backup row stays in_progress, even when the process crashed or the coroutine
\* that wrote it ended on an exception: maintenance closes it in the end.
NothingStaysInProgress ==
  \A i \in Ids : rows[i].st = "in_progress" ~> rows[i].st # "in_progress"

=============================================================================
