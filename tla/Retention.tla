------------------------------ MODULE Retention ------------------------------
(***************************************************************************)
(* What takes backup files away: the retention sweep of                    *)
(* app/modules/retention/manager.py, the deletions of                      *)
(* app/routers/backups.py and jobs.py, and the purge of pruned rows in     *)
(* app/modules/maintenance.py.                                             *)
(*                                                                         *)
(* File and row live apart: a file is removed in a worker thread while the *)
(* coroutine awaits, and the row is written afterwards.  Sweeps (after     *)
(* every job, daily, on request) and operators run into each other there.  *)
(* Between two awaits a coroutine has the event loop to itself.            *)
(***************************************************************************)
EXTENDS Naturals

CONSTANTS
  Sweepers,     \* coroutines that run run_retention_sweep
  Deleters,     \* requests that delete backups
  Devices,
  Dests,        \* ids of the destination rows, all with a retention_config
  Types,        \* DestinationType
  TypeOf,       \* TypeOf[d]: the type of destination d
  Local,        \* the type whose backend raises when it cannot delete
  MaxId,        \* bound: Backup ids
  MaxBackups,   \* bound: backups ever made
  MaxIncidents, \* bound: crashes and deleted destinations
  Nobody

Procs == Sweepers \union Deleters
Ids == 1 .. MaxId
Births == 1 .. MaxBackups
Fallback == 0   \* the directory of the emergency fallback

ASSUME ProcAssumption == Sweepers \intersect Deleters = {} /\ Nobody \notin Procs
ASSUME DestAssumption ==
  /\ Dests \subseteq Nat \ {0}
  /\ TypeOf \in [Dests -> Types] /\ Local \in Types
  /\ Devices # {}
ASSUME BoundAssumption ==
  MaxId \in Nat /\ MaxBackups \in Nat /\ MaxIncidents \in Nat

VARIABLES
  rows,      \* the backups table
  files,     \* <<backup, place>>: the files that exist
  dests,     \* destinations that exist
  loop,      \* the coroutine the event loop runs, Nobody between two steps
  pc,        \* where each coroutine is
  mem,       \* locals and loaded objects of each coroutine
  births,    \* backups made so far
  decided,   \* observer: backups a policy selected or an operator asked to delete
  torn,      \* observer: backups whose deletion a crash cut in two
  reused,    \* observer: backups that took the id of a row somebody still held
  incidents

rVars == <<rows, files, dests, loop, pc, mem, births, decided, torn, reused, incidents>>

-----------------------------------------------------------------------------
(* Rows and objects *)

\* at: the place of destination_path, the first local one if there is any; label:
\* the types joined in destination_type, none for the label of the fallback; born
\* is an observer that tells two backups with the same id apart.
Row == [st : {"absent", "open", "success"}, dev : Devices, label : SUBSET Types,
        at : Dests \union {Fallback}, pruned : BOOLEAN, born : Births \union {0}]
AbsentRow == [st |-> "absent", dev |-> CHOOSE v \in Devices : TRUE, label |-> {},
              at |-> Fallback, pruned |-> FALSE, born |-> 0]
There(i) == rows[i].st # "absent"
FileOf(r) == <<r.born, r.at>>

\* An object of a session: the id and the row as it was loaded.
Object == Ids \X Row
Load(I) == {<<i, rows[i]>> : i \in I}
IdsOf(O) == {o[1] : o \in O}

\* todo: destinations still to sweep; dest: the one being swept; seen: objects not
\* looked at yet, for a deletion those to delete at the commit; chosen: objects
\* whose file is next; cur, file: the object and the path being deleted; expired:
\* what the last commit or rollback made the session forget.
Memory == [todo : SUBSET Dests, dest : Dests \union {Fallback},
           seen : SUBSET Object, chosen : SUBSET Object, cur : Ids \union {0},
           file : (Births \union {0}) \X (Dests \union {Fallback}),
           expired : SUBSET {"rows", "dests"}]
NoMemory == [todo |-> {}, dest |-> Fallback, seen |-> {}, chosen |-> {},
             cur |-> 0, file |-> <<0, Fallback>>, expired |-> {}]

Running == {"dests", "devices", "prune", "mark", "missed", "erase"}
Waiting == {"pruning", "erasing"}   \* a thread deletes a file

RInit ==
  /\ rows = [i \in Ids |-> AbsentRow]
  /\ files = {}
  /\ dests = Dests
  /\ loop = Nobody
  /\ pc = [p \in Procs |-> "idle"]
  /\ mem = [p \in Procs |-> NoMemory]
  /\ births = 0
  /\ decided = {} /\ torn = {} /\ reused = {}
  /\ incidents = 0

-----------------------------------------------------------------------------
(* The event loop *)

Turn(p) == loop \in {p, Nobody}

\* The coroutine continues at l without an await, or with the memory m.
Continue(p, l, m) ==
  /\ pc' = [pc EXCEPT ![p] = l] /\ mem' = [mem EXCEPT ![p] = m] /\ loop' = p
\* It awaits at l: others may run.
Await(p, l, m) ==
  /\ pc' = [pc EXCEPT ![p] = l] /\ mem' = [mem EXCEPT ![p] = m] /\ loop' = Nobody
\* It returns or raises; its session is closed.
Finish(p) ==
  /\ pc' = [pc EXCEPT ![p] = "idle"] /\ mem' = [mem EXCEPT ![p] = NoMemory]
  /\ loop' = Nobody

\* The object of a session as it reads now: what was loaded, or after a commit or
\* a rollback the row that has the id by then.
Reads(p, o) == IF "rows" \in mem[p].expired THEN rows[o[1]] ELSE o[2]
Vanished(p, O) == "rows" \in mem[p].expired /\ \E o \in O : ~There(o[1])
Expire(m) == [m EXCEPT !.expired = {"rows", "dests"}, !.cur = 0, !.file = NoMemory.file]

-----------------------------------------------------------------------------
(* run_retention_sweep *)

StartSweep(p) ==
  /\ pc[p] = "idle" /\ Turn(p)
  /\ Continue(p, "dests", [NoMemory EXCEPT !.todo = dests])
  /\ UNCHANGED <<rows, files, dests, births, decided, torn, reused, incidents>>

\* The query for one destination: by type alone, whoever stored the file.
Matches(i, d) ==
  /\ rows[i].st = "success" /\ ~rows[i].pruned
  /\ rows[i].label = {TypeOf[d]}

\* The next destination in the order of the ids.  Its object was loaded before the
\* first commit of the sweep: deleted since, it raises and ends the sweep.
NextDest(p) ==
  /\ pc[p] = "dests" /\ Turn(p)
  /\ \E d \in mem[p].todo :
       /\ \A e \in mem[p].todo : d <= e
       /\ IF "dests" \in mem[p].expired /\ d \notin dests
            THEN Finish(p)
            ELSE Continue(p, "devices",
                   [mem[p] EXCEPT !.todo = @ \ {d}, !.dest = d,
                      !.seen = Load({i \in Ids : Matches(i, d)}),
                      !.expired = @ \ {"rows"}])
  /\ UNCHANGED <<rows, files, dests, births, decided, torn, reused, incidents>>

EndSweep(p) ==
  /\ pc[p] = "dests" /\ Turn(p) /\ mem[p].todo = {}
  /\ Finish(p)
  /\ UNCHANGED <<rows, files, dests, births, decided, torn, reused, incidents>>

\* Seeded fault: the loop runs over all backups of the device.
WholeGroup(group, selected) == group
ToPrune(group, selected) == selected

\* compute_backups_to_prune for the next device: the policy selects any of the
\* backups it is shown.  It reads every timestamp, which raises for a vanished row.
NextDevice(p) ==
  /\ pc[p] = "devices" /\ Turn(p)
  /\ \E o \in mem[p].seen :
       LET group == {x \in mem[p].seen : x[2].dev = o[2].dev} IN
       IF Vanished(p, group)
         THEN Finish(p) /\ UNCHANGED decided
         ELSE \E selected \in SUBSET group :
                /\ Continue(p, "prune", [mem[p] EXCEPT !.seen = @ \ group,
                                           !.chosen = ToPrune(group, selected)])
                /\ decided' = decided \union {Reads(p, x).born : x \in selected}
  /\ UNCHANGED <<rows, files, dests, births, torn, reused, incidents>>

LastDevice(p) ==
  /\ pc[p] = "devices" /\ Turn(p) /\ mem[p].seen = {}
  /\ Continue(p, "dests", mem[p])
  /\ UNCHANGED <<rows, files, dests, births, decided, torn, reused, incidents>>

GroupDone(p) ==
  /\ pc[p] = "prune" /\ Turn(p) /\ mem[p].chosen = {}
  /\ Continue(p, "devices", mem[p])
  /\ UNCHANGED <<rows, files, dests, births, decided, torn, reused, incidents>>

\* The next candidate.  Its row gone, the read raises and so does the log line of
\* the handler, which reads the id: the sweep ends.  Its destination gone, the
\* candidate is an error.  A local file that is not there is not awaited.
Candidate(p) ==
  /\ pc[p] = "prune" /\ Turn(p)
  /\ \E o \in mem[p].chosen :
       LET m == [mem[p] EXCEPT !.chosen = @ \ {o}, !.cur = o[1],
                               !.file = FileOf(Reads(p, o))]
       IN IF Vanished(p, {o}) THEN Finish(p)
          ELSE IF "rows" \in m.expired /\ m.dest \notin dests
            THEN Continue(p, "prune", Expire(m))
          ELSE IF TypeOf[m.dest] = Local /\ m.file \notin files
            THEN Continue(p, "mark", m)
          ELSE Await(p, "pruning", m)
  /\ UNCHANGED <<rows, files, dests, births, decided, torn, reused, incidents>>

\* Seeded fault: the errors of every backend are only logged.
AlwaysLogged(t) == FALSE
\* Only the local backend raises when it cannot delete; the others log it.
Raises(t) == t = Local

\* The thread of backend.delete: it removes the file or fails.
Prunes(p) ==
  /\ pc[p] = "pruning"
  /\ \/ /\ mem[p].file \in files /\ files' = files \ {mem[p].file}
        /\ pc' = [pc EXCEPT ![p] = "mark"]
     \/ /\ pc' = [pc EXCEPT ![p] = IF Raises(TypeOf[mem[p].dest]) THEN "missed" ELSE "mark"]
        /\ UNCHANGED files
  /\ UNCHANGED <<rows, dests, loop, mem, births, decided, torn, reused, incidents>>

\* Seeded fault: the assignment of is_pruned is lost.
Unmarked(r) == r
Marked(r) == [r EXCEPT !.pruned = TRUE]

\* is_pruned and its commit.  The row gone, the UPDATE fails and the log line of
\* the handler raises again.
Mark(p) ==
  /\ pc[p] = "mark" /\ Turn(p)
  /\ IF There(mem[p].cur)
       THEN /\ rows' = [rows EXCEPT ![mem[p].cur] = Marked(@)]
            /\ Continue(p, "prune", Expire(mem[p]))
       ELSE Finish(p) /\ UNCHANGED rows
  /\ UNCHANGED <<files, dests, births, decided, torn, reused, incidents>>

\* The handler: rollback, and a log line that reads the id.
Missed(p) ==
  /\ pc[p] = "missed" /\ Turn(p)
  /\ IF There(mem[p].cur) THEN Continue(p, "prune", Expire(mem[p])) ELSE Finish(p)
  /\ UNCHANGED <<rows, files, dests, births, decided, torn, reused, incidents>>

-----------------------------------------------------------------------------
(* Deletion by an operator: one backup, a batch, or the backups of a job run *)

AskDelete(p, I) ==
  /\ pc[p] = "idle" /\ Turn(p)
  /\ I # {} /\ \A i \in I : There(i)
  /\ Continue(p, "erase", [NoMemory EXCEPT !.seen = Load(I), !.chosen = Load(I)])
  /\ decided' = decided \union {rows[i].born : i \in I}
  /\ UNCHANGED <<rows, files, dests, births, torn, reused, incidents>>

\* _delete_backup_file finds a backend: the label is a single type and, unless it
\* is local, a destination of that type is left.
Erasable(r) ==
  /\ r.st = "success"
  /\ \/ r.label = {Local}
     \/ \E d \in dests : r.label = {TypeOf[d]}

EraseFile(p) ==
  /\ pc[p] = "erase" /\ Turn(p)
  /\ \E o \in mem[p].chosen :
       LET m == [mem[p] EXCEPT !.chosen = @ \ {o}, !.file = FileOf(o[2])]
       IN IF Erasable(o[2]) /\ (o[2].label = {Local} => m.file \in files)
            THEN Await(p, "erasing", m)
            ELSE Continue(p, "erase", m)
  /\ UNCHANGED <<rows, files, dests, births, decided, torn, reused, incidents>>

\* The thread; whatever it raises is logged.
Erases(p) ==
  /\ pc[p] = "erasing"
  /\ pc' = [pc EXCEPT ![p] = "erase"]
  /\ files' \in {files, files \ {mem[p].file}}
  /\ UNCHANGED <<rows, dests, loop, mem, births, decided, torn, reused, incidents>>

\* All rows are deleted in one commit after the last file.
CommitDelete(p) ==
  /\ pc[p] = "erase" /\ Turn(p) /\ mem[p].chosen = {}
  /\ rows' = [i \in Ids |-> IF i \in IdsOf(mem[p].seen) THEN AbsentRow ELSE rows[i]]
  /\ Finish(p)
  /\ UNCHANGED <<files, dests, births, decided, torn, reused, incidents>>

-----------------------------------------------------------------------------
(* Backups, the purge, and what goes wrong *)

Held(i) == \E p \in Procs : \/ i \in IdsOf(mem[p].seen \union mem[p].chosen)
                            \/ i = mem[p].cur
NextId(i) ==
  /\ \A k \in Ids : k >= i => ~There(k)
  /\ i > 1 => There(i - 1)

NewBackup(i, v) ==
  /\ loop = Nobody /\ births < MaxBackups
  /\ NextId(i)
  /\ births' = births + 1
  /\ rows' = [rows EXCEPT ![i] = [AbsentRow EXCEPT !.st = "open", !.dev = v,
                                                   !.born = births + 1]]
  /\ reused' = IF Held(i) THEN reused \union {births + 1} ELSE reused
  /\ UNCHANGED <<files, dests, loop, pc, mem, decided, torn, incidents>>

\* _summarize_results: the types of the destinations that accepted the backup,
\* joined, and the first local path, or the first.
Primary(S, d) ==
  LET locals == {e \in S : TypeOf[e] = Local}
      among == IF locals = {} THEN S ELSE locals
  IN d \in among /\ \A e \in among : d <= e

FinishBackup(i) ==
  /\ loop = Nobody /\ rows[i].st = "open"
  /\ \E S \in SUBSET dests :
       IF S = {}
         THEN /\ rows' = [rows EXCEPT ![i].st = "success"]   \* the fallback
              /\ files' = files \union {<<rows[i].born, Fallback>>}
         ELSE \E d \in S :
              /\ Primary(S, d)
              /\ rows' = [rows EXCEPT ![i].st = "success", ![i].at = d,
                                      ![i].label = {TypeOf[e] : e \in S}]
              /\ files' = files \union {<<rows[i].born, e>> : e \in S}
  /\ UNCHANGED <<dests, loop, pc, mem, births, decided, torn, reused, incidents>>

\* The purge of rows pruned ninety days ago, longer than any sweep lasts.
Purge(I) ==
  /\ loop = Nobody /\ I # {}
  /\ \A i \in I : There(i) /\ rows[i].pruned /\ ~Held(i)
  /\ rows' = [i \in Ids |-> IF i \in I THEN AbsentRow ELSE rows[i]]
  /\ UNCHANGED <<files, dests, loop, pc, mem, births, decided, torn, reused, incidents>>

DeleteDest(d) ==
  /\ loop = Nobody /\ incidents < MaxIncidents /\ d \in dests
  /\ dests' = dests \ {d}
  /\ incidents' = incidents + 1
  /\ UNCHANGED <<rows, files, loop, pc, mem, births, decided, torn, reused>>

\* A successful backup whose file is gone although nothing says so.
Lost(i) == rows[i].st = "success" /\ ~rows[i].pruned /\ FileOf(rows[i]) \notin files

Crash ==
  /\ incidents < MaxIncidents
  /\ incidents' = incidents + 1
  /\ torn' = torn \union {rows[i].born : i \in {k \in Ids : Lost(k)}}
  /\ pc' = [p \in Procs |-> "idle"]
  /\ mem' = [p \in Procs |-> NoMemory]
  /\ loop' = Nobody
  /\ UNCHANGED <<rows, files, dests, births, decided, reused>>

-----------------------------------------------------------------------------
(* Specification *)

Sweep(p) ==
  \/ NextDest(p) \/ EndSweep(p) \/ NextDevice(p) \/ LastDevice(p) \/ GroupDone(p)
  \/ Candidate(p) \/ Prunes(p) \/ Mark(p) \/ Missed(p)
Deletion(p) == EraseFile(p) \/ Erases(p) \/ CommitDelete(p)

RNext ==
  \/ \E p \in Sweepers : StartSweep(p) \/ Sweep(p)
  \/ \E p \in Deleters : Deletion(p) \/ \E I \in SUBSET Ids : AskDelete(p, I)
  \/ \E i \in Ids : FinishBackup(i) \/ \E v \in Devices : NewBackup(i, v)
  \/ \E I \in SUBSET Ids : Purge(I)
  \/ \E d \in Dests : DeleteDest(d)
  \/ Crash

RSpec == RInit /\ [][RNext]_rVars

-----------------------------------------------------------------------------
(* Properties *)

\* Types; and the event loop is never kept by a coroutine that waits.
RTypeOK ==
  /\ rows \in [Ids -> Row]
  /\ files \subseteq Births \X (Dests \union {Fallback})
  /\ dests \subseteq Dests
  /\ pc \in [Procs -> {"idle"} \union Running \union Waiting]
  /\ mem \in [Procs -> Memory]
  /\ births \in 0 .. MaxBackups
  /\ decided \subseteq Births /\ torn \subseteq Births /\ reused \subseteq Births
  /\ incidents \in 0 .. MaxIncidents
  /\ loop # Nobody => loop \in Procs /\ pc[loop] \in Running

\* A row that says pruned has lost its local file: the sweep writes the row after
\* the file, whoever else deletes, whatever fails, and wherever the process dies.
\* Not so for a backup that got the id of a row a coroutine still held: SQLite gives
\* the highest id out again, and the sweep marks whatever row has it now.
PrunedMeansGone ==
  \A i \in Ids :
    There(i) /\ rows[i].born \notin reused /\ rows[i].pruned /\ rows[i].label = {Local} =>
      FileOf(rows[i]) \notin files

\* "commit immediately so DB reflects deleted file" (manager.py:81): a successful
\* backup that is not marked pruned still has its file, except while the sweep or
\* the request that deleted it is about to write the row, or after a crash there.
RowReflectsFile ==
  \A i \in Ids :
    Lost(i) => \/ rows[i].born \in torn
               \/ \E p \in Sweepers : pc[p] = "mark" /\ mem[p].cur = i
               \/ \E p \in Deleters : i \in IdsOf(mem[p].seen)

\* A file disappears only if a policy has selected its backup or an operator has
\* asked for it: never one the policy of the same sweep decided to keep.  A sweep
\* that reads the path of its next candidate after a commit (manager.py:74) takes
\* the file of whatever backup has the id now: that of a reused one, no other.
FilesLeaveByDecision ==
  [][\A f \in files \ files' : f[1] \in decided \union reused]_rVars
=============================================================================
