---------------------------- MODULE SchemaProofs ----------------------------
(***************************************************************************)
(* Proofs about Schema, for every installation of any revision, with any   *)
(* tables beside it, and any number of starts, deaths and upgrades.        *)
(*                                                                         *)
(* A script is prepared against the database it is then run on, so what is *)
(* left of it can be judged statement by statement.  WellFormed and Suits  *)
(* say what it can look like: a table is rebuilt by four statements in a   *)
(* row, nothing else touches that table, writes are committed, and every   *)
(* statement can run on what its predecessors leave.  Each statement       *)
(* leaves a rest that is again well formed and suits the new database, and *)
(* each stage and revision is shown to prepare such a script from any      *)
(* database that the invariant allows; that is the bulk of this file.      *)
(* Due says what a statement not yet run owes to the end of its stage,     *)
(* MarksMean and RevisionsMean what a migration or revision on record      *)
(* stands for, and Kept that the rows of a table are always where a        *)
(* restart finds them.                                                     *)
(***************************************************************************)
EXTENDS Schema, TLAPS

Tables == DOMAIN Models
\* The spare tables under whose names a table is rebuilt.
Spares(t) == (IF t \in DOMAIN Tmp THEN {Tmp[t]} ELSE {})
               \union (IF t = "credentials" THEN {"credentials_new"} ELSE {})

KeysOff == ForeignKeys(FALSE)
KeysOn == ForeignKeys(TRUE)

-----------------------------------------------------------------------------
(* Scripts, as what is left of them *)

\* A table is rebuilt by four statements in a row.
InARow(s) ==
  \A i \in DOMAIN s :
    /\ s[i].do = "create" /\ s[i].table \notin Tables =>
         \E t \in Tables :
           /\ s[i].table \in Spares(t) /\ i + 3 \in DOMAIN s
           /\ s[i + 1] = Copy(t, s[i].table) /\ s[i + 2] = Drop(t)
           /\ s[i + 3] = Rename(s[i].table, t)
    /\ s[i].do = "copy" =>
         /\ s[i].table \in Tables /\ s[i].new \in Spares(s[i].table)
         /\ i + 2 \in DOMAIN s /\ s[i + 1] = Drop(s[i].table)
         /\ s[i + 2] = Rename(s[i].new, s[i].table)
         /\ i > 1 => s[i - 1].do = "create" /\ s[i - 1].table = s[i].new
    /\ s[i].do = "drop" =>
         /\ s[i].table \in Tables /\ i + 1 \in DOMAIN s
         /\ \E x \in Spares(s[i].table) : /\ s[i + 1] = Rename(x, s[i].table)
                                          /\ i > 1 => s[i - 1] = Copy(s[i].table, x)
    /\ s[i].do = "rename" =>
         /\ s[i].new \in Tables /\ s[i].table \in Spares(s[i].new)
         /\ i > 1 => s[i - 1] = Drop(s[i].new)

\* Nothing else is done to a table that is rebuilt.
Rebuilt(s, t) == \E i \in DOMAIN s : s[i].do = "rename" /\ s[i].new = t
LeftAlone(s) ==
  /\ \A i, j \in DOMAIN s :
       s[i].do = "rename" /\ s[j].do = "rename" /\ s[i].new = s[j].new => i = j
  /\ \A i \in DOMAIN s :
       /\ s[i].do \in {"add", "add_if_missing"} => s[i].table \in Tables /\ ~Rebuilt(s, s[i].table)
       /\ s[i].do = "create" /\ s[i].table \in Tables => ~Rebuilt(s, s[i].table)
       /\ s[i].do = "create_if_missing" => s[i].table \in Tables /\ \A t \in Tables : ~Rebuilt(s, t)
       /\ s[i].do = "drop_if_exists" =>
            s[i].table = "credentials_new" /\ \A t \in Tables : ~Rebuilt(s, t)

\* What writes rows is committed at the end, and what records the script comes just before.
Closes(s) ==
  /\ (\E i \in DOMAIN s : s[i].do \in Writes) => s[Len(s)] = Commit
  /\ \A i \in DOMAIN s : s[i].do \in {"mark", "version"} => i = Len(s) - 1

\* The keys are switched on again, outside a transaction.
KeysBack(s) ==
  \A i \in DOMAIN s :
    /\ s[i] = KeysOff => \E j \in DOMAIN s : j > i /\ s[j] = KeysOn
    /\ s[i] = KeysOn => i = 1 \/ s[i - 1] = Commit

\* Both values that v161 had swapped are corrected in one transaction.
Swaps(s) ==
  \A i \in DOMAIN s : s[i] = Correct("updated_at") => i + 1 \in DOMAIN s /\ s[i + 1] = Correct("group")

WellFormed(s) == InARow(s) /\ LeftAlone(s) /\ Closes(s) /\ KeysBack(s) /\ Swaps(s)

\* What is left of the script suits the database in the middle of rebuilding a table.
Suits(db, s, opened) ==
  /\ \A i \in DOMAIN s : s[i].do = "create" /\ s[i].table \notin Tables =>
       \A t \in Tables : s[i + 1] = Copy(t, s[i].table) /\ Has(db, t) => db.def[t] \subseteq s[i].cols
  /\ \A t \in Tables : \A x \in Spares(t) :
       /\ s # <<>> /\ s[1] = Copy(t, x) =>
            Has(db, x) /\ (Has(db, t) => db.def[t] \subseteq db.def[x])
       /\ s # <<>> /\ s[1] = Drop(t) /\ s[2] = Rename(x, t) =>
            /\ opened /\ Has(db, x)
            /\ Has(db, t) => db.def[t] \subseteq db.def[x]
            /\ t \in db.holds => x \in db.holds
       /\ s # <<>> /\ s[1] = Rename(x, t) => opened /\ Has(db, x)

\* Where a table is: under the other name between its drop and the renaming.
Place(s, t) == IF s # <<>> /\ s[1].do = "rename" /\ s[1].new = t THEN s[1].table ELSE t

There(db, t, c) == Has(db, t) /\ c \in db.def[t]

\* What the database has or will have when the script is done
ColumnDue(db, s, x, c) ==
  \/ There(db, x, c)
  \/ \E i \in DOMAIN s : s[i] = Add(x, c) \/ s[i] = AddIfMissing(x, c)
  \/ \E i \in DOMAIN s : s[i].do = "create" /\ s[i].table = x /\ c \in s[i].cols
Due(db, s, t, c) ==
  \/ ColumnDue(db, s, t, c)
  \/ \E x \in Spares(t) : ColumnDue(db, s, x, c) /\ \E i \in DOMAIN s : s[i] = Rename(x, t)
Creates(s, t) ==
  \E i \in DOMAIN s : s[i].do \in {"create", "create_if_missing"} /\ s[i].table = t
TableDue(db, s, t) == Has(db, t) \/ Creates(s, t) \/ Rebuilt(s, t)

-----------------------------------------------------------------------------
(* The state *)

\* The start-up is working on a stage.
Starting == stage \in 1 .. LastStage

\* Every script belongs to the stage or to the revision that runs.
Mine ==
  /\ todo # <<>> => Upgrading \/ Starting
  /\ Upgrading => stage \in {0, Serving} /\ keys
  /\ ~keys => \E i \in DOMAIN todo : todo[i] = KeysOn
  /\ open => todo # <<>> /\ todo[Len(todo)] = Commit
  /\ open => \A i \in DOMAIN todo : todo[i] = KeysOn => i > 1
  /\ ~open => work = disk
  /\ \A i \in DOMAIN todo :
       /\ todo[i].do = "mark" => Starting /\ todo[i] = Mark(Stages[stage])
       /\ todo[i].do = "version" => Upgrading /\ todo[i] = Version(work.rev + 1)
       /\ Upgrading => /\ todo[i].do \notin {"mark", "pragma", "create_if_missing", "drop_if_exists"}
                       /\ todo[i].do = "create" => todo[i].table # "credentials_new"

\* Credentials have no other columns, so that a rebuilt one has all of them.
CredentialTables == {"credentials"} \union Spares("credentials")
CredentialsKnown ==
  /\ \A x \in CredentialTables :
       /\ Has(work, x) => work.def[x] \subseteq Models["credentials"]
       /\ Has(disk, x) => disk.def[x] \subseteq Models["credentials"]
  /\ \A i \in DOMAIN todo :
       /\ todo[i].do \in {"create", "create_if_missing"} /\ todo[i].table \in CredentialTables
            => todo[i].cols \subseteq Models["credentials"]
       /\ todo[i].do \in {"add", "add_if_missing"} /\ todo[i].table = "credentials"
            => todo[i].col \in Models["credentials"]

\* The rows are in place on disk, and under one name or the other in the transaction.
Kept == /\ \A t \in had : Place(todo, t) \in work.holds
        /\ had \subseteq disk.holds

\* The columns that the migrations promise, by their stages
Promised ==
  {<<4, "credentials", "group">>, <<5, "devices", "proxy_host">>,
   <<5, "devices", "proxy_port">>, <<5, "devices", "proxy_credential_id">>,
   <<6, "groups", "destination_ids">>, <<6, "groups", "backup_engine">>,
   <<6, "groups", "notification_ids">>, <<7, "credentials", "username_NULL">>}
RepairStage == 8

\* A migration on record has put its columns in place.
MarksMean ==
  \A t \in Tables, c \in Columns, k \in 1 .. LastStage : <<k, t, c>> \in Promised =>
    /\ Stages[k] \in work.marks => There(work, Place(todo, t), c)
    /\ Stages[k] \in disk.marks => There(disk, t, c)
\* The two values that v161 had swapped are corrected together, and v161_repair is on record
\* only without them.
Repaired ==
  /\ "v161_repair" \in work.marks => work.wrong \intersect Swap = {}
  /\ "v161_repair" \in disk.marks => disk.wrong \intersect Swap = {}
  /\ "group" \in disk.wrong => "updated_at" \in disk.wrong
  /\ "group" \in work.wrong /\ "updated_at" \notin work.wrong =>
       open /\ todo # <<>> /\ todo[1] = Correct("group")

\* A revision on record has made its tables and columns, and so have all before it.
RevisionsMean ==
  /\ \A t \in Tables, c \in Columns, n \in 1 .. Newest : <<t, c, n>> \in Later =>
       /\ n <= work.rev => There(work, Place(todo, t), c)
       /\ n <= disk.rev => There(disk, t, c)
  /\ \A t \in DOMAIN Since :
       /\ Since[t] <= work.rev => Has(work, Place(todo, t))
       /\ Since[t] <= disk.rev => Has(disk, t)
  /\ alembic = "done" => disk.rev = Newest /\ work.rev = Newest

\* What the stages up to this one promise is there, or still to come in the script.
StageGoals ==
  Starting =>
    /\ stage >= 2 => \A t \in Tables : TableDue(work, todo, t)
    /\ stage >= 3 /\ Has(work, "credentials_new") =>
         \E i \in DOMAIN todo : \/ todo[i] = DropIfExists("credentials_new")
                                \/ todo[i] = Rename("credentials_new", "credentials")
    /\ \A t \in Tables, c \in Columns, k \in 1 .. LastStage :
         <<k, t, c>> \in Promised /\ k <= stage => Due(work, todo, t, c)
\* A wrong value that the stages up to this one correct is corrected, or the script will do so.
CorrectionGoals ==
  \A v \in work.wrong :
    (v \in Swap /\ stage \in RepairStage .. LastStage) \/ (v \in Orphans /\ stage = LastStage)
      => \E i \in DOMAIN todo : todo[i] = Correct(v)

\* The same for the revision that the script will put on record.
RevisionGoals ==
  (\E i \in DOMAIN todo : todo[i].do = "version") =>
    /\ \A t \in Tables, c \in Columns, n \in 1 .. Newest :
         <<t, c, n>> \in Later /\ n <= work.rev + 1 => Due(work, todo, t, c)
    /\ \A t \in DOMAIN Since : Since[t] <= work.rev + 1 => TableDue(work, todo, t)

\* A container that serves has all this, whatever Alembic is doing to it.
Served ==
  stage = Serving =>
    /\ \A t \in Tables : Has(work, Place(todo, t)) /\ Has(disk, t)
    /\ \A t \in Tables, c \in Columns, k \in 1 .. LastStage : <<k, t, c>> \in Promised =>
         There(work, Place(todo, t), c) /\ There(disk, t, c)
    /\ ~Has(work, "credentials_new") /\ ~Has(disk, "credentials_new")
    /\ work.wrong = {} /\ disk.wrong = {}

-----------------------------------------------------------------------------
(* Alembic alone *)

Optional == {"notification_channels", "users"}

\* The database has nothing that the chain does not make up to revision n.
NoExtras(db, s, n) ==
  /\ \A t \in Tables, c \in Columns : Due(db, s, t, c) => \E m \in 1 .. n : <<t, c, m>> \in Later
  /\ \A t \in Tables : TableDue(db, s, t) => t \in DOMAIN Since /\ (Since[t] <= n \/ t \in Optional)
  /\ \A x \in DOMAIN db.def : x \notin Tables => \E i \in DOMAIN s, t \in Tables : s[i] = Rename(x, t)

\* Every statement of the script will find what it needs.
Fits(db, s) ==
  \A i \in DOMAIN s :
    /\ s[i].do = "add" =>
         /\ ~There(db, s[i].table, s[i].col)
         /\ Has(db, s[i].table) \/ \E j \in 1 .. i - 1 : s[j].do = "create" /\ s[j].table = s[i].table
         /\ \A j \in DOMAIN s : s[j].do \in {"add", "add_if_missing"} /\ s[j].table = s[i].table
                                  /\ s[j].col = s[i].col => j = i
         /\ \A j \in DOMAIN s : s[j].do = "create" /\ s[j].table = s[i].table => s[i].col \notin s[j].cols
    /\ s[i].do = "add_if_missing" => Has(db, s[i].table)
    /\ s[i].do = "create" =>
         /\ ~Has(db, s[i].table)
         /\ \A j \in DOMAIN s : s[j].do = "create" /\ s[j].table = s[i].table => j = i
         /\ s[i].table \notin Tables => \A t \in Tables : s[i + 1] = Copy(t, s[i].table) =>
              Has(db, t) /\ s[i].cols \ Flags \subseteq db.def[t]
    /\ i = 1 =>
         /\ s[1].do = "copy" =>
              Has(db, s[1].table) /\ db.def[s[1].new] \ Flags \subseteq db.def[s[1].table]
         /\ s[1].do = "drop" => Has(db, s[1].table)
         /\ s[1].do = "rename" => Has(db, s[1].table) /\ ~Has(db, s[1].new)

\* While Alembic knows what is there, its revision never meets what it makes.
Alone ==
  untouched =>
    /\ stage = 0 /\ alembic \in {"never", "running", "done"}
    /\ IF todo = <<>> THEN NoExtras(work, todo, work.rev)
       ELSE Fits(work, todo)
              /\ NoExtras(work, todo, IF \E i \in DOMAIN todo : todo[i].do = "version"
                                      THEN work.rev + 1 ELSE work.rev)
-----------------------------------------------------------------------------
(* Statements *)

\* A statement has the fields of its kind.
Kind(a) ==
  /\ a.do \in {"create", "create_if_missing"} =>
       /\ a.table \in Names /\ a.cols \subseteq Columns
       /\ a = [do |-> a.do, table |-> a.table, cols |-> a.cols]
  /\ a.do \in {"add", "add_if_missing"} => a.table \in Names /\ a.col \in Columns
  /\ a.do = "add" => a = Add(a.table, a.col)
  /\ a.do = "add_if_missing" => a = AddIfMissing(a.table, a.col)
  /\ a.do \in {"drop", "drop_if_exists"} => a.table \in Names
  /\ a.do = "drop" => a = Drop(a.table)
  /\ a.do = "drop_if_exists" => a = DropIfExists(a.table)
  /\ a.do \in {"rename", "copy"} => a.table \in Names /\ a.new \in Names
  /\ a.do = "rename" => a = Rename(a.table, a.new)
  /\ a.do = "copy" => a = Copy(a.table, a.new)
  /\ a.do = "correct" => a = Correct(a.value)
  /\ a.do = "mark" => a.name \in MigrationNames /\ a = Mark(a.name)
  /\ a.do = "version" => \E n \in 1 .. Newest : a = Version(n)
  /\ a.do = "pragma" => a.on \in BOOLEAN /\ a = ForeignKeys(a.on)
  /\ a.do = "commit" => a = Commit
  /\ a.do \in {"create", "create_if_missing", "add", "add_if_missing", "drop",
               "drop_if_exists", "rename", "copy", "correct", "mark", "version",
               "pragma", "commit"}

\* Every statement is one of the forms that the scripts are written in.
LEMMA Kinds ==
  ASSUME NEW a \in Statements
  PROVE Kind(a)
  <1>1. CASE a \in [do : {"create", "create_if_missing"}, table : Names, cols : SUBSET Columns]
    BY <1>1 DEF Kind
  <1>2. CASE a \in [do : {"add", "add_if_missing"}, table : Names, col : Columns]
    BY <1>2 DEF Kind, Add, AddIfMissing
  <1>3. CASE a \in [do : {"drop_if_exists", "drop"}, table : Names]
    BY <1>3 DEF Kind, Drop, DropIfExists
  <1>4. CASE a \in [do : {"rename", "copy"}, table : Names, new : Names]
    BY <1>4 DEF Kind, Rename, Copy
  <1>5. CASE a \in [do : {"correct"}, value : Swap \union Orphans \union {"config_json"}]
    BY <1>5 DEF Kind, Correct
  <1>6. CASE a \in [do : {"mark"}, name : MigrationNames]
    BY <1>6 DEF Kind, Mark
  <1>7. CASE a \in [do : {"version"}, rev : 1 .. Newest]
    <2>1. a.do = "version" /\ a.rev \in 1 .. Newest /\ a = [do |-> "version", rev |-> a.rev]
      BY <1>7
    <2> QED BY <2>1 DEF Version, Kind
  <1>8. CASE a \in [do : {"pragma"}, on : BOOLEAN]
    BY <1>8 DEF Kind, ForeignKeys
  <1>9. CASE a = Commit
    BY <1>9 DEF Kind, Commit
  <1> QED BY <1>1, <1>2, <1>3, <1>4, <1>5, <1>6, <1>7, <1>8, <1>9 DEF Statements

\* What a statement does to the database, and that it does nothing else.
Does(a, db, b) ==
  /\ a.do = "create" => b.def = With(db.def, a.table, a.cols)
  /\ a.do = "create_if_missing" =>
       b.def = IF Has(db, a.table) THEN db.def ELSE With(db.def, a.table, a.cols)
  /\ a.do \in {"add", "add_if_missing"} =>
       b.def = With(db.def, a.table, db.def[a.table] \union {a.col})
  /\ a.do \in {"drop", "drop_if_exists"} =>
       b.def = Without(db.def, a.table) /\ b.holds = db.holds \ {a.table}
  /\ a.do = "rename" =>
       /\ b.def = With(Without(db.def, a.table), a.new, db.def[a.table])
       /\ b.holds = {IF t = a.table THEN a.new ELSE t : t \in db.holds}
  /\ a.do = "copy" =>
       b.holds = db.holds \union (IF a.table \in db.holds THEN {a.new} ELSE {})
  /\ a.do \notin {"create", "create_if_missing", "add", "add_if_missing", "drop",
                  "drop_if_exists", "rename"} => b.def = db.def
  /\ a.do \notin {"drop", "drop_if_exists", "rename", "copy"} => b.holds = db.holds
  /\ b.marks = IF a.do = "mark" THEN db.marks \union {a.name} ELSE db.marks
  /\ b.rev = IF a.do = "version" THEN a.rev ELSE db.rev
  /\ b.wrong = IF a.do = "correct" THEN db.wrong \ {a.value} ELSE db.wrong
  /\ b = [def |-> b.def, holds |-> b.holds, marks |-> b.marks, rev |-> b.rev,
          wrong |-> b.wrong]

\* A statement that SQLite accepts does what its form says, to each part of the database.
LEMMA Effect ==
  ASSUME NEW db, IsDb(db), NEW a \in Statements
  PROVE Does(a, db, After(a, db))
  <1>1. db = [def |-> db.def, holds |-> db.holds, marks |-> db.marks, rev |-> db.rev,
              wrong |-> db.wrong]
    BY DEF IsDb
  <1>k. a.do \in {"create", "create_if_missing", "add", "add_if_missing", "drop",
                     "drop_if_exists", "rename", "copy", "correct", "mark", "version",
                     "pragma", "commit"}
    BY Kinds DEF Kind
  <1>2. CASE a.do = "create"
    BY <1>1, <1>2 DEF After, Does
  <1>3. CASE a.do = "create_if_missing"
    BY <1>1, <1>3 DEF After, Does
  <1>4. CASE a.do \in {"add", "add_if_missing"}
    BY <1>1, <1>4 DEF After, Does
  <1>5. CASE a.do \in {"drop", "drop_if_exists"}
    BY <1>1, <1>5 DEF After, Does
  <1>6. CASE a.do = "rename"
    BY <1>1, <1>6 DEF After, Does
  <1>7. CASE a.do = "copy"
    BY <1>1, <1>7 DEF After, Does
  <1>8. CASE a.do \in {"correct", "mark", "version"}
    BY <1>1, <1>8 DEF After, Does
  <1>9. CASE a.do \in {"pragma", "commit"}
    BY <1>1, <1>9 DEF After, Does
  <1> QED BY <1>k, <1>2, <1>3, <1>4, <1>5, <1>6, <1>7, <1>8, <1>9

\* It leaves a database, if what it copies to is there.
LEMMA EffectTyped ==
  ASSUME NEW db, IsDb(db), NEW a \in Statements, NEW k, Possible(a, db, k),
         a.do = "copy" => a.new \in DOMAIN db.def
  PROVE IsDb(After(a, db))
  <1> DEFINE b == After(a, db)
  <1>d. Does(a, db, b) /\ Kind(a)
    BY Effect, Kinds
  <1> HIDE DEF b
  <1>1. b = [def |-> b.def, holds |-> b.holds, marks |-> b.marks, rev |-> b.rev, wrong |-> b.wrong]
    BY <1>d DEF Does
  <1>2. DOMAIN db.def \subseteq Names /\ db.def \in [DOMAIN db.def -> SUBSET Columns]
        /\ db.holds \subseteq DOMAIN db.def /\ db.marks \subseteq MigrationNames
        /\ db.rev \in 0 .. Newest /\ db.wrong \subseteq Swap \union Orphans
    BY DEF IsDb
  <1>3. b.marks \subseteq MigrationNames
    BY <1>2, <1>d DEF Does, Kind
  <1>4. b.rev \in 0 .. Newest
    <2>1. CASE a.do = "version"
      <3>1. PICK n \in 1 .. Newest : a = Version(n)
        BY <2>1, <1>d DEF Kind
      <3>2. b.rev = n
        BY <3>1, <1>d DEF Version, Does
      <3> QED BY <3>1, <3>2
    <2> QED BY <2>1, <1>2, <1>d DEF Does
  <1>5. b.wrong \subseteq Swap \union Orphans
    BY <1>2, <1>d DEF Does
  <1>6. DOMAIN b.def \subseteq Names /\ b.def \in [DOMAIN b.def -> SUBSET Columns]
        /\ b.holds \subseteq DOMAIN b.def
    <2>1. CASE a.do \in {"create", "create_if_missing"}
      <3>1. b.holds = db.holds /\ a.table \in Names /\ a.cols \in SUBSET Columns
        BY <2>1, <1>d DEF Does, Kind
      <3>2. b.def = db.def \/ b.def = With(db.def, a.table, a.cols)
        BY <2>1, <1>d DEF Does
      <3>3. CASE b.def = With(db.def, a.table, a.cols)
        <4>1. DOMAIN b.def = DOMAIN db.def \union {a.table}
          BY <3>3 DEF With
        <4>2. \A u \in DOMAIN b.def : b.def[u] \in SUBSET Columns
          BY <3>1, <3>3, <4>1, <1>2 DEF With
        <4>3. b.def = [u \in DOMAIN b.def |-> b.def[u]]
          BY <3>3 DEF With
        <4> QED BY <3>1, <4>1, <4>2, <4>3, <1>2
      <3> QED BY <3>1, <3>2, <3>3, <1>2
    <2>2. CASE a.do \in {"add", "add_if_missing"}
      <3>1. a.table \in DOMAIN db.def /\ a.col \in Columns
        BY <2>2, <1>d DEF Kind, Possible, Has
      <3>2. b.holds = db.holds /\ b.def = With(db.def, a.table, db.def[a.table] \union {a.col})
        BY <2>2, <1>d DEF Does
      <3>3. DOMAIN b.def = DOMAIN db.def
        BY <3>1, <3>2 DEF With
      <3>4. \A u \in DOMAIN b.def : b.def[u] \in SUBSET Columns
        BY <3>1, <3>2, <3>3, <1>2 DEF With
      <3>5. b.def = [u \in DOMAIN b.def |-> b.def[u]]
        BY <3>2 DEF With
      <3> QED BY <3>2, <3>3, <3>4, <3>5, <1>2
    <2>3. CASE a.do \in {"drop", "drop_if_exists"}
      <3>1. b.def = Without(db.def, a.table) /\ b.holds = db.holds \ {a.table}
        BY <2>3, <1>d DEF Does
      <3>2. DOMAIN b.def = DOMAIN db.def \ {a.table}
        BY <3>1 DEF Without
      <3>3. \A u \in DOMAIN b.def : b.def[u] \in SUBSET Columns
        BY <3>1, <3>2, <1>2 DEF Without
      <3>4. b.def = [u \in DOMAIN b.def |-> b.def[u]]
        BY <3>1 DEF Without
      <3> QED BY <3>1, <3>2, <3>3, <3>4, <1>2
    <2>4. CASE a.do = "rename"
      <3>1. a.table \in DOMAIN db.def /\ a.new \in Names
        BY <2>4, <1>d DEF Kind, Possible, Has
      <3>2. b.def = With(Without(db.def, a.table), a.new, db.def[a.table])
        BY <2>4, <1>d DEF Does
      <3>3. b.holds = {IF t = a.table THEN a.new ELSE t : t \in db.holds}
        BY <2>4, <1>d DEF Does
      <3>4. DOMAIN b.def = (DOMAIN db.def \ {a.table}) \union {a.new}
        BY <3>2 DEF With, Without
      <3>5. \A u \in DOMAIN b.def : b.def[u] \in SUBSET Columns
        BY <3>1, <3>2, <3>4, <1>2 DEF With, Without
      <3>6. b.def = [u \in DOMAIN b.def |-> b.def[u]]
        BY <3>2 DEF With
      <3> QED BY <3>1, <3>3, <3>4, <3>5, <3>6, <1>2
    <2>5. CASE a.do = "copy"
      BY <2>5, <1>2, <1>d DEF Does
    <2>6. CASE a.do \notin {"create", "create_if_missing", "add", "add_if_missing", "drop",
                            "drop_if_exists", "rename", "copy"}
      <3>1. b.def = db.def /\ b.holds = db.holds
        BY <2>6, <1>d DEF Does
      <3> QED BY <3>1, <1>2
    <2> QED BY <2>1, <2>2, <2>3, <2>4, <2>5, <2>6
  <1> QED BY <1>1, <1>3, <1>4, <1>5, <1>6 DEF IsDb, b

-----------------------------------------------------------------------------
(* What is left of a script after a statement *)

\* r is s without its first statement.
Shifted(s, r) ==
  /\ Len(s) \in Nat \ {0} /\ Len(r) = Len(s) - 1
  /\ DOMAIN s = 1 .. Len(s) /\ DOMAIN r = 1 .. Len(s) - 1 /\ 1 \in DOMAIN s
  /\ \A i \in DOMAIN r : i + 1 \in DOMAIN s /\ r[i] = s[i + 1]
  /\ \A i \in DOMAIN s : i = 1 \/ (i - 1 \in DOMAIN r /\ r[i - 1] = s[i])
  /\ \A i \in DOMAIN s : s[i] \in Statements

\* What is left of a script is the script, moved by one place.
LEMMA Rest ==
  ASSUME NEW s \in Seq(Statements), s # <<>>
  PROVE /\ Tail(s) \in Seq(Statements) /\ Shifted(s, Tail(s)) /\ Head(s) = s[1]
        /\ s[1] \in Statements /\ (Tail(s) = <<>> <=> Len(s) = 1)
  <1>1. /\ Len(s) \in Nat \ {0} /\ DOMAIN s = 1 .. Len(s) /\ 1 \in DOMAIN s /\ Head(s) = s[1]
        /\ \A i \in DOMAIN s : s[i] \in Statements
    OBVIOUS
  <1>2. Tail(s) \in Seq(Statements) /\ Len(Tail(s)) = Len(s) - 1 /\ DOMAIN Tail(s) = 1 .. Len(s) - 1
    OBVIOUS
  <1>3. \A i \in DOMAIN Tail(s) : i + 1 \in DOMAIN s /\ Tail(s)[i] = s[i + 1]
    BY <1>1, <1>2
  <1>4. \A i \in DOMAIN s : i = 1 \/ (i - 1 \in DOMAIN Tail(s) /\ Tail(s)[i - 1] = s[i])
    BY <1>1, <1>2, <1>3
  <1>5. Tail(s) = <<>> <=> Len(s) = 1
    BY <1>1, <1>2
  <1> QED BY <1>1, <1>2, <1>3, <1>4, <1>5 DEF Shifted

\* What is left of a script still rebuilds tables by four statements in a row.
LEMMA InARowRest ==
  ASSUME NEW s \in Seq(Statements), s # <<>>, InARow(s)
  PROVE InARow(Tail(s))
  <1> DEFINE r == Tail(s)
  <1>r. Shifted(s, r)
    BY Rest
  <1> HIDE DEF r
  <1>1. /\ DOMAIN s = 1 .. Len(s) /\ DOMAIN r = 1 .. Len(s) - 1 /\ Len(s) \in Nat
        /\ Len(r) = Len(s) - 1
        /\ \A i \in DOMAIN r : i + 1 \in DOMAIN s /\ r[i] = s[i + 1]
        /\ \A i \in DOMAIN s : i = 1 \/ (i - 1 \in DOMAIN r /\ r[i - 1] = s[i])
    BY <1>r DEF Shifted
  <1> SUFFICES ASSUME NEW i \in DOMAIN r
        PROVE /\ r[i].do = "create" /\ r[i].table \notin Tables =>
                   \E t \in Tables :
                     /\ r[i].table \in Spares(t) /\ i + 3 \in DOMAIN r
                     /\ r[i + 1] = Copy(t, r[i].table) /\ r[i + 2] = Drop(t)
                     /\ r[i + 3] = Rename(r[i].table, t)
              /\ r[i].do = "copy" =>
                   /\ r[i].table \in Tables /\ r[i].new \in Spares(r[i].table)
                   /\ i + 2 \in DOMAIN r /\ r[i + 1] = Drop(r[i].table)
                   /\ r[i + 2] = Rename(r[i].new, r[i].table)
                   /\ i > 1 => r[i - 1].do = "create" /\ r[i - 1].table = r[i].new
              /\ r[i].do = "drop" =>
                   /\ r[i].table \in Tables /\ i + 1 \in DOMAIN r
                   /\ \E x \in Spares(r[i].table) : /\ r[i + 1] = Rename(x, r[i].table)
                                                    /\ i > 1 => r[i - 1] = Copy(r[i].table, x)
              /\ r[i].do = "rename" =>
                   /\ r[i].new \in Tables /\ r[i].table \in Spares(r[i].new)
                   /\ i > 1 => r[i - 1] = Drop(r[i].new)
    BY DEF InARow, r
  <1>2. i + 1 \in DOMAIN s /\ r[i] = s[i + 1] /\ i \in Nat
    BY <1>1
  <1>3. ASSUME r[i].do = "create", r[i].table \notin Tables
        PROVE \E t \in Tables :
                     /\ r[i].table \in Spares(t) /\ i + 3 \in DOMAIN r
                     /\ r[i + 1] = Copy(t, r[i].table) /\ r[i + 2] = Drop(t)
                     /\ r[i + 3] = Rename(r[i].table, t)
    <2>1. PICK t \in Tables :
            /\ s[i + 1].table \in Spares(t) /\ i + 1 + 3 \in DOMAIN s
            /\ s[i + 1 + 1] = Copy(t, s[i + 1].table) /\ s[i + 1 + 2] = Drop(t)
            /\ s[i + 1 + 3] = Rename(s[i + 1].table, t)
      BY <1>2, <1>3 DEF InARow
    <2>2. /\ i + 1 \in DOMAIN r /\ r[i + 1] = s[i + 1 + 1]
          /\ i + 2 \in DOMAIN r /\ r[i + 2] = s[i + 1 + 2]
          /\ i + 3 \in DOMAIN r /\ r[i + 3] = s[i + 1 + 3]
      BY <2>1, <1>1, <1>2
    <2> QED BY <2>1, <2>2, <1>2
  <1>4. ASSUME r[i].do = "copy"
        PROVE /\ r[i].table \in Tables /\ r[i].new \in Spares(r[i].table)
              /\ i + 2 \in DOMAIN r /\ r[i + 1] = Drop(r[i].table)
              /\ r[i + 2] = Rename(r[i].new, r[i].table)
              /\ i > 1 => r[i - 1].do = "create" /\ r[i - 1].table = r[i].new
    <2>1. /\ s[i + 1].table \in Tables /\ s[i + 1].new \in Spares(s[i + 1].table)
          /\ i + 1 + 2 \in DOMAIN s /\ s[i + 1 + 1] = Drop(s[i + 1].table)
          /\ s[i + 1 + 2] = Rename(s[i + 1].new, s[i + 1].table)
          /\ i + 1 > 1 => s[i + 1 - 1].do = "create" /\ s[i + 1 - 1].table = s[i + 1].new
      BY <1>2, <1>4 DEF InARow
    <2> QED BY <2>1, <1>1, <1>2
  <1>5. ASSUME r[i].do = "drop"
        PROVE /\ r[i].table \in Tables /\ i + 1 \in DOMAIN r
              /\ \E x \in Spares(r[i].table) : /\ r[i + 1] = Rename(x, r[i].table)
                                               /\ i > 1 => r[i - 1] = Copy(r[i].table, x)
    <2>1. /\ s[i + 1].table \in Tables /\ i + 1 + 1 \in DOMAIN s
          /\ \E x \in Spares(s[i + 1].table) :
               /\ s[i + 1 + 1] = Rename(x, s[i + 1].table)
               /\ i + 1 > 1 => s[i + 1 - 1] = Copy(s[i + 1].table, x)
      BY <1>2, <1>5 DEF InARow
    <2>2. i + 1 \in DOMAIN r /\ r[i + 1] = s[i + 1 + 1]
      BY <2>1, <1>1, <1>2
    <2>3. i + 1 > 1 /\ s[i + 1 - 1] = s[i] /\ (i > 1 => r[i - 1] = s[i])
      BY <1>1, <1>2
    <2> QED BY <2>1, <2>2, <2>3, <1>2
  <1>6. ASSUME r[i].do = "rename"
        PROVE /\ r[i].new \in Tables /\ r[i].table \in Spares(r[i].new)
              /\ i > 1 => r[i - 1] = Drop(r[i].new)
    <2>1. /\ s[i + 1].new \in Tables /\ s[i + 1].table \in Spares(s[i + 1].new)
          /\ i + 1 > 1 => s[i + 1 - 1] = Drop(s[i + 1].new)
      BY <1>2, <1>6 DEF InARow
    <2>2. i + 1 > 1 /\ s[i + 1 - 1] = s[i] /\ (i > 1 => r[i - 1] = s[i])
      BY <1>1, <1>2
    <2> QED BY <2>1, <2>2, <1>2
  <1> QED BY <1>3, <1>4, <1>5, <1>6

\* It still leaves those tables alone, switches the keys on again and corrects both values.
LEMMA OthersRest ==
  ASSUME NEW s \in Seq(Statements), s # <<>>, LeftAlone(s), KeysBack(s), Swaps(s)
  PROVE LeftAlone(Tail(s)) /\ KeysBack(Tail(s)) /\ Swaps(Tail(s))
  <1> DEFINE r == Tail(s)
  <1>r. Shifted(s, r)
    BY Rest
  <1> HIDE DEF r
  <1>1. /\ DOMAIN s = 1 .. Len(s) /\ DOMAIN r = 1 .. Len(s) - 1 /\ Len(s) \in Nat
        /\ Len(r) = Len(s) - 1
        /\ \A i \in DOMAIN r : i + 1 \in DOMAIN s /\ r[i] = s[i + 1]
        /\ \A i \in DOMAIN s : i = 1 \/ (i - 1 \in DOMAIN r /\ r[i - 1] = s[i])
    BY <1>r DEF Shifted
  <1>2. \A t : Rebuilt(r, t) => Rebuilt(s, t)
    BY <1>1 DEF Rebuilt
  <1>3. \A i, j \in DOMAIN r :
          r[i].do = "rename" /\ r[j].do = "rename" /\ r[i].new = r[j].new => i = j
    <2> SUFFICES ASSUME NEW i \in DOMAIN r, NEW j \in DOMAIN r, r[i].do = "rename",
                        r[j].do = "rename", r[i].new = r[j].new
          PROVE i = j
      OBVIOUS
    <2>1. i + 1 \in DOMAIN s /\ j + 1 \in DOMAIN s /\ r[i] = s[i + 1] /\ r[j] = s[j + 1]
          /\ i \in Nat /\ j \in Nat
      BY <1>1
    <2>2. i + 1 = j + 1
      BY <2>1 DEF LeftAlone
    <2> QED BY <2>1, <2>2
  <1>4. \A i \in DOMAIN r :
       /\ r[i].do \in {"add", "add_if_missing"} => r[i].table \in Tables /\ ~Rebuilt(r, r[i].table)
       /\ r[i].do = "create" /\ r[i].table \in Tables => ~Rebuilt(r, r[i].table)
       /\ r[i].do = "create_if_missing" => r[i].table \in Tables /\ \A t \in Tables : ~Rebuilt(r, t)
       /\ r[i].do = "drop_if_exists" =>
            r[i].table = "credentials_new" /\ \A t \in Tables : ~Rebuilt(r, t)
    <2> TAKE i \in DOMAIN r
    <2>1. i + 1 \in DOMAIN s /\ r[i] = s[i + 1]
      BY <1>1
    <2>2. /\ s[i + 1].do \in {"add", "add_if_missing"} =>
               s[i + 1].table \in Tables /\ ~Rebuilt(s, s[i + 1].table)
          /\ s[i + 1].do = "create" /\ s[i + 1].table \in Tables => ~Rebuilt(s, s[i + 1].table)
          /\ s[i + 1].do = "create_if_missing" =>
               s[i + 1].table \in Tables /\ \A t \in Tables : ~Rebuilt(s, t)
          /\ s[i + 1].do = "drop_if_exists" =>
               s[i + 1].table = "credentials_new" /\ \A t \in Tables : ~Rebuilt(s, t)
      BY <2>1 DEF LeftAlone
    <2> QED BY <2>1, <2>2, <1>2
  <1>5. KeysBack(r)
    <2> SUFFICES ASSUME NEW i \in DOMAIN r
          PROVE /\ r[i] = KeysOff => \E j \in DOMAIN r : j > i /\ r[j] = KeysOn
                /\ r[i] = KeysOn => i = 1 \/ r[i - 1] = Commit
      BY DEF KeysBack
    <2>1. i + 1 \in DOMAIN s /\ r[i] = s[i + 1] /\ i \in Nat
      BY <1>1
    <2>2. ASSUME r[i] = KeysOff
          PROVE \E j \in DOMAIN r : j > i /\ r[j] = KeysOn
      <3>1. PICK j \in DOMAIN s : j > i + 1 /\ s[j] = KeysOn
        BY <2>1, <2>2 DEF KeysBack
      <3>2. j \in Nat /\ j # 1 /\ j - 1 > i
        BY <3>1, <2>1, <1>1
      <3>3. j - 1 \in DOMAIN r /\ r[j - 1] = s[j]
        BY <3>2, <1>1
      <3> QED BY <3>1, <3>2, <3>3
    <2>3. ASSUME r[i] = KeysOn, i # 1
          PROVE r[i - 1] = Commit
      <3>1. s[i + 1 - 1] = Commit
        <4>1. \A k \in DOMAIN s : s[k] = KeysOn => k = 1 \/ s[k - 1] = Commit
          BY DEF KeysBack
        <4>2. s[i + 1] = KeysOn /\ i + 1 # 1
          BY <2>1, <2>3, <1>1
        <4> QED BY <4>1, <4>2, <2>1, <1>1
      <3>2. i - 1 \in DOMAIN r /\ r[i - 1] = s[i]
        BY <2>1, <2>3, <1>1
      <3> QED BY <3>1, <3>2, <2>1
    <2> QED BY <2>2, <2>3
  <1>6. Swaps(r)
    <2> SUFFICES ASSUME NEW i \in DOMAIN r, r[i] = Correct("updated_at")
          PROVE i + 1 \in DOMAIN r /\ r[i + 1] = Correct("group")
      BY DEF Swaps
    <2>1. i + 1 \in DOMAIN s /\ s[i + 1] = Correct("updated_at") /\ i \in Nat
      BY <1>1
    <2>2. i + 1 + 1 \in DOMAIN s /\ s[i + 1 + 1] = Correct("group")
      BY <2>1 DEF Swaps
    <2>3. i + 1 \in DOMAIN r
      BY <2>1, <2>2, <1>1
    <2> QED BY <2>2, <2>3, <1>1
  <1> QED BY <1>3, <1>4, <1>5, <1>6 DEF LeftAlone, r

\* It still ends with a commit.
LEMMA ClosesRest ==
  ASSUME NEW s \in Seq(Statements), s # <<>>, Closes(s)
  PROVE Closes(Tail(s))
  <1> DEFINE r == Tail(s)
  <1>r. Shifted(s, r)
    BY Rest
  <1> HIDE DEF r
  <1>1. /\ DOMAIN s = 1 .. Len(s) /\ DOMAIN r = 1 .. Len(s) - 1 /\ Len(s) \in Nat
        /\ Len(r) = Len(s) - 1
        /\ \A i \in DOMAIN r : i + 1 \in DOMAIN s /\ r[i] = s[i + 1]
        /\ \A i \in DOMAIN s : i = 1 \/ (i - 1 \in DOMAIN r /\ r[i - 1] = s[i])
    BY <1>r DEF Shifted
  <1>2. ASSUME NEW i \in DOMAIN r, r[i].do \in Writes
        PROVE r[Len(r)] = Commit
    <2>1. i + 1 \in DOMAIN s /\ s[i + 1].do \in Writes
      BY <1>1, <1>2
    <2>2. s[Len(s)] = Commit
      BY <2>1 DEF Closes
    <2>3. Len(r) \in DOMAIN r /\ Len(r) + 1 = Len(s)
      BY <1>1, <1>2
    <2> QED BY <2>2, <2>3, <1>1
  <1>3. ASSUME NEW i \in DOMAIN r, r[i].do \in {"mark", "version"}
        PROVE i = Len(r) - 1
    <2>1. i + 1 = Len(s) - 1
      BY <1>1, <1>3 DEF Closes
    <2> QED BY <2>1, <1>1
  <1> QED BY <1>2, <1>3 DEF Closes, r

-----------------------------------------------------------------------------
(* Tables through a statement *)

\* A spare table belongs to one table and is none of the models.
LEMMA SparesAre ==
  /\ \A t \in Tables : \A x \in Spares(t) : x \notin Tables /\ x # t /\ x \in Names
  /\ \A t, u \in Tables : \A x \in Spares(t) : x \in Spares(u) => t = u
  /\ \A t \in Tables : \A x \in Spares(t) : x = "credentials_new" => t = "credentials"
  BY DEF Spares, Tables, Models, Tmp, Names

\* What a statement that succeeds does to the tables and their columns.
Changes(a, db, b) ==
  /\ a.do = "create" =>
       /\ ~Has(db, a.table) /\ b.def[a.table] = a.cols
       /\ \A u : (Has(b, u) <=> Has(db, u) \/ u = a.table) /\ (Has(db, u) => b.def[u] = db.def[u])
  /\ a.do = "create_if_missing" =>
       /\ ~Has(db, a.table) => b.def[a.table] = a.cols
       /\ \A u : (Has(b, u) <=> Has(db, u) \/ u = a.table) /\ (Has(db, u) => b.def[u] = db.def[u])
  /\ a.do \in {"add", "add_if_missing"} =>
       /\ Has(db, a.table) /\ b.def[a.table] = db.def[a.table] \union {a.col}
       /\ \A u : /\ Has(b, u) <=> Has(db, u)
                 /\ Has(db, u) /\ u # a.table => b.def[u] = db.def[u]
  /\ a.do = "add" => a.col \notin db.def[a.table]
  /\ a.do \in {"drop", "drop_if_exists"} =>
       \A u : (Has(b, u) <=> Has(db, u) /\ u # a.table) /\ (Has(b, u) => b.def[u] = db.def[u])
  /\ a.do = "rename" =>
       /\ Has(db, a.table) /\ ~Has(db, a.new) /\ b.def[a.new] = db.def[a.table]
       /\ \A u : /\ Has(b, u) <=> u = a.new \/ (Has(db, u) /\ u # a.table)
                 /\ Has(b, u) /\ u # a.new => b.def[u] = db.def[u]
  /\ a.do \notin {"create", "create_if_missing", "add", "add_if_missing", "drop",
                  "drop_if_exists", "rename"} => b.def = db.def

\* A statement that succeeds changes no other tables and columns than its own.
LEMMA Changed ==
  ASSUME NEW db, IsDb(db), NEW a \in Statements, NEW k, Possible(a, db, k)
  PROVE Changes(a, db, After(a, db))
  <1> DEFINE b == After(a, db)
  <1>d. Does(a, db, b) /\ Kind(a)
    BY Effect, Kinds
  <1> HIDE DEF b
  <1>1. CASE a.do = "create"
    BY <1>1, <1>d DEF Does, Possible, Has, With, Changes, b
  <1>2. CASE a.do = "create_if_missing"
    BY <1>2, <1>d DEF Does, Possible, Has, With, Changes, b
  <1>3. CASE a.do \in {"add", "add_if_missing"}
    BY <1>3, <1>d DEF Does, Possible, Has, With, Changes, b
  <1>4. CASE a.do \in {"drop", "drop_if_exists"}
    BY <1>4, <1>d DEF Does, Possible, Has, Without, Changes, b
  <1>5. CASE a.do = "rename"
    BY <1>5, <1>d DEF Does, Possible, Has, With, Without, Changes, b
  <1>6. CASE a.do \notin {"create", "create_if_missing", "add", "add_if_missing", "drop",
                          "drop_if_exists", "rename"}
    BY <1>6, <1>d DEF Does, Changes, b
  <1> QED BY <1>1, <1>2, <1>3, <1>4, <1>5, <1>6

\* The statements around those of a rebuilding; r is what comes after the first.
Neighbours(s, r) ==
  /\ s[1].do = "create" /\ s[1].table \notin Tables =>
       \E t \in Tables : /\ s[1].table \in Spares(t) /\ r # <<>> /\ Len(r) > 2 /\ r[1] = Copy(t, s[1].table)
                         /\ r[2] = Drop(t) /\ r[3] = Rename(s[1].table, t)
  /\ s[1].do = "copy" =>
       /\ s[1].table \in Tables /\ s[1].new \in Spares(s[1].table)
       /\ r # <<>> /\ Len(r) > 1 /\ r[1] = Drop(s[1].table) /\ r[2] = Rename(s[1].new, s[1].table)
  /\ s[1].do = "drop" =>
       /\ s[1].table \in Tables /\ r # <<>>
       /\ \E x \in Spares(s[1].table) : r[1] = Rename(x, s[1].table)
  /\ s[1].do = "rename" => s[1].new \in Tables /\ s[1].table \in Spares(s[1].new)
  /\ r # <<>> /\ r[1].do = "copy" => s[1].do = "create" /\ s[1].table = r[1].new
  /\ r # <<>> /\ r[1].do = "drop" =>
       /\ r[1].table \in Tables
       /\ \E x \in Spares(r[1].table) : s[1] = Copy(r[1].table, x) /\ r[2] = Rename(x, r[1].table)
  /\ r # <<>> /\ r[1].do = "rename" =>
       s[1] = Drop(r[1].new) /\ r[1].new \in Tables /\ r[1].table \in Spares(r[1].new)

\* What comes before and after the first statement of a script that rebuilds a table
LEMMA Around ==
  ASSUME NEW s \in Seq(Statements), s # <<>>, InARow(s)
  PROVE Neighbours(s, Tail(s))
  <1> DEFINE r == Tail(s)
  <1>0. Shifted(s, r) /\ r \in Seq(Statements) /\ (r = <<>> <=> Len(s) = 1)
    BY Rest
  <1> HIDE DEF r
  <1>1. /\ DOMAIN s = 1 .. Len(s) /\ DOMAIN r = 1 .. Len(s) - 1 /\ Len(s) \in Nat \ {0}
        /\ Len(r) = Len(s) - 1 /\ 1 \in DOMAIN s
        /\ \A i \in DOMAIN r : i + 1 \in DOMAIN s /\ r[i] = s[i + 1]
    BY <1>0 DEF Shifted
  <1>2. ASSUME s[1].do = "create", s[1].table \notin Tables
        PROVE \E t \in Tables : /\ s[1].table \in Spares(t) /\ r # <<>> /\ Len(r) > 2 /\ r[1] = Copy(t, s[1].table)
                                /\ r[2] = Drop(t) /\ r[3] = Rename(s[1].table, t)
    <2>1. PICK t \in Tables :
           /\ s[1].table \in Spares(t) /\ 1 + 3 \in DOMAIN s
           /\ s[1 + 1] = Copy(t, s[1].table) /\ s[1 + 2] = Drop(t)
           /\ s[1 + 3] = Rename(s[1].table, t)
      BY <1>1, <1>2 DEF InARow
    <2> QED BY <2>1, <1>1
  <1>3. ASSUME s[1].do = "copy"
        PROVE /\ s[1].table \in Tables /\ s[1].new \in Spares(s[1].table)
              /\ r # <<>> /\ Len(r) > 1 /\ r[1] = Drop(s[1].table) /\ r[2] = Rename(s[1].new, s[1].table)
    <2>1. /\ s[1].table \in Tables /\ s[1].new \in Spares(s[1].table)
          /\ 1 + 2 \in DOMAIN s /\ s[1 + 1] = Drop(s[1].table)
          /\ s[1 + 2] = Rename(s[1].new, s[1].table)
      BY <1>1, <1>3 DEF InARow
    <2> QED BY <2>1, <1>1
  <1>4. ASSUME s[1].do = "drop"
        PROVE /\ s[1].table \in Tables /\ r # <<>>
              /\ \E x \in Spares(s[1].table) : r[1] = Rename(x, s[1].table)
    <2>1. /\ s[1].table \in Tables /\ 1 + 1 \in DOMAIN s
          /\ \E x \in Spares(s[1].table) : s[1 + 1] = Rename(x, s[1].table)
      BY <1>1, <1>4 DEF InARow
    <2> QED BY <2>1, <1>1
  <1>5. s[1].do = "rename" => s[1].new \in Tables /\ s[1].table \in Spares(s[1].new)
    BY <1>1 DEF InARow
  <1>6. ASSUME r # <<>>
        PROVE 1 \in DOMAIN r /\ 2 \in DOMAIN s /\ r[1] = s[2]
    <2> QED BY <1>0, <1>1, <1>6
  <1>7. ASSUME r # <<>>, r[1].do = "copy"
        PROVE s[1].do = "create" /\ s[1].table = r[1].new
    <2>1. 2 > 1 => s[2 - 1].do = "create" /\ s[2 - 1].table = s[2].new
      BY <1>6, <1>7 DEF InARow
    <2> QED BY <2>1, <1>6, <1>7
  <1>8. ASSUME r # <<>>, r[1].do = "drop"
        PROVE /\ r[1].table \in Tables
              /\ \E x \in Spares(r[1].table) :
                   s[1] = Copy(r[1].table, x) /\ r[2] = Rename(x, r[1].table)
    <2>1. /\ s[2].table \in Tables /\ 2 + 1 \in DOMAIN s
          /\ \E x \in Spares(s[2].table) : /\ s[2 + 1] = Rename(x, s[2].table)
                                           /\ 2 > 1 => s[2 - 1] = Copy(s[2].table, x)
      BY <1>6, <1>8 DEF InARow
    <2>2. 2 \in DOMAIN r /\ r[2] = s[3]
      BY <2>1, <1>1
    <2> QED BY <2>1, <2>2, <1>6, <1>8
  <1>9. ASSUME r # <<>>, r[1].do = "rename"
        PROVE s[1] = Drop(r[1].new) /\ r[1].new \in Tables /\ r[1].table \in Spares(r[1].new)
    <2>1. /\ s[2].new \in Tables /\ s[2].table \in Spares(s[2].new)
          /\ 2 > 1 => s[2 - 1] = Drop(s[2].new)
      BY <1>6, <1>9 DEF InARow
    <2> QED BY <2>1, <1>6, <1>9
  <1> QED BY <1>2, <1>3, <1>4, <1>5, <1>7, <1>8, <1>9 DEF Neighbours, r

\* Wherever a table is, a statement leaves it there or takes it along, with its columns and
\* its rows.
LEMMA TakenAlong ==
  ASSUME NEW s \in Seq(Statements), s # <<>>, InARow(s), NEW db, IsDb(db), NEW k,
         Possible(s[1], db, k), NEW o, Suits(db, s, o), NEW t \in Tables,
         LeftAlone(s)
  PROVE LET b == After(s[1], db)
            r == Tail(s)
        IN /\ Has(db, Place(s, t)) =>
                Has(b, Place(r, t)) /\ db.def[Place(s, t)] \subseteq b.def[Place(r, t)]
           /\ Place(s, t) \in db.holds => Place(r, t) \in b.holds
  <1> DEFINE a == s[1]
             b == After(a, db)
             r == Tail(s)
  <1>1. a \in Statements /\ Does(a, db, b) /\ Kind(a) /\ Changes(a, db, b)
    BY Rest, Effect, Kinds, Changed
  <1>2. /\ a.do = "drop" =>
             /\ a.table \in Tables /\ r # <<>>
             /\ \E x \in Spares(a.table) : r[1] = Rename(x, a.table)
        /\ a.do = "rename" => a.new \in Tables /\ a.table \in Spares(a.new)
        /\ r # <<>> /\ r[1].do = "rename" =>
             a = Drop(r[1].new) /\ r[1].new \in Tables /\ r[1].table \in Spares(r[1].new)
    BY Around DEF Neighbours
  <1>3. a.do = "drop_if_exists" => a.table = "credentials_new"
    BY Rest DEF LeftAlone, Shifted
  <1> HIDE DEF a, b, r
  <1>4. CASE a.do = "drop"
    <2>1. PICK x \in Spares(a.table) : r[1] = Rename(x, a.table)
      BY <1>2, <1>4
    <2>2. a = Drop(a.table)
      BY <1>1, <1>4 DEF Kind
    <2>3. Place(s, t) = t
      BY <1>4 DEF Place, a
    <2>4. Place(r, t) = IF t = a.table THEN x ELSE t
      BY <1>2, <1>4, <2>1 DEF Place, Rename
    <2>5. /\ Has(db, x)
          /\ Has(db, a.table) => db.def[a.table] \subseteq db.def[x]
          /\ a.table \in db.holds => x \in db.holds
      <3>1. s[2] = r[1]
        BY <1>2, <1>4, Rest DEF Shifted, r
      <3> QED BY <2>1, <2>2, <3>1, <1>2, <1>4 DEF Suits, a
    <2>6. x # a.table
      BY <1>2, <1>4, SparesAre
    <2>7. b.holds = db.holds \ {a.table}
      BY <1>1, <1>4 DEF Does
    <2>8. \A u : (Has(b, u) <=> Has(db, u) /\ u # a.table) /\ (Has(b, u) => b.def[u] = db.def[u])
      BY <1>1, <1>4 DEF Changes
    <2> QED BY <2>3, <2>4, <2>5, <2>6, <2>7, <2>8 DEF r, b, a
  <1>5. CASE a.do = "rename"
    <2>1. Place(s, t) = IF a.new = t THEN a.table ELSE t
      BY <1>5 DEF Place, a
    <2>2. Place(r, t) = t
      BY <1>2, <1>5 DEF Place, Drop
    <2>3. /\ Has(db, a.table) /\ ~Has(db, a.new) /\ b.def[a.new] = db.def[a.table]
          /\ \A u : /\ Has(b, u) <=> u = a.new \/ (Has(db, u) /\ u # a.table)
                    /\ Has(b, u) /\ u # a.new => b.def[u] = db.def[u]
      BY <1>1, <1>5 DEF Changes
    <2>4. b.holds = {IF u = a.table THEN a.new ELSE u : u \in db.holds}
      BY <1>1, <1>5 DEF Does
    <2>5. t # a.table
      BY <1>2, <1>5, SparesAre
    <2> QED BY <2>1, <2>2, <2>3, <2>4, <2>5 DEF r, b, a
  <1>6. CASE a.do \notin {"drop", "rename"}
    <2>1. Place(s, t) = t /\ Place(r, t) = t
      BY <1>2, <1>6 DEF Place, a, Drop
    <2>2. "credentials_new" \notin Tables
      BY DEF Tables, Models
    <2>3. t \in db.holds => t \in b.holds
      <3>1. CASE a.do = "drop_if_exists"
        BY <1>1, <1>3, <2>2, <3>1 DEF Does
      <3>2. CASE a.do # "drop_if_exists"
        BY <1>1, <1>6, <3>2 DEF Does
      <3> QED BY <3>1, <3>2
    <2>4. Has(db, t) => Has(b, t) /\ db.def[t] \subseteq b.def[t]
      <3>1. CASE a.do = "drop_if_exists"
        BY <1>1, <1>3, <2>2, <3>1 DEF Changes
      <3>2. CASE a.do \in {"create", "create_if_missing"}
        BY <1>1, <3>2 DEF Changes
      <3>3. CASE a.do \in {"add", "add_if_missing"}
        BY <1>1, <3>3 DEF Changes
      <3>4. CASE a.do \notin {"drop_if_exists", "create", "create_if_missing", "add", "add_if_missing"}
        BY <1>1, <1>6, <3>4 DEF Changes, Has
      <3> QED BY <3>1, <3>2, <3>3, <3>4
    <2> QED BY <2>1, <2>3, <2>4 DEF r, b, a
  <1> QED BY <1>4, <1>5, <1>6

-----------------------------------------------------------------------------
(* What is due through a statement *)

\* A column that the database has or will have stays so, unless its table is dropped or renamed.
LEMMA ColumnStaysDue ==
  ASSUME NEW s \in Seq(Statements), s # <<>>, NEW db, IsDb(db), NEW k,
         Possible(s[1], db, k), NEW x, NEW c, ColumnDue(db, s, x, c),
         s[1].do \in {"rename", "drop", "drop_if_exists"} => x # s[1].table
  PROVE ColumnDue(After(s[1], db), Tail(s), x, c)
  <1> DEFINE a == s[1]
             b == After(a, db)
             r == Tail(s)
  <1>1. a \in Statements /\ Kind(a) /\ Changes(a, db, b) /\ Shifted(s, r)
    BY Rest, Kinds, Changed
  <1> HIDE DEF a, b, r
  <1>2. CASE There(db, x, c)
    <2>1. There(b, x, c)
      <3>1. CASE a.do \in {"rename", "drop", "drop_if_exists"}
        BY <1>1, <1>2, <3>1 DEF Changes, There, a
      <3>2. CASE a.do \in {"create", "create_if_missing", "add", "add_if_missing"}
        BY <1>1, <1>2, <3>2 DEF Changes, There
      <3>3. CASE a.do \notin {"rename", "drop", "drop_if_exists", "create", "create_if_missing",
                              "add", "add_if_missing"}
        BY <1>1, <1>2, <3>3 DEF Changes, There, Has
      <3> QED BY <3>1, <3>2, <3>3
    <2> QED BY <2>1 DEF ColumnDue, b, a, r
  <1>3. CASE \E i \in DOMAIN s : s[i] = Add(x, c) \/ s[i] = AddIfMissing(x, c)
    <2>1. PICK i \in DOMAIN s : s[i] = Add(x, c) \/ s[i] = AddIfMissing(x, c)
      BY <1>3
    <2>2. CASE i = 1
      <3>1. a.do \in {"add", "add_if_missing"} /\ a.table = x /\ a.col = c
        <4>1. a = Add(x, c) \/ a = AddIfMissing(x, c)
          BY <2>1, <2>2 DEF a
        <4>2. CASE a = Add(x, c)
          BY <4>2 DEF Add
        <4>3. CASE a = AddIfMissing(x, c)
          BY <4>3 DEF AddIfMissing
        <4> QED BY <4>1, <4>2, <4>3
      <3>2. There(b, x, c)
        BY <1>1, <3>1 DEF Changes, There
      <3> QED BY <3>2 DEF ColumnDue, b, a, r
    <2>3. CASE i # 1
      BY <1>1, <2>1, <2>3 DEF ColumnDue, Shifted, b, a, r
    <2> QED BY <2>2, <2>3
  <1>4. CASE \E i \in DOMAIN s : s[i].do = "create" /\ s[i].table = x /\ c \in s[i].cols
    <2>1. PICK i \in DOMAIN s : s[i].do = "create" /\ s[i].table = x /\ c \in s[i].cols
      BY <1>4
    <2>2. CASE i = 1
      <3>2. There(b, x, c)
        BY <1>1, <2>1, <2>2 DEF Changes, There, a
      <3> QED BY <3>2 DEF ColumnDue, b, a, r
    <2>3. CASE i # 1
      BY <1>1, <2>1, <2>3 DEF ColumnDue, Shifted, b, a, r
    <2> QED BY <2>2, <2>3
  <1> QED BY <1>2, <1>3, <1>4 DEF ColumnDue

\* No statement but those of its rebuilding touches a table or its spare x, which is renamed
\* at i.
Untouched(s, x, t, i) ==
  /\ \A j \in DOMAIN s : s[j].do = "create" /\ s[j].table = x => i = j + 3
  /\ \A c : \A j \in DOMAIN s : s[j] # Add(x, c) /\ s[j] # AddIfMissing(x, c)
  /\ \A j \in DOMAIN s : s[j].do = "rename" /\ s[j].table = x => j = i
  /\ Rebuilt(s, t)
  /\ \A j \in DOMAIN s : s[j].do # "drop_if_exists" /\ s[j].do # "create_if_missing"
  /\ \A c : \A j \in DOMAIN s : s[j] # Add(t, c) /\ s[j] # AddIfMissing(t, c)
  /\ \A j \in DOMAIN s : s[j].do = "create" => s[j].table # t

\* Only the four statements of a rebuilt table touch its spare ones.
LEMMA SparesTouched ==
  ASSUME NEW s \in Seq(Statements), InARow(s), LeftAlone(s), NEW t \in Tables,
         NEW x \in Spares(t), NEW i \in DOMAIN s, s[i] = Rename(x, t)
  PROVE Untouched(s, x, t, i)
  <1>0. s[i].do = "rename" /\ s[i].new = t
    BY DEF Rename
  <1>1. \A j \in DOMAIN s : s[j].do = "rename" /\ s[j].new = t => j = i
    BY <1>0 DEF LeftAlone
  <1>2. ASSUME NEW j \in DOMAIN s, s[j].do = "create", s[j].table = x
        PROVE i = j + 3
    <2>1. x \notin Tables
      BY SparesAre
    <2>2. PICK u \in Tables :
             /\ s[j].table \in Spares(u) /\ j + 3 \in DOMAIN s
             /\ s[j + 3] = Rename(s[j].table, u)
      BY <1>2, <2>1 DEF InARow
    <2>3. u = t
      BY <1>2, <2>2, SparesAre
    <2> QED BY <1>1, <2>2, <2>3 DEF Rename
  <1>3. Rebuilt(s, t)
    BY DEF Rebuilt, Rename
  <1>4. ASSUME NEW c, NEW j \in DOMAIN s
        PROVE /\ s[j] # Add(x, c) /\ s[j] # AddIfMissing(x, c)
              /\ s[j] # Add(t, c) /\ s[j] # AddIfMissing(t, c)
    <2>1. s[j].do \in {"add", "add_if_missing"} => s[j].table \in Tables /\ ~Rebuilt(s, s[j].table)
      BY DEF LeftAlone
    <2>2. x \notin Tables
      BY SparesAre
    <2>3. s[j] = Add(x, c) => s[j].do = "add" /\ s[j].table = x
      BY DEF Add
    <2>4. s[j] = AddIfMissing(x, c) => s[j].do = "add_if_missing" /\ s[j].table = x
      BY DEF AddIfMissing
    <2>5. s[j] = Add(t, c) => s[j].do = "add" /\ s[j].table = t
      BY DEF Add
    <2>6. s[j] = AddIfMissing(t, c) => s[j].do = "add_if_missing" /\ s[j].table = t
      BY DEF AddIfMissing
    <2> QED BY <2>1, <2>2, <2>3, <2>4, <2>5, <2>6, <1>3
  <1>5. ASSUME NEW j \in DOMAIN s, s[j].do = "rename", s[j].table = x
        PROVE j = i
    <2>1. s[j].new \in Tables /\ s[j].table \in Spares(s[j].new)
      BY <1>5 DEF InARow
    <2>2. s[j].new = t
      BY <1>5, <2>1, SparesAre
    <2> QED BY <1>1, <1>5, <2>2
  <1>6. ASSUME NEW j \in DOMAIN s
        PROVE /\ s[j].do # "drop_if_exists" /\ s[j].do # "create_if_missing"
              /\ s[j].do = "create" => s[j].table # t
    BY <1>3 DEF LeftAlone
  <1> QED BY <1>2, <1>3, <1>4, <1>5, <1>6 DEF Untouched

\* What the script owes a table it still owes, or has done, after the next statement.
LEMMA StaysDue ==
  ASSUME NEW s \in Seq(Statements), s # <<>>, InARow(s), LeftAlone(s), NEW db, IsDb(db), NEW k,
         Possible(s[1], db, k), NEW o, Suits(db, s, o),
         NEW t \in Tables, NEW c, Due(db, s, t, c)
  PROVE Due(After(s[1], db), Tail(s), t, c)
  <1> DEFINE a == s[1]
             b == After(a, db)
             r == Tail(s)
  <1>1. a \in Statements /\ Kind(a) /\ Changes(a, db, b) /\ Shifted(s, r) /\ Neighbours(s, r)
    BY Rest, Kinds, Changed, Around
  <1>2. \A x : ColumnDue(db, s, x, c) /\ (a.do \in {"rename", "drop", "drop_if_exists"} => x # a.table)
           => ColumnDue(b, r, x, c)
    BY ColumnStaysDue
  <1>3. a.do = "drop_if_exists" => a.table = "credentials_new"
    BY <1>1 DEF LeftAlone, Shifted
  <1>4. /\ a.do = "drop" => a.table \in Tables
        /\ a.do = "rename" => a.new \in Tables /\ a.table \in Spares(a.new) /\ a.table \notin Tables
        /\ "credentials_new" \notin Tables
    <2>1. "credentials_new" \notin Tables
      BY DEF Tables, Models
    <2> QED BY <1>1, <2>1, SparesAre DEF Neighbours
  <1>5. ASSUME NEW x, a.do = "drop", r[1] = Rename(x, a.table), x \in Spares(a.table), r # <<>>
        PROVE /\ Has(db, x)
              /\ Has(db, a.table) => db.def[a.table] \subseteq db.def[x]
              /\ 1 \in DOMAIN r /\ 2 \in DOMAIN s /\ s[2] = r[1]
    <2>0. r \in Seq(Statements)
      BY Rest
    <2>1. 1 \in DOMAIN r /\ 2 \in DOMAIN s /\ s[2] = r[1]
      BY <2>0, <1>1, <1>5 DEF Shifted
    <2>2. a = Drop(a.table)
      BY <1>1, <1>5 DEF Kind
    <2> QED BY <2>1, <2>2, <1>4, <1>5 DEF Suits
  <1> HIDE DEF a, b, r
  <1>6. CASE ColumnDue(db, s, t, c)
    <2>1. CASE a.do = "drop" /\ a.table = t
      <3>1. PICK x \in Spares(t) : r[1] = Rename(x, t) /\ r # <<>>
        BY <1>1, <2>1 DEF Neighbours, a
      <3>2. /\ Has(db, x) /\ (Has(db, t) => db.def[t] \subseteq db.def[x])
            /\ 1 \in DOMAIN r /\ 2 \in DOMAIN s /\ s[2] = Rename(x, t) /\ Untouched(s, x, t, 2)
        BY <1>5, <2>1, <3>1, SparesTouched
      <3>3. There(db, t, c)
        BY <1>6, <3>2 DEF ColumnDue, Untouched
      <3>4. x # t
        BY SparesAre
      <3>5. There(b, x, c)
        BY <1>1, <2>1, <3>2, <3>3, <3>4 DEF Changes, There
      <3> QED BY <3>1, <3>2, <3>5 DEF Due, ColumnDue, r, b, a
    <2>2. CASE ~(a.do = "drop" /\ a.table = t)
      <3>1. a.do \in {"rename", "drop", "drop_if_exists"} => t # a.table
        BY <1>3, <1>4, <2>2
      <3> QED BY <1>2, <1>6, <3>1 DEF Due, r, b, a
    <2> QED BY <2>1, <2>2
  <1>7. CASE \E x \in Spares(t) : ColumnDue(db, s, x, c) /\ \E i \in DOMAIN s : s[i] = Rename(x, t)
    <2>1. PICK x \in Spares(t), i \in DOMAIN s : ColumnDue(db, s, x, c) /\ s[i] = Rename(x, t)
      BY <1>7
    <2>u. Untouched(s, x, t, i)
      BY <2>1, SparesTouched
    <2>2. CASE i = 1
      <3>1. There(db, x, c)
        <4>1. \A j \in DOMAIN s : s[j].do = "create" /\ s[j].table = x => 1 = j + 3
          BY <2>2, <2>u DEF Untouched
        <4>2. \A j \in DOMAIN s : j \in Nat /\ j > 0
          BY <1>1 DEF Shifted
        <4>3. ~\E j \in DOMAIN s : s[j].do = "create" /\ s[j].table = x /\ c \in s[j].cols
          BY <4>1, <4>2
        <4> QED BY <2>1, <2>u, <4>3 DEF ColumnDue, Untouched
      <3>2. a.do = "rename" /\ a.table = x /\ a.new = t
        BY <2>1, <2>2 DEF a, Rename
      <3>3. There(b, t, c)
        BY <1>1, <3>1, <3>2 DEF Changes, There
      <3> QED BY <3>3 DEF Due, ColumnDue, r, b, a
    <2>3. CASE i # 1
      <3>1. i - 1 \in DOMAIN r /\ r[i - 1] = Rename(x, t)
        BY <1>1, <2>1, <2>3 DEF Shifted
      <3>2. x \notin Tables
        BY SparesAre
      <3>3. a.do \in {"rename", "drop", "drop_if_exists"} => x # a.table
        <4>1. a.do # "drop_if_exists" /\ (a.do = "rename" /\ a.table = x => 1 = i)
          <5>1. /\ \A j \in DOMAIN s : s[j].do = "rename" /\ s[j].table = x => j = i
                /\ \A j \in DOMAIN s : s[j].do # "drop_if_exists" /\ s[j].do # "create_if_missing"
            BY <2>u DEF Untouched
          <5> QED BY <5>1, <1>1 DEF a, Shifted
        <4> QED BY <4>1, <3>2, <1>4, <2>3
      <3> QED BY <1>2, <2>1, <3>1, <3>3 DEF Due, r, b, a
    <2> QED BY <2>2, <2>3
  <1> QED BY <1>6, <1>7 DEF Due

\* The same of the tables themselves.
LEMMA TableStaysDue ==
  ASSUME NEW s \in Seq(Statements), s # <<>>, InARow(s), LeftAlone(s), NEW db, IsDb(db), NEW k,
         Possible(s[1], db, k), NEW t \in Tables, TableDue(db, s, t)
  PROVE TableDue(After(s[1], db), Tail(s), t)
  <1> DEFINE a == s[1]
             b == After(a, db)
             r == Tail(s)
  <1>1. a \in Statements /\ Kind(a) /\ Changes(a, db, b) /\ Shifted(s, r) /\ Neighbours(s, r)
    BY Rest, Kinds, Changed, Around
  <1>3. a.do = "drop_if_exists" => a.table = "credentials_new"
    BY <1>1 DEF LeftAlone, Shifted
  <1>4. /\ a.do = "rename" => a.new \in Tables /\ a.table \notin Tables
        /\ "credentials_new" \notin Tables
    <2>1. "credentials_new" \notin Tables
      BY DEF Tables, Models
    <2> QED BY <1>1, <2>1, SparesAre DEF Neighbours
  <1>r. r \in Seq(Statements)
    BY Rest
  <1> HIDE DEF a, b, r
  <1>5. CASE Has(db, t)
    <2>1. CASE a.do = "drop" /\ a.table = t
      <3>1. r # <<>> /\ \E x \in Spares(t) : r[1] = Rename(x, t)
        BY <1>1, <2>1 DEF Neighbours, a
      <3>2. 1 \in DOMAIN r
        BY <1>r, <3>1
      <3>3. Rebuilt(r, t)
        <4>1. r[1].do = "rename" /\ r[1].new = t
          BY <3>1 DEF Rename
        <4> QED BY <4>1, <3>2 DEF Rebuilt
      <3> QED BY <3>3 DEF TableDue, r
    <2>2. CASE a.do \in {"rename", "drop_if_exists"} \/ (a.do = "drop" /\ a.table # t)
      BY <1>1, <1>3, <1>4, <1>5, <2>2 DEF Changes, TableDue, b, a
    <2>3. CASE a.do \in {"create", "create_if_missing", "add", "add_if_missing"}
      BY <1>1, <1>5, <2>3 DEF Changes, TableDue, b, a
    <2>4. CASE a.do \notin {"rename", "drop", "drop_if_exists", "create", "create_if_missing",
                            "add", "add_if_missing"}
      BY <1>1, <1>5, <2>4 DEF Changes, TableDue, Has, b, a
    <2> QED BY <2>1, <2>2, <2>3, <2>4
  <1>6. CASE Creates(s, t)
    <2>1. PICK i \in DOMAIN s : s[i].do \in {"create", "create_if_missing"} /\ s[i].table = t
      BY <1>6 DEF Creates
    <2>2. CASE i = 1
      BY <1>1, <2>1, <2>2 DEF Changes, TableDue, b, a
    <2>3. CASE i # 1
      BY <1>1, <2>1, <2>3 DEF Shifted, TableDue, Creates, r
    <2> QED BY <2>2, <2>3
  <1>7. CASE Rebuilt(s, t)
    <2>1. PICK i \in DOMAIN s : s[i].do = "rename" /\ s[i].new = t
      BY <1>7 DEF Rebuilt
    <2>2. CASE i = 1
      BY <1>1, <2>1, <2>2 DEF Changes, TableDue, b, a
    <2>3. CASE i # 1
      BY <1>1, <2>1, <2>3 DEF Shifted, TableDue, Rebuilt, r
    <2> QED BY <2>2, <2>3
  <1> QED BY <1>5, <1>6, <1>7 DEF TableDue

-----------------------------------------------------------------------------
(* A statement never does what was not due *)

Foreign == {"create_if_missing", "drop_if_exists", "mark", "pragma"}

\* A statement brings no column that the script did not owe before.
LEMMA ColumnWasDue ==
  ASSUME NEW s \in Seq(Statements), s # <<>>, NEW db, IsDb(db), NEW k,
         Possible(s[1], db, k), s[1].do \notin Foreign,
         NEW x, NEW c, ColumnDue(After(s[1], db), Tail(s), x, c)
  PROVE \/ ColumnDue(db, s, x, c)
        \/ s[1].do = "rename" /\ s[1].new = x /\ There(db, s[1].table, c)
  <1> DEFINE a == s[1]
             b == After(a, db)
             r == Tail(s)
  <1>1. a \in Statements /\ Kind(a) /\ Changes(a, db, b) /\ Shifted(s, r)
    BY Rest, Kinds, Changed
  <1> HIDE DEF a, b, r
  <1>2. CASE There(b, x, c)
    <2>1. CASE a.do = "create"
      <3>1. There(db, x, c) \/ (a.table = x /\ c \in a.cols)
        BY <1>1, <1>2, <2>1 DEF Changes, There
      <3> QED BY <1>1, <2>1, <3>1 DEF ColumnDue, Shifted, a
    <2>2. CASE a.do \in {"add", "add_if_missing"}
      <3>1. There(db, x, c) \/ (a.table = x /\ a.col = c)
        BY <1>1, <1>2, <2>2 DEF Changes, There
      <3>2. a = Add(a.table, a.col) \/ a = AddIfMissing(a.table, a.col)
        BY <1>1, <2>2 DEF Kind
      <3> QED BY <1>1, <3>1, <3>2 DEF ColumnDue, Shifted, a
    <2>3. CASE a.do = "drop"
      <3>1. There(db, x, c)
        BY <1>1, <1>2, <2>3 DEF Changes, There
      <3> QED BY <3>1 DEF ColumnDue
    <2>4. CASE a.do = "rename"
      <3>1. There(db, x, c) \/ (a.new = x /\ There(db, a.table, c))
        BY <1>1, <1>2, <2>4 DEF Changes, There
      <3> QED BY <2>4, <3>1 DEF ColumnDue, a
    <2>5. CASE a.do \notin {"create", "add", "add_if_missing", "drop", "rename"}
      <3>1. There(db, x, c)
        BY <1>1, <1>2, <2>5 DEF Changes, There, Has, Foreign, a
      <3> QED BY <3>1 DEF ColumnDue
    <2> QED BY <2>1, <2>2, <2>3, <2>4, <2>5
  <1>3. CASE \E i \in DOMAIN r : r[i] = Add(x, c) \/ r[i] = AddIfMissing(x, c)
    BY <1>1, <1>3 DEF ColumnDue, Shifted
  <1>4. CASE \E i \in DOMAIN r : r[i].do = "create" /\ r[i].table = x /\ c \in r[i].cols
    BY <1>1, <1>4 DEF ColumnDue, Shifted
  <1> QED BY <1>2, <1>3, <1>4 DEF ColumnDue, b, r, a

\* The same, with the columns of the spare tables.
LEMMA WasDue ==
  ASSUME NEW s \in Seq(Statements), s # <<>>, InARow(s), NEW db, IsDb(db), NEW k,
         Possible(s[1], db, k), s[1].do \notin Foreign,
         NEW t \in Tables, NEW c, Due(After(s[1], db), Tail(s), t, c)
  PROVE Due(db, s, t, c)
  <1> DEFINE a == s[1]
             b == After(a, db)
             r == Tail(s)
  <1>1. a \in Statements /\ Kind(a) /\ Shifted(s, r) /\ Neighbours(s, r)
    BY Rest, Kinds, Around
  <1>2. \A x : ColumnDue(b, r, x, c) =>
            \/ ColumnDue(db, s, x, c)
            \/ a.do = "rename" /\ a.new = x /\ There(db, a.table, c)
    BY ColumnWasDue
  <1>3. a.do = "rename" => a.new \in Tables /\ a.table \in Spares(a.new) /\ a = Rename(a.table, a.new)
    BY <1>1 DEF Neighbours, Kind
  <1> HIDE DEF a, b, r
  <1>4. CASE ColumnDue(b, r, t, c)
    <2>1. CASE ColumnDue(db, s, t, c)
      BY <2>1 DEF Due
    <2>2. CASE a.do = "rename" /\ a.new = t /\ There(db, a.table, c)
      <3>1. 1 \in DOMAIN s /\ s[1] = Rename(a.table, t) /\ ColumnDue(db, s, a.table, c)
        BY <1>1, <1>3, <2>2 DEF Shifted, ColumnDue, a
      <3> QED BY <1>3, <2>2, <3>1 DEF Due
    <2> QED BY <1>2, <1>4, <2>1, <2>2
  <1>5. CASE \E x \in Spares(t) : ColumnDue(b, r, x, c) /\ \E i \in DOMAIN r : r[i] = Rename(x, t)
    <2>1. PICK x \in Spares(t), i \in DOMAIN r : ColumnDue(b, r, x, c) /\ r[i] = Rename(x, t)
      BY <1>5
    <2>2. ColumnDue(db, s, x, c)
      BY <1>2, <1>3, <2>1, SparesAre
    <2>3. i + 1 \in DOMAIN s /\ s[i + 1] = Rename(x, t)
      BY <1>1, <2>1 DEF Shifted
    <2> QED BY <2>2, <2>3 DEF Due
  <1> QED BY <1>4, <1>5 DEF Due, b, r, a

\* The same of the tables themselves.
LEMMA TableWasDue ==
  ASSUME NEW s \in Seq(Statements), s # <<>>, NEW db, IsDb(db), NEW k,
         Possible(s[1], db, k), NEW t, TableDue(After(s[1], db), Tail(s), t)
  PROVE TableDue(db, s, t)
  <1> DEFINE a == s[1]
             b == After(a, db)
             r == Tail(s)
  <1>1. a \in Statements /\ Kind(a) /\ Changes(a, db, b) /\ Shifted(s, r)
    BY Rest, Kinds, Changed
  <1> HIDE DEF a, b, r
  <1>2. CASE Has(b, t)
    <2>1. CASE a.do \in {"create", "create_if_missing"}
      <3>1. Has(db, t) \/ a.table = t
        BY <1>1, <1>2, <2>1 DEF Changes
      <3> QED BY <1>1, <2>1, <3>1 DEF TableDue, Creates, Shifted, a
    <2>2. CASE a.do = "rename"
      <3>1. Has(db, t) \/ a.new = t
        BY <1>1, <1>2, <2>2 DEF Changes
      <3> QED BY <1>1, <2>2, <3>1 DEF TableDue, Rebuilt, Shifted, a
    <2>3. CASE a.do \in {"add", "add_if_missing", "drop", "drop_if_exists"}
      BY <1>1, <1>2, <2>3 DEF Changes, TableDue
    <2>4. CASE a.do \notin {"create", "create_if_missing", "rename", "add", "add_if_missing",
                            "drop", "drop_if_exists"}
      BY <1>1, <1>2, <2>4 DEF Changes, TableDue, Has
    <2> QED BY <2>1, <2>2, <2>3, <2>4
  <1>3. CASE Creates(r, t)
    BY <1>1, <1>3 DEF TableDue, Creates, Shifted
  <1>4. CASE Rebuilt(r, t)
    BY <1>1, <1>4 DEF TableDue, Rebuilt, Shifted
  <1> QED BY <1>2, <1>3, <1>4 DEF TableDue, b, r, a

-----------------------------------------------------------------------------
(* In the middle of rebuilding a table *)

\* What is left of a script suits what its first statement has made of the database.
LEMMA SuitsRest ==
  ASSUME NEW s \in Seq(Statements), s # <<>>, InARow(s), LeftAlone(s), NEW db, IsDb(db), NEW k,
         Possible(s[1], db, k), NEW o, Suits(db, s, o)
  PROVE Suits(After(s[1], db), Tail(s), s[1].do # "commit" /\ (o \/ s[1].do \in Writes))
  <1> DEFINE a == s[1]
             b == After(a, db)
             r == Tail(s)
             p == a.do # "commit" /\ (o \/ a.do \in Writes)
  <1>1. /\ a \in Statements /\ Kind(a) /\ Changes(a, db, b) /\ Does(a, db, b)
        /\ Shifted(s, r) /\ Neighbours(s, r)
    BY Rest, Kinds, Changed, Effect, Around
  <1>r. r \in Seq(Statements)
    BY Rest
  <1>s. /\ \A i \in DOMAIN s : s[i].do = "create" /\ s[i].table \notin Tables =>
             \A t \in Tables : s[i + 1] = Copy(t, s[i].table) /\ Has(db, t) => db.def[t] \subseteq s[i].cols
        /\ \A t \in Tables : \A x \in Spares(t) :
             /\ a = Copy(t, x) => Has(db, x) /\ (Has(db, t) => db.def[t] \subseteq db.def[x])
             /\ a = Drop(t) /\ s[2] = Rename(x, t) => o /\ Has(db, x)
    BY DEF Suits
  <1> HIDE DEF a, b, r
  <1>2. ASSUME NEW i \in DOMAIN r, r[i].do = "create", r[i].table \notin Tables,
               NEW t \in Tables, r[i + 1] = Copy(t, r[i].table), Has(b, t)
        PROVE b.def[t] \subseteq r[i].cols
    <2>1. i + 1 \in DOMAIN s /\ r[i] = s[i + 1] /\ i \in Nat /\ i > 0
      BY <1>1 DEF Shifted
    <2>2. PICK u \in Tables :
           /\ s[i + 1].table \in Spares(u) /\ i + 1 + 3 \in DOMAIN s
           /\ s[i + 1 + 1] = Copy(u, s[i + 1].table) /\ s[i + 1 + 3] = Rename(s[i + 1].table, u)
      BY <1>2, <2>1 DEF InARow
    <2>3. i + 1 \in DOMAIN r /\ r[i + 1] = s[i + 1 + 1]
      BY <1>1, <2>1, <2>2 DEF Shifted
    <2>4. u = t
      BY <1>2, <2>1, <2>2, <2>3 DEF Copy
    <2> DEFINE x == s[i + 1].table
               j == i + 1 + 3
    <2>5. Untouched(s, x, t, j)
      BY <2>2, <2>4, SparesTouched
    <2>6. /\ a.do # "create_if_missing" /\ a.do # "drop_if_exists"
          /\ a.do = "create" => a.table # t
          /\ \A c : a # Add(t, c) /\ a # AddIfMissing(t, c)
      BY <2>5, <1>1 DEF Untouched, Shifted, a
    <2>7. ~(a.do = "rename" /\ a.new = t)
      <3>1. s[j].do = "rename" /\ s[j].new = t /\ j \in DOMAIN s /\ j # 1 /\ 1 \in DOMAIN s
        BY <1>1, <2>1, <2>2, <2>4 DEF Rename, Shifted
      <3> QED BY <3>1 DEF LeftAlone, a
    <2>8. a.do \in {"add", "add_if_missing"} => a.table # t
      BY <2>6, <1>1 DEF Kind
    <2>9. Has(db, t) /\ b.def[t] = db.def[t]
      <3>1. CASE a.do \in {"drop", "rename"}
        BY <1>1, <1>2, <2>7, <3>1 DEF Changes
      <3>2. CASE a.do \in {"create", "add", "add_if_missing"}
        BY <1>1, <1>2, <2>6, <2>8, <3>2 DEF Changes
      <3>3. CASE a.do \notin {"drop", "rename", "create", "add", "add_if_missing"}
        BY <1>1, <1>2, <2>6, <3>3 DEF Changes, Has
      <3> QED BY <3>1, <3>2, <3>3
    <2> QED BY <1>s, <1>2, <2>1, <2>3, <2>9
  <1>3. ASSUME NEW t \in Tables, NEW x \in Spares(t), r # <<>>, r[1] = Copy(t, x)
        PROVE Has(b, x) /\ (Has(b, t) => b.def[t] \subseteq b.def[x])
    <2>1. 1 \in DOMAIN s /\ 2 \in DOMAIN s /\ s[1 + 1] = r[1]
      BY <1>1, <1>r, <1>3 DEF Shifted
    <2>2. a.do = "create" /\ a.table = x
      <3>1. r[1].do = "copy" /\ r[1].new = x
        BY <1>3 DEF Copy
      <3> QED BY <1>1, <1>3, <3>1 DEF Neighbours, a
    <2>3. Has(db, t) => db.def[t] \subseteq a.cols
      BY <1>s, <1>3, <2>1, <2>2, SparesAre DEF a
    <2> QED BY <1>1, <2>2, <2>3, SparesAre DEF Changes
  <1>4. ASSUME NEW t \in Tables, NEW x \in Spares(t), r # <<>>, r[1] = Drop(t), r[2] = Rename(x, t)
        PROVE /\ p /\ Has(b, x) /\ (Has(b, t) => b.def[t] \subseteq b.def[x])
              /\ t \in b.holds => x \in b.holds
    <2>1. r[1].do = "drop" /\ r[1].table = t
      BY <1>4 DEF Drop
    <2>2. PICK y \in Spares(t) : a = Copy(t, y) /\ r[2] = Rename(y, t)
      BY <1>1, <1>4, <2>1 DEF Neighbours, a
    <2>3. y = x
      BY <1>4, <2>2 DEF Rename
    <2>4. a.do = "copy" /\ a.table = t /\ a.new = x
      BY <2>2, <2>3 DEF Copy
    <2>5. b.def = db.def
      BY <1>1, <2>4 DEF Changes
    <2>6. b.holds = db.holds \union (IF t \in db.holds THEN {x} ELSE {})
      BY <1>1, <2>4 DEF Does
    <2>7. p
      BY <2>4 DEF Writes
    <2> QED BY <1>s, <2>2, <2>3, <2>5, <2>6, <2>7, SparesAre DEF Has
  <1>5. ASSUME NEW t \in Tables, NEW x \in Spares(t), r # <<>>, r[1] = Rename(x, t)
        PROVE p /\ Has(b, x)
    <2>1. r[1].do = "rename" /\ r[1].new = t
      BY <1>5 DEF Rename
    <2>2. a = Drop(t)
      BY <1>1, <1>5, <2>1 DEF Neighbours, a
    <2>3. a.do = "drop" /\ a.table = t
      BY <2>2 DEF Drop
    <2>4. s[2] = r[1]
      BY <1>1, <1>r, <1>5 DEF Shifted
    <2>5. o /\ Has(db, x)
      BY <1>s, <1>5, <2>2, <2>4
    <2>6. Has(b, x)
      BY <1>1, <2>3, <2>5, SparesAre DEF Changes
    <2> QED BY <2>3, <2>5, <2>6
  <1> HIDE DEF p
  <1>6. Suits(b, r, p)
    BY <1>2, <1>3, <1>4, <1>5 DEF Suits
  <1> QED BY <1>6 DEF p, a, b, r

-----------------------------------------------------------------------------
(* Alembic alone, through a statement *)

\* A script that fits never fails at its first statement, when no keys are enforced.
LEMMA FitsPossible ==
  ASSUME NEW s \in Seq(Statements), s # <<>>, NEW db, Fits(db, s), s[1].do \notin Foreign
  PROVE Possible(s[1], db, FALSE)
  <1> DEFINE a == s[1]
  <1>1. a \in Statements /\ Kind(a) /\ 1 \in DOMAIN s
    BY Rest, Kinds DEF Shifted
  <1>2. CASE a.do = "add"
    <2>1. /\ ~There(db, a.table, a.col)
          /\ Has(db, a.table) \/ \E j \in 1 .. 1 - 1 : s[j].do = "create" /\ s[j].table = s[1].table
      BY <1>1, <1>2 DEF Fits
    <2>2. Has(db, a.table)
      BY <2>1
    <2> QED BY <1>2, <2>1, <2>2 DEF Possible, There
  <1>3. CASE a.do = "add_if_missing"
    <2>1. Has(db, a.table)
      BY <1>1, <1>3 DEF Fits
    <2> QED BY <1>3, <2>1 DEF Possible
  <1>4. CASE a.do = "create"
    <2>1. ~Has(db, a.table)
      BY <1>1, <1>4 DEF Fits
    <2> QED BY <1>4, <2>1 DEF Possible
  <1>5. CASE a.do = "copy"
    <2>1. Has(db, a.table) /\ db.def[a.new] \ Flags \subseteq db.def[a.table]
      BY <1>1, <1>5 DEF Fits
    <2> QED BY <1>5, <2>1 DEF Possible
  <1>6. CASE a.do = "drop"
    <2>1. Has(db, a.table)
      BY <1>1, <1>6 DEF Fits
    <2> QED BY <1>6, <2>1 DEF Possible
  <1>7. CASE a.do = "rename"
    <2>1. Has(db, a.table) /\ ~Has(db, a.new)
      BY <1>1, <1>7 DEF Fits
    <2> QED BY <1>7, <2>1 DEF Possible
  <1>8. CASE a.do \in {"correct", "version", "commit"}
    BY <1>8 DEF Possible
  <1>9. a.do \in {"create", "add", "add_if_missing", "drop", "rename", "copy", "correct", "version",
                  "commit"}
    BY <1>1 DEF Kind, Foreign
  <1> QED BY <1>2, <1>3, <1>4, <1>5, <1>6, <1>7, <1>8, <1>9

\* What is rebuilt does not change before it is.
LEMMA RebuiltLast ==
  ASSUME NEW s \in Seq(Statements), s # <<>>, InARow(s), LeftAlone(s), NEW db, IsDb(db), NEW k,
         Possible(s[1], db, k), s[1].do \notin Foreign, NEW t \in Tables, NEW x \in Spares(t),
         NEW j \in DOMAIN s, j > 2, s[j] = Rename(x, t)
  PROVE LET b == After(s[1], db)
        IN (Has(b, t) <=> Has(db, t)) /\ (Has(db, t) => b.def[t] = db.def[t])
  <1> DEFINE a == s[1]
             b == After(a, db)
             r == Tail(s)
  <1>1. /\ a \in Statements /\ Kind(a) /\ Changes(a, db, b) /\ Shifted(s, r) /\ Neighbours(s, r)
        /\ r \in Seq(Statements)
    BY Rest, Kinds, Changed, Around
  <1>2. Untouched(s, x, t, j) /\ s[j].do = "rename" /\ s[j].new = t /\ 1 \in DOMAIN s
    BY <1>1, SparesTouched DEF Rename, Shifted
  <1>3. /\ a.do = "create" => a.table # t
        /\ \A c : a # Add(t, c) /\ a # AddIfMissing(t, c)
    BY <1>2 DEF Untouched
  <1>4. ~(a.do = "rename" /\ a.new = t)
    BY <1>2 DEF LeftAlone
  <1>5. ~(a.do = "drop" /\ a.table = t)
    <2> SUFFICES ASSUME a.do = "drop", a.table = t
          PROVE FALSE
      OBVIOUS
    <2>1. PICK y \in Spares(t) : r # <<>> /\ r[1] = Rename(y, t)
      BY <1>1 DEF Neighbours
    <2>2. 2 \in DOMAIN s /\ s[2] = Rename(y, t)
      BY <1>1, <2>1 DEF Shifted
    <2>3. s[2].do = "rename" /\ s[2].new = t
      BY <2>2 DEF Rename
    <2> QED BY <1>2, <2>2, <2>3 DEF LeftAlone
  <1>6. a.do = "rename" => a.table # t
    BY <1>1, SparesAre DEF Neighbours
  <1>7. a.do \in {"add", "add_if_missing"} => a.table # t
    BY <1>1, <1>3 DEF Kind
  <1> HIDE DEF b
  <1>8. CASE a.do \in {"create", "add", "add_if_missing"}
    BY <1>1, <1>3, <1>7, <1>8 DEF Changes, b
  <1>9. CASE a.do \in {"drop", "rename"}
    BY <1>1, <1>4, <1>5, <1>6, <1>9 DEF Changes, b
  <1>10. CASE a.do \notin {"create", "add", "add_if_missing", "drop", "rename"}
    BY <1>1, <1>10 DEF Changes, Has, Foreign, b
  <1> QED BY <1>8, <1>9, <1>10

\* What is left of a script that fits still fits.
LEMMA FitsRest ==
  ASSUME NEW s \in Seq(Statements), s # <<>>, InARow(s), LeftAlone(s), NEW db, IsDb(db), NEW k,
         Possible(s[1], db, k), NEW o, Suits(db, s, o), Fits(db, s),
         \A i \in DOMAIN s : s[i].do \notin Foreign
  PROVE Fits(After(s[1], db), Tail(s))
  <1> DEFINE a == s[1]
             b == After(a, db)
             r == Tail(s)
             o2 == a.do # "commit" /\ (o \/ a.do \in Writes)
  <1>1. /\ a \in Statements /\ Kind(a) /\ Changes(a, db, b) /\ Shifted(s, r) /\ Neighbours(s, r)
        /\ r \in Seq(Statements) /\ 1 \in DOMAIN s
    BY Rest, Kinds, Changed, Around DEF Shifted
  <1>2. Suits(b, r, o2)
    BY SuitsRest
  <1>3. a.do \notin Foreign
    BY <1>1
  <1>f. \A i \in DOMAIN s :
          /\ s[i].do = "add" =>
               /\ ~There(db, s[i].table, s[i].col)
               /\ Has(db, s[i].table)
                    \/ \E j \in 1 .. i - 1 : s[j].do = "create" /\ s[j].table = s[i].table
               /\ \A j \in DOMAIN s : s[j].do \in {"add", "add_if_missing"} /\ s[j].table = s[i].table
                                        /\ s[j].col = s[i].col => j = i
               /\ \A j \in DOMAIN s : s[j].do = "create" /\ s[j].table = s[i].table =>
                    s[i].col \notin s[j].cols
          /\ s[i].do = "add_if_missing" => Has(db, s[i].table)
          /\ s[i].do = "create" =>
               /\ ~Has(db, s[i].table)
               /\ \A j \in DOMAIN s : s[j].do = "create" /\ s[j].table = s[i].table => j = i
               /\ s[i].table \notin Tables => \A t \in Tables : s[i + 1] = Copy(t, s[i].table) =>
                    Has(db, t) /\ s[i].cols \ Flags \subseteq db.def[t]
    BY DEF Fits
  <1>i. \A i \in DOMAIN r : i + 1 \in DOMAIN s /\ r[i] = s[i + 1] /\ i \in Nat /\ i > 0
    BY <1>1 DEF Shifted
  <1> HIDE DEF a, b, r, o2
  \* A table that is not rebuilt is not dropped, nor does one come by renaming.
  <1>a. \A t \in Tables : ~Rebuilt(s, t) =>
          /\ ~(a.do = "rename" /\ a.new = t) /\ ~(a.do = "drop" /\ a.table = t)
          /\ a.do = "rename" => a.table # t
    <2> SUFFICES ASSUME NEW t \in Tables, ~Rebuilt(s, t)
          PROVE /\ ~(a.do = "rename" /\ a.new = t) /\ ~(a.do = "drop" /\ a.table = t)
                /\ a.do = "rename" => a.table # t
      OBVIOUS
    <2>1. ~(a.do = "rename" /\ a.new = t)
      BY <1>1 DEF Rebuilt, a
    <2>2. ASSUME a.do = "drop", a.table = t
          PROVE FALSE
      <3>1. PICK y \in Spares(t) : r # <<>> /\ r[1] = Rename(y, t)
        BY <1>1, <2>2 DEF Neighbours, a
      <3>2. 2 \in DOMAIN s /\ s[2] = Rename(y, t)
        BY <1>1, <3>1 DEF Shifted
      <3>3. s[2].do = "rename" /\ s[2].new = t
        BY <3>2 DEF Rename
      <3> QED BY <3>2, <3>3 DEF Rebuilt
    <2>3. a.do = "rename" => a.table # t
      BY <1>1, SparesAre DEF Neighbours, a
    <2> QED BY <2>1, <2>2, <2>3
  <1>h. \A t \in Tables : ~Rebuilt(s, t) /\ Has(db, t) => Has(b, t)
    <2> SUFFICES ASSUME NEW t \in Tables, ~Rebuilt(s, t), Has(db, t)
          PROVE Has(b, t)
      OBVIOUS
    <2>1. CASE a.do \in {"drop", "rename"}
      BY <1>1, <1>a, <2>1 DEF Changes
    <2>2. CASE a.do \in {"create", "add", "add_if_missing"}
      BY <1>1, <2>2 DEF Changes
    <2>3. CASE a.do \notin {"drop", "rename", "create", "add", "add_if_missing"}
      BY <1>1, <1>3, <2>3 DEF Changes, Has, Foreign
    <2> QED BY <2>1, <2>2, <2>3
  <1>4. ASSUME NEW i \in DOMAIN r, r[i].do = "add"
        PROVE /\ ~There(b, r[i].table, r[i].col)
              /\ Has(b, r[i].table)
                   \/ \E j \in 1 .. i - 1 : r[j].do = "create" /\ r[j].table = r[i].table
              /\ \A j \in DOMAIN r : r[j].do \in {"add", "add_if_missing"} /\ r[j].table = r[i].table
                                       /\ r[j].col = r[i].col => j = i
              /\ \A j \in DOMAIN r : r[j].do = "create" /\ r[j].table = r[i].table =>
                   r[i].col \notin r[j].cols
    <2> DEFINE t == r[i].table
               c == r[i].col
    <2>1. /\ i + 1 \in DOMAIN s /\ s[i + 1] = r[i] /\ i \in Nat /\ i > 0
          /\ t \in Tables /\ ~Rebuilt(s, t)
      BY <1>i, <1>4 DEF LeftAlone
    <2>2. /\ ~There(db, t, c)
          /\ Has(db, t) \/ \E j \in 1 .. i : s[j].do = "create" /\ s[j].table = t
          /\ \A j \in DOMAIN s : s[j].do \in {"add", "add_if_missing"} /\ s[j].table = t
                                   /\ s[j].col = c => j = i + 1
          /\ \A j \in DOMAIN s : s[j].do = "create" /\ s[j].table = t => c \notin s[j].cols
      <3>1. i + 1 - 1 = i
        BY <2>1
      <3> QED BY <1>f, <1>4, <2>1, <3>1
    <2> HIDE DEF t, c
    <2>3. ~There(b, t, c)
      <3>1. CASE a.do \in {"drop", "rename"}
        BY <1>1, <1>a, <2>1, <2>2, <3>1 DEF Changes, There
      <3>2. CASE a.do = "create"
        BY <1>1, <2>2, <3>2 DEF Changes, There, a
      <3>3. CASE a.do \in {"add", "add_if_missing"}
        <4>1. ~(a.table = t /\ a.col = c)
          BY <1>1, <2>1, <2>2, <3>3 DEF a
        <4> QED BY <1>1, <2>2, <3>3, <4>1 DEF Changes, There
      <3>4. CASE a.do \notin {"drop", "rename", "create", "add", "add_if_missing"}
        BY <1>1, <1>3, <2>2, <3>4 DEF Changes, There, Has, Foreign
      <3> QED BY <3>1, <3>2, <3>3, <3>4
    <2>4. Has(b, t) \/ \E j \in 1 .. i - 1 : r[j].do = "create" /\ r[j].table = t
      <3>1. CASE Has(db, t)
        BY <1>h, <2>1, <3>1
      <3>2. CASE \E j \in 1 .. i : s[j].do = "create" /\ s[j].table = t
        <4>1. PICK j \in 1 .. i : s[j].do = "create" /\ s[j].table = t
          BY <3>2
        <4>2. CASE j = 1
          BY <1>1, <4>1, <4>2 DEF Changes, a
        <4>3. CASE j # 1
          <5>1. j - 1 \in 1 .. i - 1 /\ j \in DOMAIN s
            BY <1>1, <2>1, <4>3 DEF Shifted
          <5>2. r[j - 1] = s[j]
            BY <1>1, <4>3, <5>1 DEF Shifted
          <5> QED BY <4>1, <5>1, <5>2
        <4> QED BY <4>2, <4>3
      <3> QED BY <2>2, <3>1, <3>2
    <2>5. \A j \in DOMAIN r : r[j].do \in {"add", "add_if_missing"} /\ r[j].table = t
                                /\ r[j].col = c => j = i
      <3> SUFFICES ASSUME NEW j \in DOMAIN r, r[j].do \in {"add", "add_if_missing"},
                          r[j].table = t, r[j].col = c
            PROVE j = i
        OBVIOUS
      <3>1. j + 1 \in DOMAIN s /\ r[j] = s[j + 1] /\ j \in Nat
        BY <1>i
      <3>2. j + 1 = i + 1
        BY <2>2, <3>1
      <3> QED BY <2>1, <3>1, <3>2
    <2>6. \A j \in DOMAIN r : r[j].do = "create" /\ r[j].table = t => c \notin r[j].cols
      BY <1>i, <2>2
    <2> QED BY <2>3, <2>4, <2>5, <2>6 DEF t, c
  <1>5. ASSUME NEW i \in DOMAIN r, r[i].do = "add_if_missing"
        PROVE Has(b, r[i].table)
    BY <1>f, <1>h, <1>i, <1>5 DEF LeftAlone
  <1>6. ASSUME NEW i \in DOMAIN r, r[i].do = "create"
        PROVE /\ ~Has(b, r[i].table)
              /\ \A j \in DOMAIN r : r[j].do = "create" /\ r[j].table = r[i].table => j = i
              /\ r[i].table \notin Tables => \A t \in Tables : r[i + 1] = Copy(t, r[i].table) =>
                   Has(b, t) /\ r[i].cols \ Flags \subseteq b.def[t]
    <2> DEFINE x == r[i].table
    <2>1. i + 1 \in DOMAIN s /\ s[i + 1] = r[i] /\ i \in Nat /\ i > 0
      BY <1>i
    <2>2. /\ ~Has(db, x)
          /\ \A j \in DOMAIN s : s[j].do = "create" /\ s[j].table = x => j = i + 1
      BY <1>f, <1>6, <2>1
    <2>3. ~Has(b, x)
      <3>1. CASE a.do = "rename"
        <4>1. a.new \in Tables /\ Rebuilt(s, a.new)
          BY <1>1, <3>1 DEF Neighbours, Rebuilt, a
        <4>2. x \in Tables => ~Rebuilt(s, x)
          BY <1>6, <2>1 DEF LeftAlone
        <4> QED BY <1>1, <2>2, <3>1, <4>1, <4>2 DEF Changes
      <3>2. CASE a.do = "create"
        <4>1. a.table # x
          BY <1>1, <2>1, <2>2, <3>2 DEF a
        <4> QED BY <1>1, <2>2, <3>2, <4>1 DEF Changes
      <3>3. CASE a.do \in {"drop", "add", "add_if_missing"}
        BY <1>1, <2>2, <3>3 DEF Changes
      <3>4. CASE a.do \notin {"rename", "create", "drop", "add", "add_if_missing"}
        BY <1>1, <1>3, <2>2, <3>4 DEF Changes, Has, Foreign
      <3> QED BY <3>1, <3>2, <3>3, <3>4
    <2>4. \A j \in DOMAIN r : r[j].do = "create" /\ r[j].table = x => j = i
      <3> SUFFICES ASSUME NEW j \in DOMAIN r, r[j].do = "create", r[j].table = x
            PROVE j = i
        OBVIOUS
      <3>1. j + 1 \in DOMAIN s /\ r[j] = s[j + 1] /\ j \in Nat
        BY <1>i
      <3>2. j + 1 = i + 1
        BY <2>2, <3>1
      <3> QED BY <2>1, <3>1, <3>2
    <2>5. ASSUME x \notin Tables, NEW t \in Tables, r[i + 1] = Copy(t, x)
          PROVE Has(b, t) /\ r[i].cols \ Flags \subseteq b.def[t]
      <3>1. PICK u \in Tables :
             /\ s[i + 1].table \in Spares(u) /\ i + 1 + 3 \in DOMAIN s
             /\ s[i + 1 + 1] = Copy(u, s[i + 1].table) /\ s[i + 1 + 3] = Rename(s[i + 1].table, u)
        BY <1>6, <2>1, <2>5 DEF InARow
      <3>2. i + 1 \in DOMAIN r /\ r[i + 1] = s[i + 1 + 1]
        BY <1>1, <2>1, <3>1 DEF Shifted
      <3>3. u = t
        BY <2>1, <2>5, <3>1, <3>2 DEF Copy
      <3>4. Has(db, t) /\ r[i].cols \ Flags \subseteq db.def[t]
        BY <1>f, <1>6, <2>1, <2>5, <3>2
      <3>5. i + 1 + 3 > 2
        BY <2>1
      <3>6. (Has(b, t) <=> Has(db, t)) /\ (Has(db, t) => b.def[t] = db.def[t])
        BY <1>3, <2>1, <3>1, <3>3, <3>5, RebuiltLast DEF a, b
      <3> QED BY <3>4, <3>6
    <2> QED BY <2>3, <2>4, <2>5
  <1>7. /\ r # <<>> /\ r[1].do = "copy" =>
             Has(b, r[1].table) /\ b.def[r[1].new] \ Flags \subseteq b.def[r[1].table]
        /\ r # <<>> /\ r[1].do = "drop" => Has(b, r[1].table)
        /\ r # <<>> /\ r[1].do = "rename" => Has(b, r[1].table) /\ ~Has(b, r[1].new)
    <2>0. r # <<>> => 1 \in DOMAIN r /\ 2 \in DOMAIN s /\ s[2] = r[1] /\ s[1 + 1] = r[1] /\ r[1] \in Statements
      BY <1>1 DEF Shifted
    <2>1. ASSUME r # <<>>, r[1].do = "copy"
          PROVE Has(b, r[1].table) /\ b.def[r[1].new] \ Flags \subseteq b.def[r[1].table]
      <3> DEFINE t == r[1].table
                 x == r[1].new
      <3>1. a.do = "create" /\ a.table = x /\ r[1] = Copy(t, x)
        BY <1>1, <2>0, <2>1, Kinds DEF Neighbours, Kind, a
      <3>2. t \in Tables /\ x \in Spares(t)
        BY <2>0, <2>1 DEF InARow
      <3>3. x \notin Tables /\ x # t
        BY <3>2, SparesAre
      <3>4. Has(db, t) /\ a.cols \ Flags \subseteq db.def[t]
        BY <1>1, <1>f, <2>0, <2>1, <3>1, <3>2, <3>3 DEF a
      <3> QED BY <1>1, <3>1, <3>3, <3>4 DEF Changes
    <2>2. ASSUME r # <<>>, r[1].do = "drop"
          PROVE Has(b, r[1].table)
      <3>1. PICK x \in Spares(r[1].table) : a = Copy(r[1].table, x)
        BY <1>1, <2>2 DEF Neighbours, a
      <3>2. a.do = "copy" /\ a.table = r[1].table
        BY <3>1 DEF Copy
      <3>3. Has(db, a.table)
        BY <1>1, <3>2 DEF Fits, a
      <3> QED BY <1>1, <3>2, <3>3 DEF Changes, Has
    <2>3. ASSUME r # <<>>, r[1].do = "rename"
          PROVE Has(b, r[1].table) /\ ~Has(b, r[1].new)
      <3> DEFINE t == r[1].new
                 x == r[1].table
      <3>1. a = Drop(t) /\ t \in Tables /\ x \in Spares(t) /\ r[1] = Rename(x, t)
        BY <1>1, <2>0, <2>3, Kinds DEF Neighbours, Kind, a
      <3>2. a.do = "drop" /\ a.table = t
        BY <3>1 DEF Drop
      <3>3. Has(b, x)
        BY <1>2, <2>3, <3>1 DEF Suits
      <3> QED BY <1>1, <3>2, <3>3 DEF Changes
    <2> QED BY <2>1, <2>2, <2>3
  <1>8. 1 \in DOMAIN r => r # <<>>
    BY <1>1
  <1> HIDE DEF Foreign
  <1>9. Fits(b, r)
    BY <1>4, <1>5, <1>6, <1>7, <1>8 DEF Fits
  <1> QED BY <1>9 DEF a, b, r

\* A statement adds nothing that the chain does not make.
LEMMA NoExtrasRest ==
  ASSUME NEW s \in Seq(Statements), s # <<>>, InARow(s), LeftAlone(s), NEW db, IsDb(db), NEW k,
         Possible(s[1], db, k), s[1].do \notin Foreign, NEW n, NoExtras(db, s, n)
  PROVE NoExtras(After(s[1], db), Tail(s), n)
  <1> DEFINE a == s[1]
             b == After(a, db)
             r == Tail(s)
  <1>1. /\ a \in Statements /\ Kind(a) /\ Changes(a, db, b) /\ Shifted(s, r) /\ Neighbours(s, r)
        /\ r \in Seq(Statements) /\ 1 \in DOMAIN s
    BY Rest, Kinds, Changed, Around DEF Shifted
  <1>2. \A t \in Tables : \A c : Due(b, r, t, c) => Due(db, s, t, c)
    BY WasDue
  <1>3. \A t \in Tables : TableDue(b, r, t) => TableDue(db, s, t)
    BY TableWasDue
  <1>4. a.do = "rename" => a.new \in Tables
    BY <1>1 DEF Neighbours
  <1> HIDE DEF a, b, r
  <1>5. ASSUME NEW x \in DOMAIN b.def, x \notin Tables
        PROVE \E i \in DOMAIN r, t \in Tables : r[i] = Rename(x, t)
    <2>1. CASE Has(db, x)
      <3>1. PICK i \in DOMAIN s, t \in Tables : s[i] = Rename(x, t)
        BY <1>5, <2>1 DEF NoExtras, Has
      <3>2. CASE i = 1
        <4>1. a.do = "rename" /\ a.table = x
          BY <3>1, <3>2 DEF Rename, a
        <4> QED BY <1>1, <1>4, <1>5, <4>1 DEF Changes, Has
      <3>3. CASE i # 1
        <4>1. i - 1 \in DOMAIN r /\ r[i - 1] = s[i]
          BY <1>1, <3>3 DEF Shifted
        <4> QED BY <3>1, <4>1
      <3> QED BY <3>2, <3>3
    <2>2. CASE ~Has(db, x)
      <3>1. Has(b, x)
        BY <1>5 DEF Has
      <3>2. a.do = "create" /\ a.table = x
        <4>1. CASE a.do \in {"add", "add_if_missing", "drop", "rename", "create"}
          BY <1>1, <1>4, <1>5, <2>2, <3>1, <4>1 DEF Changes
        <4>2. CASE a.do \notin {"add", "add_if_missing", "drop", "rename", "create"}
          BY <1>1, <2>2, <3>1, <4>2 DEF Changes, Has, Foreign, a
        <4> QED BY <4>1, <4>2
      <3>3. \E t \in Tables : Len(r) > 2 /\ r[3] = Rename(x, t)
        BY <1>1, <1>5, <3>2 DEF Neighbours, a
      <3>4. Len(r) > 2 => 3 \in DOMAIN r
        BY <1>1
      <3> QED BY <3>3, <3>4
    <2> QED BY <2>1, <2>2
  <1>6. NoExtras(b, r, n)
    BY <1>2, <1>3, <1>5 DEF NoExtras
  <1> QED BY <1>6 DEF a, b, r

-----------------------------------------------------------------------------
(* The inductive invariant *)

IInv ==
  /\ TypeOK /\ WellFormed(todo) /\ Suits(work, todo, open) /\ Mine /\ CredentialsKnown /\ Kept
  /\ MarksMean /\ Repaired /\ RevisionsMean /\ StageGoals /\ CorrectionGoals /\ RevisionGoals
  /\ Served /\ Alone

\* The stages of the start-up, in order
LEMMA StagesAre ==
  /\ LastStage = 11 /\ Serving = 12
  /\ Stages[1] = "entrypoint" /\ Stages[2] = "create_all" /\ Stages[3] = "clean_up"
  /\ Stages[4] = "v09" /\ Stages[5] = "v15" /\ Stages[6] = "v16" /\ Stages[7] = "v161"
  /\ Stages[8] = "v161_repair" /\ Stages[9] = "v17" /\ Stages[10] = "v18" /\ Stages[11] = "orphans"
  BY DEF Stages, Migrations, LastStage, Serving

\* No stage comes twice.
LEMMA StagesDiffer ==
  \A k, l \in 1 .. LastStage : Stages[k] = Stages[l] => k = l
  <1>1. \A k \in 1 .. LastStage : k \in {1, 2, 3, 4, 5, 6, 7, 8, 9, 10, 11}
    BY StagesAre
  <1> QED BY <1>1, StagesAre

\* Without an open transaction no table is under another name.
LEMMA InPlace ==
  ASSUME NEW s \in Seq(Statements), InARow(s), NEW db, Suits(db, s, FALSE), NEW t
  PROVE Place(s, t) = t
  <1> SUFFICES ASSUME s # <<>>, s[1].do = "rename"
        PROVE FALSE
    BY DEF Place
  <1>1. s[1] \in Statements /\ Kind(s[1]) /\ Neighbours(s, Tail(s))
    BY Rest, Kinds, Around
  <1>2. s[1] = Rename(s[1].table, s[1].new) /\ s[1].new \in Tables /\ s[1].table \in Spares(s[1].new)
    BY <1>1 DEF Kind, Neighbours
  <1> QED BY <1>2 DEF Suits

\* When a script has nothing left but its record, or nothing at all, what is due is there.
LEMMA DueNow ==
  ASSUME NEW s \in Seq(Statements), Closes(s), s = <<>> \/ s[1].do \in {"mark", "version"},
         NEW db, NEW t
  PROVE /\ \A c : Due(db, s, t, c) => There(db, t, c)
        /\ TableDue(db, s, t) => Has(db, t)
        /\ Place(s, t) = t
        /\ \A v : \A i \in DOMAIN s : s[i] # Correct(v)
  <1>1. \A i \in DOMAIN s : s[i].do \in {"mark", "version", "commit"}
    <2>1. CASE s = <<>>
      BY <2>1
    <2>2. CASE s # <<>> /\ s[1].do \in {"mark", "version"}
      <3>1. DOMAIN s = 1 .. Len(s) /\ Len(s) \in Nat /\ 1 \in DOMAIN s
        BY <2>2, Rest DEF Shifted
      <3>a. Len(s) - 1 = 1
        BY <2>2, <3>1 DEF Closes
      <3>n. Len(s) \in Nat
        BY <3>1
      <3>b. Len(s) = 2
        BY <3>n, <3>a
      <3>2. s[Len(s)] = Commit
        BY <2>2, <3>1 DEF Closes, Writes
      <3>3. Len(s) = 2 /\ s[2] = Commit
        BY <3>b, <3>2
      <3>4. DOMAIN s = {1, 2}
        BY <3>1, <3>3
      <3>5. s[2].do = "commit"
        BY <3>3 DEF Commit
      <3> QED BY <2>2, <3>4, <3>5
    <2> QED BY <2>1, <2>2
  <1>2. \A x, c : \A i \in DOMAIN s : s[i] # Add(x, c)
    BY <1>1 DEF Add
  <1>3. \A x, c : \A i \in DOMAIN s : s[i] # AddIfMissing(x, c)
    BY <1>1 DEF AddIfMissing
  <1>4. \A x, y : \A i \in DOMAIN s : s[i] # Rename(x, y)
    BY <1>1 DEF Rename
  <1>5. \A v : \A i \in DOMAIN s : s[i] # Correct(v)
    BY <1>1 DEF Correct
  <1>6. \A i \in DOMAIN s : s[i].do \notin {"create", "create_if_missing", "rename"}
    BY <1>1
  <1>7. \A c : Due(db, s, t, c) => There(db, t, c)
    BY <1>2, <1>3, <1>4, <1>6 DEF Due, ColumnDue
  <1>8. TableDue(db, s, t) => Has(db, t)
    BY <1>6 DEF TableDue, Creates, Rebuilt
  <1>9. Place(s, t) = t
    BY DEF Place
  <1> QED BY <1>5, <1>7, <1>8, <1>9

-----------------------------------------------------------------------------
(* A statement is executed *)

\* What Execute does
Executes ==
  /\ todo # <<>> /\ todo[1] \in Statements /\ Kind(todo[1])
  /\ work' = After(todo[1], work) /\ todo' = Tail(todo)
  /\ Possible(todo[1], work, Enforced)
  /\ Does(todo[1], work, work') /\ Changes(todo[1], work, work')
  /\ Shifted(todo, todo') /\ Neighbours(todo, todo')
  /\ todo' \in Seq(Statements)
  /\ open' \in BOOLEAN
  /\ open' <=> todo[1].do # "commit" /\ (open \/ todo[1].do \in Writes)
  /\ open' => disk' = disk
  /\ ~open' => disk' = work'
  /\ keys' \in BOOLEAN
  /\ todo[1] = KeysOn /\ ~open => keys'
  /\ todo[1] = KeysOff /\ ~open => ~keys'
  /\ todo[1].do # "pragma" \/ open => (keys' <=> keys)
  /\ todo[1].do = "pragma" => todo[1] = KeysOn \/ todo[1] = KeysOff
  /\ UNCHANGED <<stage, alembic, crashes, upgrades, had, untouched>>

\* The parts of Execute, with the values in their sets
LEMMA Executing ==
  ASSUME TypeOK, InARow(todo), Execute
  PROVE Executes
  <1>1. todo \in Seq(Statements) /\ IsDb(work) /\ todo # <<>>
    BY DEF TypeOK, Execute
  <1>2. Head(todo) = todo[1] /\ todo[1] \in Statements /\ Kind(todo[1])
        /\ Shifted(todo, Tail(todo)) /\ Neighbours(todo, Tail(todo)) /\ Tail(todo) \in Seq(Statements)
    BY <1>1, Rest, Kinds, Around
  <1>3. Possible(todo[1], work, Enforced) /\ work' = After(todo[1], work) /\ todo' = Tail(todo)
    BY <1>2 DEF Execute
  <1>4. Does(todo[1], work, work') /\ Changes(todo[1], work, work')
    BY <1>1, <1>2, <1>3, Effect, Changed
  <1>5. /\ open' = (todo[1].do # "commit" /\ (open \/ todo[1].do \in Writes))
        /\ disk' = IF open' THEN disk ELSE work'
        /\ keys' = IF todo[1].do = "pragma" /\ ~open THEN todo[1].on ELSE keys
        /\ UNCHANGED <<stage, alembic, crashes, upgrades, had, untouched>>
    BY <1>2 DEF Execute
  <1>6. /\ open' \in BOOLEAN
        /\ open' <=> todo[1].do # "commit" /\ (open \/ todo[1].do \in Writes)
    BY <1>5
  <1>7. (open' => disk' = disk) /\ (~open' => disk' = work')
    BY <1>5
  <1>8. keys \in BOOLEAN /\ open \in BOOLEAN
    BY DEF TypeOK
  <1>9. todo[1].do = "pragma" => todo[1].on \in BOOLEAN /\ todo[1] = ForeignKeys(todo[1].on)
    BY <1>2 DEF Kind
  <1>10. todo[1].do = "pragma" => todo[1] = KeysOn \/ todo[1] = KeysOff
    <2> SUFFICES ASSUME todo[1].do = "pragma"
          PROVE todo[1] = KeysOn \/ todo[1] = KeysOff
      OBVIOUS
    <2>1. CASE todo[1].on = TRUE
      BY <1>9, <2>1 DEF KeysOn
    <2>2. CASE todo[1].on = FALSE
      BY <1>9, <2>2 DEF KeysOff
    <2> QED BY <1>9, <2>1, <2>2
  <1>11. todo[1] = KeysOn => todo[1].do = "pragma" /\ todo[1].on = TRUE
    BY DEF KeysOn, ForeignKeys
  <1>12. todo[1] = KeysOff => todo[1].do = "pragma" /\ todo[1].on = FALSE
    BY DEF KeysOff, ForeignKeys
  <1>13. CASE todo[1].do = "pragma" /\ ~open
    <2>1. keys' = todo[1].on
      BY <1>5, <1>13
    <2>2. keys' \in BOOLEAN
      BY <1>9, <1>13, <2>1
    <2>3. (todo[1] = KeysOn => keys') /\ (todo[1] = KeysOff => ~keys')
      BY <1>11, <1>12, <2>1
    <2> QED BY <1>1, <1>2, <1>3, <1>4, <1>5, <1>6, <1>7, <1>10, <1>13, <2>2, <2>3 DEF Executes
  <1>14. CASE ~(todo[1].do = "pragma" /\ ~open)
    <2>1. keys' = keys
      BY <1>5, <1>14
    <2>2. ~(todo[1] = KeysOn /\ ~open) /\ ~(todo[1] = KeysOff /\ ~open)
      BY <1>11, <1>12, <1>14
    <2> QED BY <1>1, <1>2, <1>3, <1>4, <1>5, <1>6, <1>7, <1>8, <1>10, <2>1, <2>2 DEF Executes
  <1> QED BY <1>13, <1>14

\* A statement keeps the types.
LEMMA ExecuteTypes ==
  ASSUME TypeOK, InARow(todo), Suits(work, todo, open), Executes
  PROVE TypeOK'
  <1>1. todo[1].do = "copy" => todo[1].new \in DOMAIN work.def
    <2> SUFFICES ASSUME todo[1].do = "copy"
          PROVE Has(work, todo[1].new)
      BY DEF Has
    <2>1. todo[1] = Copy(todo[1].table, todo[1].new) /\ todo[1].table \in Tables
          /\ todo[1].new \in Spares(todo[1].table) /\ todo # <<>>
      BY DEF Executes, Kind, Neighbours
    <2> QED BY <2>1 DEF Suits
  <1>2. IsDb(work')
    BY <1>1, EffectTyped DEF Executes, TypeOK
  <1>3. IsDb(disk')
    BY <1>2 DEF Executes, TypeOK
  <1>4. keys' \in BOOLEAN
    BY DEF Executes
  <1>5. open' \in BOOLEAN
    BY DEF Executes
  <1>6. ~open' => work' = disk'
    BY DEF Executes
  <1>7. todo' \in Seq(Statements) /\ UNCHANGED <<stage, alembic, crashes, upgrades, had, untouched>>
    BY DEF Executes
  <1>8. /\ untouched \in BOOLEAN /\ stage \in 0 .. Serving
        /\ alembic \in {"never", "running", "done", "failed", "killed"}
        /\ crashes \in 0 .. MaxCrashes /\ upgrades \in 0 .. MaxUpgrades
        /\ had \subseteq DOMAIN Models
    BY DEF TypeOK
  <1> QED BY <1>2, <1>3, <1>4, <1>5, <1>6, <1>7, <1>8 DEF TypeOK

\* A statement keeps the script well formed and suited to the database.
LEMMA ExecuteForm ==
  ASSUME TypeOK, WellFormed(todo), Suits(work, todo, open), Executes
  PROVE WellFormed(todo)' /\ Suits(work, todo, open)'
  <1>1. todo \in Seq(Statements) /\ todo # <<>> /\ todo' = Tail(todo)
    BY DEF TypeOK, Executes
  <1>2. WellFormed(todo)'
    BY <1>1, InARowRest, OthersRest, ClosesRest DEF WellFormed
  <1>3. Suits(work', todo', todo[1].do # "commit" /\ (open \/ todo[1].do \in Writes))
    BY SuitsRest DEF Executes, TypeOK, WellFormed
  <1>4. open' = (todo[1].do # "commit" /\ (open \/ todo[1].do \in Writes))
    BY DEF Executes, TypeOK
  <1>5. Suits(work', todo', open')
    BY <1>3, <1>4
  <1> QED BY <1>2, <1>5

\* A statement keeps the script in its stage or revision.
LEMMA ExecuteMine ==
  ASSUME TypeOK, WellFormed(todo), Mine, Executes
  PROVE Mine'
  <1> DEFINE a == todo[1]
  <1>1. /\ DOMAIN todo = 1 .. Len(todo) /\ Len(todo) \in Nat \ {0} /\ 1 \in DOMAIN todo
        /\ DOMAIN todo' = 1 .. Len(todo) - 1 /\ Len(todo') = Len(todo) - 1
        /\ \A i \in DOMAIN todo' : i + 1 \in DOMAIN todo /\ todo'[i] = todo[i + 1]
        /\ \A i \in DOMAIN todo : i = 1 \/ (i - 1 \in DOMAIN todo' /\ todo'[i - 1] = todo[i])
    BY DEF Executes, Shifted
  <1>2. todo # <<>> /\ todo' \in Seq(Statements) /\ UNCHANGED <<stage, alembic>>
    BY DEF Executes
  <1>3. Upgrading' = Upgrading /\ Starting' = Starting
    BY <1>2 DEF Upgrading, Starting
  <1>4. /\ open' <=> a.do # "commit" /\ (open \/ a.do \in Writes)
        /\ ~open' => disk' = work'
    BY DEF Executes
  <1>5. /\ a = KeysOn /\ ~open => keys'
        /\ a = KeysOff /\ ~open => ~keys'
        /\ a.do # "pragma" \/ open => (keys' <=> keys)
        /\ a.do = "pragma" => a = KeysOn \/ a = KeysOff
    BY DEF Executes
  <1>7. Commit.do = "commit"
    BY DEF Commit
  <1>8. open \in BOOLEAN /\ keys \in BOOLEAN
    BY DEF TypeOK
  <1> HIDE DEF a
  <1>a. todo' # <<>> => Upgrading' \/ Starting'
    BY <1>2, <1>3 DEF Mine
  <1>b. Upgrading' => stage' \in {0, Serving} /\ keys'
    <2> SUFFICES ASSUME Upgrading
          PROVE stage \in {0, Serving} /\ keys'
      BY <1>2, <1>3
    <2>1. a.do # "pragma"
      BY <1>1 DEF Mine, a
    <2> QED BY <1>5, <2>1 DEF Mine
  <1>c. ~keys' => \E i \in DOMAIN todo' : todo'[i] = KeysOn
    <2> SUFFICES ASSUME ~keys'
          PROVE \E i \in DOMAIN todo : i # 1 /\ todo[i] = KeysOn
      BY <1>1
    <2>1. CASE a = KeysOff
      <3>1. \E j \in DOMAIN todo : j > 1 /\ todo[j] = KeysOn
        BY <1>1, <2>1 DEF WellFormed, KeysBack, a
      <3> QED BY <3>1, <1>1
    <2>2. CASE a # KeysOff
      <3>1. ~keys
        <4>1. CASE a.do = "pragma" /\ ~open
          BY <1>5, <2>2, <4>1
        <4>2. CASE ~(a.do = "pragma" /\ ~open)
          BY <1>5, <4>2
        <4> QED BY <4>1, <4>2
      <3>2. PICK i \in DOMAIN todo : todo[i] = KeysOn
        BY <3>1 DEF Mine
      <3>3. ASSUME i = 1
            PROVE FALSE
        <4>1. a = KeysOn
          BY <3>2, <3>3 DEF a
        <4>2. ~open
          BY <3>2, <3>3, <1>1 DEF Mine
        <4> QED BY <4>1, <4>2, <1>5
      <3> QED BY <3>2, <3>3
    <2> QED BY <2>1, <2>2
  <1>d. open' => todo' # <<>> /\ todo'[Len(todo')] = Commit
    <2> SUFFICES ASSUME open'
          PROVE todo' # <<>> /\ todo'[Len(todo')] = Commit
      OBVIOUS
    <2>1. a.do # "commit" /\ (open \/ a.do \in Writes)
      BY <1>4
    <2>2. todo[Len(todo)] = Commit
      <3>1. CASE open
        BY <3>1 DEF Mine
      <3>2. CASE a.do \in Writes
        BY <3>2, <1>1 DEF WellFormed, Closes, a
      <3> QED BY <2>1, <3>1, <3>2
    <2>3. Len(todo) # 1
      BY <2>1, <2>2, <1>7 DEF a
    <2>4. Len(todo') \in DOMAIN todo' /\ Len(todo') + 1 = Len(todo)
      BY <2>3, <1>1
    <2>5. todo'[Len(todo')] = Commit
      BY <2>2, <2>4, <1>1
    <2> QED BY <2>4, <2>5, <1>1
  <1>e. open' => \A i \in DOMAIN todo' : todo'[i] = KeysOn => i > 1
    <2> SUFFICES ASSUME open', NEW i \in DOMAIN todo', todo'[i] = KeysOn, ~(i > 1)
          PROVE FALSE
      OBVIOUS
    <2>1. 2 \in DOMAIN todo /\ todo[2] = KeysOn
      BY <1>1
    <2>2. 2 = 1 \/ todo[2 - 1] = Commit
      BY <2>1 DEF WellFormed, KeysBack
    <2>3. a = Commit
      BY <2>2 DEF a
    <2> QED BY <2>3, <1>4, <1>7
  <1>f. ~open' => work' = disk'
    BY <1>4
  <1>g. ASSUME NEW i \in DOMAIN todo'
        PROVE /\ todo'[i].do = "mark" => Starting' /\ todo'[i] = Mark(Stages[stage'])
              /\ todo'[i].do = "version" => Upgrading' /\ todo'[i] = Version(work'.rev + 1)
              /\ Upgrading' =>
                   /\ todo'[i].do \notin {"mark", "pragma", "create_if_missing", "drop_if_exists"}
                   /\ todo'[i].do = "create" => todo'[i].table # "credentials_new"
    <2>1. i + 1 \in DOMAIN todo /\ todo'[i] = todo[i + 1] /\ i \in Nat /\ i > 0
      BY <1>1
    <2>2. /\ todo[i + 1].do = "mark" => Starting /\ todo[i + 1] = Mark(Stages[stage])
          /\ todo[i + 1].do = "version" => Upgrading /\ todo[i + 1] = Version(work.rev + 1)
          /\ Upgrading =>
               /\ todo[i + 1].do \notin {"mark", "pragma", "create_if_missing", "drop_if_exists"}
               /\ todo[i + 1].do = "create" => todo[i + 1].table # "credentials_new"
      BY <2>1 DEF Mine
    <2>3. todo[i + 1].do = "version" => work'.rev = work.rev
      <3> SUFFICES ASSUME todo[i + 1].do = "version"
            PROVE a.do # "version"
        BY DEF Executes, Does, a
      <3>1. i + 1 = Len(todo) - 1
        BY <2>1 DEF WellFormed, Closes
      <3>2. a.do = "version" => 1 = Len(todo) - 1
        BY <1>1 DEF WellFormed, Closes, a
      <3> QED BY <3>1, <3>2, <2>1, <1>1
    <2> QED BY <1>2, <1>3, <2>1, <2>2, <2>3
  <1> QED BY <1>a, <1>b, <1>c, <1>d, <1>e, <1>f, <1>g DEF Mine

\* A statement gives the credentials no column of their own.
LEMMA ExecuteCredentials ==
  ASSUME TypeOK, WellFormed(todo), CredentialsKnown, Executes
  PROVE CredentialsKnown'
  <1> DEFINE a == todo[1]
             C == Models["credentials"]
  <1>1. /\ DOMAIN todo = 1 .. Len(todo) /\ Len(todo) \in Nat \ {0} /\ 1 \in DOMAIN todo
        /\ \A i \in DOMAIN todo' : i + 1 \in DOMAIN todo /\ todo'[i] = todo[i + 1]
    BY DEF Executes, Shifted
  <1>2. /\ a.do \in {"add", "add_if_missing"} => a.table \in Tables
        /\ a.do = "rename" => a.new \in Tables /\ a.table \in Spares(a.new)
    BY <1>1 DEF WellFormed, LeftAlone, Executes, Neighbours
  <1>3. /\ a.do \in {"create", "create_if_missing"} /\ a.table \in CredentialTables => a.cols \subseteq C
        /\ a.do \in {"add", "add_if_missing"} /\ a.table = "credentials" => a.col \in C
    BY <1>1 DEF CredentialsKnown
  <1>4. Changes(a, work, work')
    BY DEF Executes
  <1>5. /\ \A x \in CredentialTables : Has(work, x) => work.def[x] \subseteq C
        /\ \A x \in CredentialTables : Has(disk, x) => disk.def[x] \subseteq C
    BY DEF CredentialsKnown
  <1>6. \A x \in CredentialTables : x \in Tables => x = "credentials"
    BY DEF CredentialTables, Spares, Tables, Models, Tmp
  <1>7. "credentials" \in CredentialTables /\ \A x \in Spares("credentials") : x \in CredentialTables
    BY DEF CredentialTables
  <1> HIDE DEF a, C
  <1>8. ASSUME NEW x \in CredentialTables, Has(work', x)
        PROVE work'.def[x] \subseteq C
    <2>1. CASE a.do \in {"create", "create_if_missing"}
      BY <1>3, <1>4, <1>5, <1>8, <2>1 DEF Changes
    <2>2. CASE a.do \in {"add", "add_if_missing"}
      <3>1. a.table = x => x = "credentials"
        BY <1>2, <1>6, <2>2
      <3> QED BY <1>3, <1>4, <1>5, <1>8, <2>2, <3>1 DEF Changes
    <2>3. CASE a.do \in {"drop", "drop_if_exists"}
      BY <1>4, <1>5, <1>8, <2>3 DEF Changes
    <2>4. CASE a.do = "rename"
      <3>1. a.new = x => a.table \in CredentialTables
        BY <1>2, <1>6, <1>7, <2>4
      <3> QED BY <1>4, <1>5, <1>8, <2>4, <3>1 DEF Changes
    <2>5. CASE a.do \notin {"create", "create_if_missing", "add", "add_if_missing", "drop",
                            "drop_if_exists", "rename"}
      BY <1>4, <1>5, <1>8, <2>5 DEF Changes, Has
    <2> QED BY <2>1, <2>2, <2>3, <2>4, <2>5
  <1>9. ASSUME NEW x \in CredentialTables, Has(disk', x)
        PROVE disk'.def[x] \subseteq C
    <2>1. disk' = disk \/ disk' = work'
      BY DEF Executes
    <2> QED BY <1>5, <1>8, <1>9, <2>1
  <1>10. ASSUME NEW i \in DOMAIN todo'
         PROVE /\ todo'[i].do \in {"create", "create_if_missing"} /\ todo'[i].table \in CredentialTables
                    => todo'[i].cols \subseteq Models["credentials"]
               /\ todo'[i].do \in {"add", "add_if_missing"} /\ todo'[i].table = "credentials"
                    => todo'[i].col \in Models["credentials"]
    <2>1. i + 1 \in DOMAIN todo /\ todo'[i] = todo[i + 1]
      BY <1>1
    <2> QED BY <2>1 DEF CredentialsKnown
  <1> QED BY <1>8, <1>9, <1>10 DEF CredentialsKnown, C

\* What is common to the claims about tables that are there: they are taken along, and what is
\* committed is in place.
LEMMA ExecuteTables ==
  ASSUME TypeOK, WellFormed(todo), Suits(work, todo, open), Executes
  PROVE /\ \A t \in Tables : \A c :
             There(work, Place(todo, t), c) => There(work', Place(todo', t), c)
        /\ \A t \in Tables : Has(work, Place(todo, t)) => Has(work', Place(todo', t))
        /\ \A t \in Tables : Place(todo, t) \in work.holds => Place(todo', t) \in work'.holds
        /\ ~open' => \A t : Place(todo', t) = t
  <1>1. \A t \in Tables :
          /\ Has(work, Place(todo, t)) =>
               /\ Has(work', Place(todo', t))
               /\ work.def[Place(todo, t)] \subseteq work'.def[Place(todo', t)]
          /\ Place(todo, t) \in work.holds => Place(todo', t) \in work'.holds
    BY TakenAlong DEF Executes, TypeOK, WellFormed
  <1>2. ~open' => \A t : Place(todo', t) = t
    <2> SUFFICES ASSUME ~open', NEW t
          PROVE Place(todo', t) = t
      OBVIOUS
    <2>1. Suits(work', todo', open') /\ InARow(todo') /\ open' = FALSE
      BY ExecuteForm, ExecuteTypes DEF WellFormed, TypeOK
    <2>2. Suits(work', todo', FALSE)
      BY <2>1
    <2>3. todo' \in Seq(Statements)
      BY DEF Executes
    <2> QED BY <2>1, <2>2, <2>3, InPlace
  <1> QED BY <1>1, <1>2 DEF There

\* A statement loses nothing that the installation had: a table is dropped only in a transaction
\* whose rows are already in the spare table.
LEMMA ExecuteKept ==
  ASSUME TypeOK, WellFormed(todo), Suits(work, todo, open), Kept, Executes
  PROVE Kept'
  <1>1. had' = had /\ had \subseteq Tables
    BY DEF Executes, TypeOK, Tables
  <1>2. \A t \in had : Place(todo', t) \in work'.holds
    BY <1>1, ExecuteTables DEF Kept
  <1>3. had \subseteq disk'.holds
    <2>1. CASE open'
      BY <2>1 DEF Executes, Kept
    <2>2. CASE ~open'
      BY <1>2, <2>2, ExecuteTables DEF Executes
    <2> QED BY <2>1, <2>2
  <1> QED BY <1>1, <1>2, <1>3 DEF Kept

\* What is marked is done, after a statement too: a mark is written only when nothing is owed.
LEMMA ExecuteMarks ==
  ASSUME TypeOK, WellFormed(todo), Suits(work, todo, open), Mine, MarksMean, StageGoals, Executes
  PROVE MarksMean'
  <1> DEFINE a == todo[1]
  <1>1. todo \in Seq(Statements) /\ Closes(todo) /\ 1 \in DOMAIN todo /\ Does(a, work, work')
    BY DEF TypeOK, WellFormed, Executes, Shifted
  <1>2. /\ \A t \in Tables : \A c :
             There(work, Place(todo, t), c) => There(work', Place(todo', t), c)
        /\ ~open' => \A t : Place(todo', t) = t
    BY ExecuteTables
  <1>3. a.do = "mark" => /\ stage \in 1 .. LastStage /\ a = Mark(Stages[stage]) /\ Starting
                         /\ a.name = Stages[stage]
    <2>1. a.do = "mark" => Starting /\ a = Mark(Stages[stage])
      BY <1>1 DEF Mine
    <2>2. a = Mark(Stages[stage]) => a.name = Stages[stage]
      BY DEF Mark
    <2> QED BY <2>1, <2>2 DEF Starting
  <1>4. \A u : u \in work'.marks => u \in work.marks \/ (a.do = "mark" /\ u = a.name)
    BY <1>1 DEF Does
  <1>5. ASSUME NEW t \in Tables, NEW c \in Columns, NEW l \in 1 .. LastStage,
               <<l, t, c>> \in Promised, Stages[l] \in work'.marks
        PROVE There(work', Place(todo', t), c)
    <2>1. CASE Stages[l] \in work.marks
      BY <1>2, <1>5, <2>1 DEF MarksMean
    <2>2. CASE a.do = "mark" /\ Stages[l] = a.name
      <3>1. l = stage
        BY <1>3, <1>5, <2>2, StagesDiffer
      <3>2. Due(work, todo, t, c)
        <4>1. l <= stage
          BY <3>1
        <4> QED BY <1>3, <1>5, <2>2, <4>1 DEF StageGoals
      <3>3. There(work, t, c) /\ Place(todo, t) = t
        BY <1>1, <2>2, <3>2, DueNow
      <3> QED BY <1>2, <3>3
    <2> QED BY <1>4, <1>5, <2>1, <2>2
  <1>6. ASSUME NEW t \in Tables, NEW c \in Columns, NEW l \in 1 .. LastStage,
               <<l, t, c>> \in Promised, Stages[l] \in disk'.marks
        PROVE There(disk', t, c)
    <2>1. CASE open'
      <3>1. disk' = disk
        BY <2>1 DEF Executes
      <3> QED BY <1>6, <3>1 DEF MarksMean
    <2>2. CASE ~open'
      <3>1. disk' = work'
        BY <2>2 DEF Executes
      <3> QED BY <1>2, <1>5, <1>6, <2>2, <3>1
    <2> QED BY <2>1, <2>2
  <1> QED BY <1>5, <1>6 DEF MarksMean

\* Both swapped values are corrected, or neither on disk.
LEMMA ExecuteRepaired ==
  ASSUME TypeOK, WellFormed(todo), Mine, Repaired, CorrectionGoals, Executes
  PROVE Repaired'
  <1> DEFINE a == todo[1]
  <1>1. /\ todo \in Seq(Statements) /\ Closes(todo) /\ 1 \in DOMAIN todo /\ Does(a, work, work')
        /\ Kind(a) /\ Shifted(todo, todo')
    BY DEF TypeOK, WellFormed, Executes, Shifted
  <1>2. work'.wrong = IF a.do = "correct" THEN work.wrong \ {a.value} ELSE work.wrong
    BY <1>1 DEF Does
  <1>3. \A u : u \in work'.marks => u \in work.marks \/ (a.do = "mark" /\ u = a.name)
    BY <1>1 DEF Does
  <1>4. ASSUME "v161_repair" \in work'.marks
        PROVE work'.wrong \intersect Swap = {}
    <2>1. CASE "v161_repair" \in work.marks
      BY <1>2, <2>1 DEF Repaired
    <2>2. CASE a.do = "mark" /\ a.name = "v161_repair"
      <3>1. Starting /\ a = Mark(Stages[stage])
        BY <1>1, <2>2 DEF Mine
      <3>2. a.name = Stages[stage]
        BY <3>1 DEF Mark
      <3>3. stage = 8
        BY <2>2, <3>1, <3>2, StagesAre, StagesDiffer DEF Starting
      <3>4. stage \in RepairStage .. LastStage
        BY <3>3, StagesAre DEF RepairStage
      <3>5. \A v : \A i \in DOMAIN todo : todo[i] # Correct(v)
        BY <1>1, <2>2, DueNow
      <3>6. \A v \in work.wrong : v \notin Swap
        BY <3>4, <3>5 DEF CorrectionGoals
      <3> QED BY <1>2, <3>6
    <2> QED BY <1>3, <1>4, <2>1, <2>2
  <1>5. ASSUME "group" \in work'.wrong, "updated_at" \notin work'.wrong
        PROVE open' /\ todo' # <<>> /\ todo'[1] = Correct("group")
    <2>1. "group" \in work.wrong
      BY <1>2, <1>5
    <2>2. a # Correct("group")
      <3>1. a = Correct("group") => a.do = "correct" /\ a.value = "group"
        BY DEF Correct
      <3> QED BY <1>2, <1>5, <3>1
    <2>3. "updated_at" \in work.wrong
      BY <2>1, <2>2 DEF Repaired
    <2>4. a.do = "correct" /\ a.value = "updated_at"
      BY <1>2, <1>5, <2>3
    <2>5. a = Correct("updated_at")
      BY <1>1, <2>4 DEF Kind
    <2>6. 1 + 1 \in DOMAIN todo /\ todo[1 + 1] = Correct("group")
      BY <1>1, <2>5 DEF WellFormed, Swaps
    <2>7. 1 \in DOMAIN todo' /\ todo'[1] = Correct("group")
      BY <1>1, <2>6 DEF Shifted
    <2>8. open'
      BY <2>4 DEF Executes, Writes
    <2> QED BY <2>7, <2>8
  <1>6. /\ "v161_repair" \in disk'.marks => disk'.wrong \intersect Swap = {}
        /\ "group" \in disk'.wrong => "updated_at" \in disk'.wrong
    <2>1. CASE open'
      <3>1. disk' = disk
        BY <2>1 DEF Executes
      <3> QED BY <3>1 DEF Repaired
    <2>2. CASE ~open'
      <3>1. disk' = work'
        BY <2>2 DEF Executes
      <3> QED BY <1>4, <1>5, <2>2, <3>1
    <2> QED BY <2>1, <2>2
  <1> QED BY <1>4, <1>5, <1>6 DEF Repaired

\* A revision is recorded only when what it makes is there.
LEMMA ExecuteRevisions ==
  ASSUME TypeOK, WellFormed(todo), Suits(work, todo, open), Mine, RevisionsMean, RevisionGoals,
         Executes
  PROVE RevisionsMean'
  <1> DEFINE a == todo[1]
  <1>1. /\ todo \in Seq(Statements) /\ Closes(todo) /\ 1 \in DOMAIN todo /\ Does(a, work, work')
    BY DEF TypeOK, WellFormed, Executes, Shifted
  <1>2. /\ \A t \in Tables : \A c :
             There(work, Place(todo, t), c) => There(work', Place(todo', t), c)
        /\ \A t \in Tables : Has(work, Place(todo, t)) => Has(work', Place(todo', t))
        /\ ~open' => \A t : Place(todo', t) = t
    BY ExecuteTables
  <1>3. /\ a.do = "version" => Upgrading /\ a = Version(work.rev + 1)
        /\ work.rev \in 0 .. Newest
    BY <1>1 DEF Mine, TypeOK, IsDb
  <1>4. work'.rev = IF a.do = "version" THEN work.rev + 1 ELSE work.rev
    <2>1. a = Version(work.rev + 1) => a.rev = work.rev + 1
      BY DEF Version
    <2> QED BY <1>1, <1>3, <2>1 DEF Does
  <1>s. DOMAIN Since \subseteq Tables /\ \A t \in DOMAIN Since : Since[t] \in Nat
    BY DEF Since, Tables, Models
  <1> HIDE DEF a
  <1>5. ASSUME NEW t \in Tables, NEW c \in Columns, NEW n \in 1 .. Newest,
               <<t, c, n>> \in Later, n <= work'.rev
        PROVE There(work', Place(todo', t), c)
    <2>1. CASE n <= work.rev
      BY <1>2, <1>5, <2>1 DEF RevisionsMean
    <2>2. CASE ~(n <= work.rev)
      <3>1. a.do = "version" /\ n <= work.rev + 1
        BY <1>3, <1>4, <1>5, <2>2
      <3>2. Due(work, todo, t, c)
        BY <1>1, <1>5, <3>1 DEF RevisionGoals, a
      <3>3. There(work, t, c) /\ Place(todo, t) = t
        BY <1>1, <3>1, <3>2, DueNow DEF a
      <3> QED BY <1>2, <3>3
    <2> QED BY <2>1, <2>2
  <1>6. ASSUME NEW t \in DOMAIN Since, Since[t] <= work'.rev
        PROVE Has(work', Place(todo', t))
    <2>1. CASE Since[t] <= work.rev
      BY <1>2, <1>s, <1>6, <2>1 DEF RevisionsMean
    <2>2. CASE ~(Since[t] <= work.rev)
      <3>1. a.do = "version" /\ Since[t] <= work.rev + 1
        BY <1>s, <1>3, <1>4, <1>6, <2>2
      <3>2. TableDue(work, todo, t)
        BY <1>1, <1>6, <3>1 DEF RevisionGoals, a
      <3>3. Has(work, t) /\ Place(todo, t) = t
        BY <1>1, <3>1, <3>2, DueNow DEF a
      <3> QED BY <1>2, <1>s, <3>3
    <2> QED BY <2>1, <2>2
  <1>7. CASE open'
    <2>1. disk' = disk
      BY <1>7 DEF Executes
    <2>2. alembic' = alembic /\ (alembic = "done" => a.do # "version")
      BY <1>3 DEF Executes, Upgrading
    <2>3. alembic' = "done" => disk'.rev = Newest /\ work'.rev = Newest
      BY <1>4, <2>1, <2>2 DEF RevisionsMean
    <2> QED BY <1>5, <1>6, <2>1, <2>3 DEF RevisionsMean
  <1>8. CASE ~open'
    <2>1. disk' = work' /\ \A t : Place(todo', t) = t
      BY <1>2, <1>8 DEF Executes
    <2>2. alembic' = alembic /\ (alembic = "done" => a.do # "version")
      BY <1>3 DEF Executes, Upgrading
    <2>3. alembic' = "done" => disk'.rev = Newest /\ work'.rev = Newest
      BY <1>4, <2>1, <2>2 DEF RevisionsMean
    <2> QED BY <1>5, <1>6, <2>1, <2>3 DEF RevisionsMean
  <1> QED BY <1>7, <1>8

\* A statement leaves what the stage or the revision owes owed or done.
LEMMA ExecuteGoals ==
  ASSUME TypeOK, WellFormed(todo), Suits(work, todo, open), Mine, StageGoals, CorrectionGoals,
         RevisionGoals, Executes
  PROVE StageGoals' /\ CorrectionGoals' /\ RevisionGoals'
  <1> DEFINE a == todo[1]
  <1>1. /\ todo \in Seq(Statements) /\ todo # <<>> /\ InARow(todo) /\ LeftAlone(todo) /\ Closes(todo)
        /\ IsDb(work) /\ Possible(a, work, Enforced) /\ Suits(work, todo, open)
        /\ work' = After(a, work) /\ todo' = Tail(todo) /\ stage' = stage
    BY DEF TypeOK, WellFormed, Executes
  <1>2. \A t \in Tables : \A c : Due(work, todo, t, c) => Due(work', todo', t, c)
    BY <1>1, StaysDue
  <1>3. \A t \in Tables : TableDue(work, todo, t) => TableDue(work', todo', t)
    BY <1>1, TableStaysDue
  <1>4. /\ Does(a, work, work') /\ Changes(a, work, work') /\ Shifted(todo, todo')
        /\ Neighbours(todo, todo') /\ Kind(a) /\ 1 \in DOMAIN todo
        /\ todo' \in Seq(Statements)
    BY DEF Executes, Shifted
  <1>s. DOMAIN Since \subseteq Tables
    BY DEF Since, Tables, Models
  <1> HIDE DEF a
  <1>5. ASSUME Starting, stage >= 3, Has(work', "credentials_new")
        PROVE \E i \in DOMAIN todo' : \/ todo'[i] = DropIfExists("credentials_new")
                                      \/ todo'[i] = Rename("credentials_new", "credentials")
    <2>1. CASE Has(work, "credentials_new")
      <3>1. PICK i \in DOMAIN todo : \/ todo[i] = DropIfExists("credentials_new")
                                     \/ todo[i] = Rename("credentials_new", "credentials")
        BY <1>5, <2>1 DEF StageGoals
      <3>2. i # 1
        <4> SUFFICES ASSUME i = 1
              PROVE FALSE
          OBVIOUS
        <4>1. CASE a = DropIfExists("credentials_new")
          <5>1. a.do = "drop_if_exists" /\ a.table = "credentials_new"
            BY <4>1 DEF DropIfExists
          <5> QED BY <1>4, <1>5, <5>1 DEF Changes
        <4>2. CASE a = Rename("credentials_new", "credentials")
          <5>1. a.do = "rename" /\ a.table = "credentials_new" /\ a.new = "credentials"
            BY <4>2 DEF Rename
          <5> QED BY <1>4, <1>5, <5>1 DEF Changes
        <4> QED BY <3>1, <4>1, <4>2 DEF a
      <3>3. i - 1 \in DOMAIN todo' /\ todo'[i - 1] = todo[i]
        BY <1>4, <3>2 DEF Shifted
      <3> QED BY <3>1, <3>3
    <2>2. CASE ~Has(work, "credentials_new")
      <3>1. "credentials_new" \notin Tables
        BY DEF Tables, Models
      <3>2. a.do = "create" /\ a.table = "credentials_new"
        <4>1. CASE a.do = "create_if_missing"
          <5>1. a.table \in Tables
            BY <1>1, <1>4, <4>1 DEF LeftAlone, a
          <5> QED BY <1>4, <1>5, <2>2, <3>1, <4>1, <5>1 DEF Changes
        <4>2. CASE a.do = "rename"
          <5>1. a.new \in Tables
            BY <1>4, <4>2 DEF Neighbours, a
          <5> QED BY <1>4, <1>5, <2>2, <3>1, <4>2, <5>1 DEF Changes
        <4>3. CASE a.do \in {"create", "add", "add_if_missing", "drop", "drop_if_exists"}
          BY <1>4, <1>5, <2>2, <4>3 DEF Changes
        <4>4. CASE a.do \notin {"create_if_missing", "rename", "create", "add", "add_if_missing",
                                "drop", "drop_if_exists"}
          BY <1>4, <1>5, <2>2, <4>4 DEF Changes, Has
        <4> QED BY <4>1, <4>2, <4>3, <4>4
      <3>3. PICK t \in Tables : /\ "credentials_new" \in Spares(t) /\ Len(todo') > 2
                                /\ todo'[3] = Rename("credentials_new", t)
        BY <1>4, <3>1, <3>2 DEF Neighbours, a
      <3>4. t = "credentials"
        BY <3>3, SparesAre
      <3>5. 3 \in DOMAIN todo'
        BY <1>4, <3>3
      <3> QED BY <3>3, <3>4, <3>5
    <2> QED BY <2>1, <2>2
  <1>6. StageGoals'
    <2>1. Starting' = Starting
      BY <1>1 DEF Starting
    <2> QED BY <1>1, <1>2, <1>3, <1>5, <2>1 DEF StageGoals
  <1>7. CorrectionGoals'
    <2> SUFFICES ASSUME NEW v \in work'.wrong,
                        \/ v \in Swap /\ stage \in RepairStage .. LastStage
                        \/ v \in Orphans /\ stage = LastStage
          PROVE \E i \in DOMAIN todo' : todo'[i] = Correct(v)
      BY <1>1 DEF CorrectionGoals
    <2>1. v \in work.wrong /\ (a.do = "correct" => a.value # v)
      BY <1>4 DEF Does
    <2>2. PICK i \in DOMAIN todo : todo[i] = Correct(v)
      BY <2>1 DEF CorrectionGoals
    <2>3. i # 1
      <3>1. a = Correct(v) => a.do = "correct" /\ a.value = v
        BY DEF Correct
      <3> QED BY <2>1, <2>2, <3>1 DEF a
    <2>4. i - 1 \in DOMAIN todo' /\ todo'[i - 1] = todo[i]
      BY <1>4, <2>3 DEF Shifted
    <2> QED BY <2>2, <2>4
  <1>8. RevisionGoals'
    <2> SUFFICES ASSUME NEW i \in DOMAIN todo', todo'[i].do = "version"
          PROVE /\ \A t \in Tables, c \in Columns, n \in 1 .. Newest :
                     <<t, c, n>> \in Later /\ n <= work'.rev + 1 => Due(work', todo', t, c)
                /\ \A t \in DOMAIN Since : Since[t] <= work'.rev + 1 => TableDue(work', todo', t)
      BY DEF RevisionGoals
    <2>1. i + 1 \in DOMAIN todo /\ todo[i + 1].do = "version" /\ i \in Nat /\ i > 0
      BY <1>4 DEF Shifted
    <2>2. a.do # "version"
      <3> SUFFICES ASSUME a.do = "version"
            PROVE FALSE
        OBVIOUS
      <3>2. i + 1 = Len(todo) - 1 /\ 1 = Len(todo) - 1
        BY <1>1, <1>4, <2>1 DEF Closes, a
      <3>3. Len(todo) \in Nat
        BY <1>4 DEF Shifted
      <3>4. DOMAIN todo' = 1 .. Len(todo) - 1
        BY <1>4 DEF Shifted
      <3> QED BY <1>1, <2>1, <3>2, <3>3, <3>4
    <2>3. work'.rev = work.rev
      BY <1>4, <2>2 DEF Does
    <2>4. /\ \A t \in Tables, c \in Columns, n \in 1 .. Newest :
               <<t, c, n>> \in Later /\ n <= work.rev + 1 => Due(work, todo, t, c)
          /\ \A t \in DOMAIN Since : Since[t] <= work.rev + 1 => TableDue(work, todo, t)
      BY <2>1 DEF RevisionGoals
    <2> QED BY <1>2, <1>3, <1>s, <2>3, <2>4
  <1> QED BY <1>6, <1>7, <1>8

\* Alembic takes nothing away that the start-up has made.
LEMMA ExecuteServed ==
  ASSUME TypeOK, WellFormed(todo), Suits(work, todo, open), Mine, Served, Executes
  PROVE Served'
  <1> SUFFICES ASSUME stage = Serving
        PROVE /\ \A t \in Tables : Has(work', Place(todo', t)) /\ Has(disk', t)
              /\ \A t \in Tables, c \in Columns, l \in 1 .. LastStage : <<l, t, c>> \in Promised =>
                   There(work', Place(todo', t), c) /\ There(disk', t, c)
              /\ ~Has(work', "credentials_new") /\ ~Has(disk', "credentials_new")
              /\ work'.wrong = {} /\ disk'.wrong = {}
    BY DEF Executes, Served
  <1> DEFINE a == todo[1]
  <1>1. /\ todo # <<>> /\ Does(a, work, work') /\ Changes(a, work, work')
        /\ Neighbours(todo, todo') /\ 1 \in DOMAIN todo /\ LeftAlone(todo)
    BY DEF Executes, Shifted, WellFormed
  <1>2. /\ \A t \in Tables : \A c :
             There(work, Place(todo, t), c) => There(work', Place(todo', t), c)
        /\ \A t \in Tables : Has(work, Place(todo, t)) => Has(work', Place(todo', t))
        /\ ~open' => \A t : Place(todo', t) = t
    BY ExecuteTables
  <1>3. Upgrading
    BY <1>1, StagesAre DEF Mine, Starting
  <1>4. a.do \notin Foreign /\ (a.do = "create" => a.table # "credentials_new")
    BY <1>1, <1>3 DEF Mine, Foreign
  <1>5. ~Has(work', "credentials_new")
    <2>1. ~Has(work, "credentials_new") /\ "credentials_new" \notin Tables
      BY DEF Served, Tables, Models
    <2>2. a.do = "rename" => a.new \in Tables
      BY <1>1 DEF Neighbours
    <2> HIDE DEF a
    <2>3. CASE a.do \in {"create", "add", "add_if_missing", "drop", "rename"}
      BY <1>1, <1>4, <2>1, <2>2, <2>3 DEF Changes
    <2>4. CASE a.do \notin {"create", "add", "add_if_missing", "drop", "rename"}
      BY <1>1, <1>4, <2>1, <2>4 DEF Changes, Has, Foreign
    <2> QED BY <2>3, <2>4
  <1>6. work'.wrong = {}
    BY <1>1 DEF Does, Served
  <1>7. /\ \A t \in Tables : Has(work', Place(todo', t))
        /\ \A t \in Tables, c \in Columns, l \in 1 .. LastStage : <<l, t, c>> \in Promised =>
             There(work', Place(todo', t), c)
    BY <1>2 DEF Served
  <1>8. CASE open'
    <2>1. disk' = disk
      BY <1>8 DEF Executes
    <2> QED BY <1>5, <1>6, <1>7, <2>1 DEF Served
  <1>9. CASE ~open'
    <2>1. disk' = work' /\ \A t : Place(todo', t) = t
      BY <1>2, <1>9 DEF Executes
    <2> QED BY <1>5, <1>6, <1>7, <2>1
  <1> QED BY <1>8, <1>9

\* Where Alembic knows what is there, each statement finds what it needs.
LEMMA ExecuteAlone ==
  ASSUME TypeOK, WellFormed(todo), Suits(work, todo, open), Mine, Alone, Executes
  PROVE Alone'
  <1> SUFFICES ASSUME untouched
        PROVE /\ stage = 0 /\ alembic \in {"never", "running", "done"}
              /\ IF todo' = <<>> THEN NoExtras(work', todo', work'.rev)
                 ELSE /\ Fits(work', todo')
                      /\ NoExtras(work', todo', IF \E i \in DOMAIN todo' : todo'[i].do = "version"
                                                THEN work'.rev + 1 ELSE work'.rev)
    BY DEF Executes, Alone
  <1> DEFINE a == todo[1]
             n == IF \E i \in DOMAIN todo : todo[i].do = "version" THEN work.rev + 1 ELSE work.rev
  <1>1. /\ todo \in Seq(Statements) /\ todo # <<>> /\ InARow(todo) /\ LeftAlone(todo) /\ Closes(todo)
        /\ IsDb(work) /\ Possible(a, work, Enforced) /\ Suits(work, todo, open)
        /\ work' = After(a, work) /\ todo' = Tail(todo)
        /\ Does(a, work, work') /\ Shifted(todo, todo') /\ 1 \in DOMAIN todo
    BY DEF TypeOK, WellFormed, Executes, Shifted
  <1>2. /\ stage = 0 /\ alembic \in {"never", "running", "done"}
        /\ Fits(work, todo) /\ NoExtras(work, todo, n)
    BY <1>1 DEF Alone
  <1>3. Upgrading
    BY <1>1, <1>2 DEF Mine, Starting
  <1>4. \A i \in DOMAIN todo : todo[i].do \notin Foreign
    BY <1>3 DEF Mine, Foreign
  <1>5. Fits(work', todo')
    BY <1>1, <1>2, <1>4, FitsRest
  <1>6. NoExtras(work', todo', n)
    <2> HIDE DEF n
    <2> QED BY <1>1, <1>2, <1>4, NoExtrasRest
  <1>7. a.do = "version" => a = Version(work.rev + 1)
    BY <1>1 DEF Mine
  <1>8. work'.rev = IF a.do = "version" THEN work.rev + 1 ELSE work.rev
    <2>1. a = Version(work.rev + 1) => a.rev = work.rev + 1
      BY DEF Version
    <2> QED BY <1>1, <1>7, <2>1 DEF Does
  <1>9. /\ DOMAIN todo = 1 .. Len(todo) /\ DOMAIN todo' = 1 .. Len(todo) - 1 /\ Len(todo) \in Nat
        /\ \A i \in DOMAIN todo' : i + 1 \in DOMAIN todo /\ todo'[i] = todo[i + 1]
        /\ \A i \in DOMAIN todo : i = 1 \/ (i - 1 \in DOMAIN todo' /\ todo'[i - 1] = todo[i])
        /\ \A i \in DOMAIN todo : todo[i].do = "version" => i = Len(todo) - 1
    BY <1>1 DEF Shifted, Closes
  <1>10. n = IF \E i \in DOMAIN todo' : todo'[i].do = "version" THEN work'.rev + 1 ELSE work'.rev
    <2>1. CASE a.do = "version"
      <3>1. ~\E i \in DOMAIN todo' : todo'[i].do = "version"
        <4> SUFFICES ASSUME NEW i \in DOMAIN todo', todo'[i].do = "version"
              PROVE FALSE
          OBVIOUS
        <4>1. i + 1 \in DOMAIN todo /\ todo[i + 1].do = "version" /\ i \in Nat /\ i > 0
          BY <1>9
        <4>2. i + 1 = Len(todo) - 1 /\ 1 = Len(todo) - 1
          BY <1>1, <1>9, <2>1, <4>1
        <4>3. Len(todo) \in Nat
          BY <1>9
        <4>4. DOMAIN todo' = 1 .. Len(todo) - 1
          BY <1>9
        <4> QED BY <1>1, <4>1, <4>2, <4>3, <4>4
      <3>2. n = work.rev + 1
        BY <1>1, <2>1
      <3> QED BY <1>8, <2>1, <3>1, <3>2
    <2>2. CASE a.do # "version"
      <3>1. (\E i \in DOMAIN todo' : todo'[i].do = "version")
              <=> (\E i \in DOMAIN todo : todo[i].do = "version")
        <4>1. ASSUME NEW i \in DOMAIN todo', todo'[i].do = "version"
              PROVE \E j \in DOMAIN todo : todo[j].do = "version"
          BY <1>9, <4>1
        <4>2. ASSUME NEW i \in DOMAIN todo, todo[i].do = "version"
              PROVE \E j \in DOMAIN todo' : todo'[j].do = "version"
          BY <1>9, <2>2, <4>2
        <4> QED BY <4>1, <4>2
      <3> QED BY <1>8, <2>2, <3>1
    <2> QED BY <2>1, <2>2
  <1>11. todo' = <<>> => n = work'.rev
    BY <1>10
  <1> HIDE DEF n
  <1> QED BY <1>2, <1>5, <1>6, <1>10, <1>11

\* A statement keeps the inductive invariant.
LEMMA ExecuteKeeps ==
  ASSUME IInv, Execute
  PROVE IInv'
  <1>1. Executes
    BY Executing DEF IInv, WellFormed
  <1>2. InARow(todo)
    BY DEF IInv, WellFormed
  <1> QED BY <1>1, <1>2, ExecuteTypes, ExecuteForm, ExecuteMine, ExecuteCredentials, ExecuteKept,
             ExecuteMarks, ExecuteRepaired, ExecuteRevisions, ExecuteGoals, ExecuteServed,
             ExecuteAlone DEF IInv

-----------------------------------------------------------------------------
(* The steps between the scripts *)

\* The empty script has every form.
LEMMA Nothing ==
  /\ WellFormed(<<>>) /\ <<>> \in Seq(Statements)
  /\ \A db, o : Suits(db, <<>>, o)
  /\ \A t : Place(<<>>, t) = t
  <1>1. WellFormed(<<>>)
    BY DEF WellFormed, InARow, LeftAlone, Closes, KeysBack, Swaps
  <1>2. \A db, o : Suits(db, <<>>, o)
    BY DEF Suits
  <1>3. \A t : Place(<<>>, t) = t
    BY DEF Place
  <1> QED BY <1>1, <1>2, <1>3

\* A script that ends before its time leaves what is on disk.
LEMMA Ended ==
  ASSUME IInv, work' = disk, disk' = disk, open' = FALSE, todo' = <<>>, keys' = TRUE,
         stage' \in {0, 1, Serving}, stage' = Serving => stage = Serving,
         alembic' \in {"never", "done", "failed", "killed"},
         alembic' = "done" => alembic = "done",
         untouched' = FALSE, crashes' \in 0 .. MaxCrashes, UNCHANGED <<upgrades, had>>
  PROVE IInv'
  <1>1. /\ IsDb(disk) /\ upgrades \in 0 .. MaxUpgrades /\ had \subseteq DOMAIN Models
    BY DEF IInv, TypeOK
  <1>2. TypeOK'
    <2>1. IsDb(disk') /\ IsDb(work')
      BY <1>1
    <2>2. open' \in BOOLEAN /\ keys' \in BOOLEAN /\ untouched' \in BOOLEAN
      OBVIOUS
    <2>3. todo' \in Seq(Statements)
      BY Nothing
    <2>4. stage' \in 0 .. Serving
      BY StagesAre
    <2>5. alembic' \in {"never", "running", "done", "failed", "killed"}
      OBVIOUS
    <2>6. crashes' \in 0 .. MaxCrashes /\ upgrades' \in 0 .. MaxUpgrades /\ had' \subseteq DOMAIN Models
      BY <1>1
    <2> QED BY <2>1, <2>2, <2>3, <2>4, <2>5, <2>6 DEF TypeOK
  <1>3. WellFormed(todo)' /\ Suits(work, todo, open)' /\ \A t : Place(todo', t) = t
    BY Nothing
  <1>4. Mine'
    BY DEF Mine, Upgrading
  <1>5. CredentialsKnown'
    BY DEF IInv, CredentialsKnown
  <1>6. Kept'
    BY <1>3 DEF IInv, Kept
  <1>7. MarksMean'
    BY <1>3 DEF IInv, MarksMean
  <1>8. Repaired'
    BY DEF IInv, Repaired
  <1>9. RevisionsMean'
    <2>1. alembic' = "done" => disk'.rev = Newest /\ work'.rev = Newest
      BY DEF IInv, RevisionsMean
    <2> QED BY <1>3, <2>1 DEF IInv, RevisionsMean
  <1>10. StageGoals'
    <2> SUFFICES ASSUME Starting'
          PROVE stage' = 1 /\ \A t, c, l : <<l, t, c>> \in Promised => ~(l <= 1)
      BY DEF StageGoals
    <2> QED BY StagesAre DEF Starting, Promised
  <1>11. CorrectionGoals'
    BY StagesAre DEF CorrectionGoals, RepairStage
  <1>12. RevisionGoals'
    BY DEF RevisionGoals
  <1>13. Served'
    BY <1>3 DEF IInv, Served
  <1>14. Alone'
    BY DEF Alone
  <1> QED BY <1>2, <1>3, <1>4, <1>5, <1>6, <1>7, <1>8, <1>9, <1>10, <1>11, <1>12, <1>13, <1>14 DEF IInv

\* Alembic does not fail where it knows what is there.
LEMMA AloneNoRaise ==
  ASSUME IInv, untouched
  PROVE ~Raise
  <1> SUFFICES ASSUME Raise
        PROVE FALSE
    OBVIOUS
  <1>1. todo # <<>> /\ ~Possible(Head(todo), work, Enforced)
    BY DEF Raise
  <1>2. todo \in Seq(Statements) /\ Head(todo) = todo[1] /\ 1 \in DOMAIN todo
    <2>1. todo \in Seq(Statements)
      BY DEF IInv, TypeOK
    <2> QED BY <1>1, <2>1, Rest DEF Shifted
  <1>3. stage = 0 /\ Fits(work, todo)
    BY <1>1 DEF IInv, Alone
  <1>4. Upgrading
    BY <1>1, <1>3 DEF IInv, Mine, Starting
  <1>5. todo[1].do \notin Foreign
    BY <1>2, <1>4 DEF IInv, Mine, Foreign
  <1>6. Possible(todo[1], work, FALSE)
    BY <1>1, <1>2, <1>3, <1>5, FitsPossible
  <1>7. Enforced = FALSE
    BY <1>4 DEF Enforced
  <1> QED BY <1>1, <1>2, <1>6, <1>7

\* A statement that fails keeps the inductive invariant.
LEMMA RaiseKeeps ==
  ASSUME IInv, Raise
  PROVE IInv'
  <1>1. /\ todo # <<>> /\ work' = disk /\ disk' = disk /\ open' = FALSE /\ todo' = <<>>
        /\ UNCHANGED <<crashes, upgrades, had, untouched>>
    BY DEF Raise, Ends
  <1>2. /\ untouched \in BOOLEAN /\ keys \in BOOLEAN /\ stage \in 0 .. Serving
        /\ alembic \in {"never", "running", "done", "failed", "killed"}
        /\ crashes \in 0 .. MaxCrashes
    BY DEF IInv, TypeOK
  <1>3. untouched' = FALSE
    BY <1>1, <1>2, AloneNoRaise
  <1>4. CASE Upgrading
    <2>1. alembic' = "failed" /\ stage' = stage /\ keys' = keys
      BY <1>4 DEF Raise
    <2>2. stage \in {0, Serving} /\ keys
      BY <1>4 DEF IInv, Mine
    <2>3. keys' = TRUE
      BY <1>2, <2>1, <2>2
    <2> QED BY <1>1, <1>2, <1>3, <2>1, <2>2, <2>3, Ended
  <1>5. CASE ~Upgrading
    <2>1. alembic' = alembic /\ stage' = (IF stage = 1 THEN 1 ELSE 0) /\ keys' = TRUE
      BY <1>5 DEF Raise
    <2>2. alembic' \in {"never", "done", "failed", "killed"}
      BY <1>2, <1>5, <2>1 DEF Upgrading
    <2>3. stage' \in {0, 1, Serving} /\ stage' # Serving
      BY <2>1, StagesAre
    <2> QED BY <1>1, <1>2, <1>3, <2>1, <2>2, <2>3, Ended
  <1> QED BY <1>4, <1>5

\* So does the death of the container.
LEMMA CrashKeeps ==
  ASSUME IInv, Crash
  PROVE IInv'
  <1>1. /\ work' = disk /\ disk' = disk /\ open' = FALSE /\ todo' = <<>>
        /\ UNCHANGED <<upgrades, had>> /\ untouched' = FALSE /\ keys' = TRUE /\ stage' = 0
    BY DEF Crash, Ends
  <1>2. crashes' \in 0 .. MaxCrashes
    BY BoundAssumption DEF IInv, TypeOK, Crash
  <1>3. /\ alembic' \in {"never", "done", "failed", "killed"}
        /\ alembic' = "done" => alembic = "done"
    BY DEF IInv, TypeOK, Crash, Upgrading
  <1>4. stage' \in {0, 1, Serving} /\ stage' # Serving
    BY <1>1, StagesAre
  <1> QED BY <1>1, <1>2, <1>3, <1>4, Ended

\* Between two scripts nothing is open.
LEMMA Idle ==
  ASSUME IInv, todo = <<>>
  PROVE ~open /\ work = disk /\ keys = TRUE /\ \A t : Place(todo, t) = t
  <1>1. ~open
    BY DEF IInv, Mine
  <1>2. keys \in BOOLEAN /\ (~keys => \E i \in DOMAIN todo : todo[i] = KeysOn)
    BY DEF IInv, TypeOK, Mine
  <1>3. keys = TRUE
    BY <1>2
  <1> QED BY <1>1, <1>3, Nothing DEF IInv, Mine

\* What the migrations promise is on disk when they are done.
LEMMA DoneWith ==
  ASSUME IInv, Initialised, ~Upgrading
  PROVE /\ \A t \in Tables : Has(disk, t)
        /\ \A t \in Tables, c \in Columns, k \in 1 .. LastStage : <<k, t, c>> \in Promised =>
             There(disk, t, c)
        /\ ~Has(disk, "credentials_new") /\ disk.wrong = {} /\ keys = TRUE
        /\ todo = <<>>
  <1>1. CASE stage = Serving
    <2>1. todo = <<>>
      BY <1>1, StagesAre DEF IInv, Mine, Starting
    <2> QED BY <1>1, <2>1, Idle DEF IInv, Served
  <1>2. CASE stage = LastStage /\ todo = <<>>
    <2>1. Closes(todo) /\ todo \in Seq(Statements) /\ work = disk /\ keys = TRUE
      BY <1>2, Idle DEF IInv, WellFormed, TypeOK
    <2>2. \A t : /\ \A c : Due(work, todo, t, c) => There(work, t, c)
                 /\ TableDue(work, todo, t) => Has(work, t)
      BY <1>2, <2>1, DueNow
    <2>3. Starting /\ stage >= 3 /\ stage = 11
      BY <1>2, StagesAre DEF Starting
    <2>4. \A t \in Tables : Has(work, t)
      BY <2>2, <2>3 DEF IInv, StageGoals
    <2>5. \A t \in Tables, c \in Columns, l \in 1 .. LastStage : <<l, t, c>> \in Promised =>
            There(work, t, c)
      <3> TAKE t \in Tables, c \in Columns, l \in 1 .. LastStage
      <3>1. l <= stage
        BY <1>2, StagesAre
      <3> QED BY <2>2, <2>3, <3>1 DEF IInv, StageGoals
    <2>6. ~Has(work, "credentials_new")
      BY <1>2, <2>3 DEF IInv, StageGoals
    <2>7. work.wrong = {}
      <3>1. work.wrong \subseteq Swap \union Orphans
        BY DEF IInv, TypeOK, IsDb
      <3>2. stage \in RepairStage .. LastStage
        BY <2>3, StagesAre DEF RepairStage
      <3> QED BY <1>2, <3>1, <3>2 DEF IInv, CorrectionGoals
    <2> QED BY <1>2, <2>1, <2>4, <2>5, <2>6, <2>7
  <1> QED BY <1>1, <1>2 DEF Initialised

\* So does the start of the application, which finds all that the stages promised.
LEMMA ServeKeeps ==
  ASSUME IInv, Serve
  PROVE IInv'
  <1>1. /\ ~Upgrading /\ stage = LastStage /\ todo = <<>> /\ stage' \in {0, Serving}
        /\ UNCHANGED <<disk, work, open, todo, keys, alembic, crashes, upgrades, had, untouched>>
    BY DEF Serve
  <1>2. ~open /\ work = disk /\ keys = TRUE /\ \A t : Place(todo, t) = t
    BY <1>1, Idle
  <1>3. TypeOK'
    BY <1>1, StagesAre DEF IInv, TypeOK
  <1>4. WellFormed(todo)' /\ Suits(work, todo, open)'
    BY <1>1 DEF IInv
  <1>5. Mine'
    BY <1>1, <1>2 DEF Mine, Upgrading
  <1>6. CredentialsKnown' /\ Kept' /\ MarksMean'
    BY <1>1 DEF IInv, CredentialsKnown, Kept, MarksMean
  <1>7. Repaired' /\ RevisionsMean'
    BY <1>1 DEF IInv, Repaired, RevisionsMean
  <1>8. StageGoals' /\ CorrectionGoals' /\ RevisionGoals'
    <2>1. ~Starting'
      BY <1>1, StagesAre DEF Starting
    <2>2. StageGoals'
      BY <2>1 DEF StageGoals
    <2>3. CorrectionGoals'
      BY <1>1, StagesAre DEF CorrectionGoals, RepairStage
    <2>4. RevisionGoals'
      BY <1>1 DEF RevisionGoals
    <2> QED BY <2>2, <2>3, <2>4
  <1>9. Served'
    <2>1. Initialised
      BY <1>1 DEF Initialised
    <2> QED BY <1>1, <1>2, <2>1, DoneWith DEF Served
  <1>10. Alone'
    <2>1. stage # 0
      BY <1>1, StagesAre
    <2> QED BY <1>1, <2>1 DEF IInv, Alone
  <1> QED BY <1>3, <1>4, <1>5, <1>6, <1>7, <1>8, <1>9, <1>10 DEF IInv

\* So does an operator who runs Alembic,
LEMMA StartUpgradeKeeps ==
  ASSUME IInv, StartUpgrade
  PROVE IInv'
  <1>1. /\ ~Upgrading /\ stage \in {0, Serving} /\ alembic' = "running" /\ upgrades' = upgrades + 1
        /\ upgrades < MaxUpgrades
        /\ UNCHANGED <<disk, work, open, todo, keys, stage, crashes, had, untouched>>
    BY DEF StartUpgrade
  <1>2. todo = <<>>
    BY <1>1, StagesAre DEF IInv, Mine, Starting
  <1>3. ~open /\ work = disk /\ keys = TRUE
    BY <1>2, Idle
  <1>4. TypeOK'
    <2>1. upgrades' \in 0 .. MaxUpgrades
      BY <1>1, BoundAssumption DEF IInv, TypeOK
    <2> QED BY <1>1, <2>1 DEF IInv, TypeOK
  <1>5. WellFormed(todo)' /\ Suits(work, todo, open)'
    BY <1>1 DEF IInv
  <1>6. Mine'
    BY <1>1, <1>2, <1>3 DEF Mine, Upgrading
  <1>7. CredentialsKnown' /\ Kept' /\ MarksMean'
    BY <1>1 DEF IInv, CredentialsKnown, Kept, MarksMean
  <1>8. Repaired' /\ RevisionsMean'
    BY <1>1 DEF IInv, Repaired, RevisionsMean
  <1>9. StageGoals' /\ CorrectionGoals' /\ RevisionGoals' /\ Served'
    BY <1>1 DEF IInv, StageGoals, CorrectionGoals, RevisionGoals, Served, Starting
  <1>10. Alone'
    BY <1>1, <1>2 DEF IInv, Alone
  <1> QED BY <1>4, <1>5, <1>6, <1>7, <1>8, <1>9, <1>10 DEF IInv

\* and the end of the chain.
LEMMA EndUpgradeKeeps ==
  ASSUME IInv, EndUpgrade
  PROVE IInv'
  <1>1. /\ Upgrading /\ todo = <<>> /\ disk.rev = Newest /\ alembic' = "done"
        /\ UNCHANGED <<disk, work, open, todo, keys, stage, crashes, upgrades, had, untouched>>
    BY DEF EndUpgrade
  <1>2. ~open /\ work = disk /\ keys = TRUE
    BY <1>1, Idle
  <1>3. TypeOK'
    BY <1>1 DEF IInv, TypeOK
  <1>4. WellFormed(todo)' /\ Suits(work, todo, open)'
    BY <1>1 DEF IInv
  <1>5. Mine'
    BY <1>1, <1>2 DEF Mine, Upgrading
  <1>6. CredentialsKnown' /\ Kept' /\ MarksMean'
    BY <1>1 DEF IInv, CredentialsKnown, Kept, MarksMean
  <1>7. Repaired' /\ RevisionsMean'
    BY <1>1, <1>2 DEF IInv, Repaired, RevisionsMean
  <1>8. StageGoals' /\ CorrectionGoals' /\ RevisionGoals' /\ Served'
    BY <1>1 DEF IInv, StageGoals, CorrectionGoals, RevisionGoals, Served, Starting
  <1>9. Alone'
    BY <1>1 DEF IInv, Alone
  <1> QED BY <1>3, <1>4, <1>5, <1>6, <1>7, <1>8, <1>9 DEF IInv

-----------------------------------------------------------------------------
(* The scripts of the start-up *)

\* Statements are made of the names of the models.
LEMMA StatementTypes ==
  /\ \A t \in Names, c \in Columns : AddIfMissing(t, c) \in Statements /\ Add(t, c) \in Statements
  /\ \A t \in Names, C \in SUBSET Columns :
       CreateIfMissing(t, C) \in Statements /\ Create(t, C) \in Statements
  /\ \A t \in Names : Drop(t) \in Statements /\ DropIfExists(t) \in Statements
  /\ \A t, x \in Names : Rename(t, x) \in Statements /\ Copy(t, x) \in Statements
  /\ \A n \in MigrationNames : Mark(n) \in Statements
  /\ \A v \in Swap \union Orphans \union {"config_json"} : Correct(v) \in Statements
  /\ \A v \in 1 .. Newest : Version(v) \in Statements
  /\ Commit \in Statements /\ KeysOff \in Statements /\ KeysOn \in Statements
  BY DEF Statements, AddIfMissing, Add, CreateIfMissing, Create, Drop, DropIfExists, Rename, Copy,
         Mark, Correct, Version, Commit, KeysOff, KeysOn, ForeignKeys

\* A script that rebuilds no table
Plain(s) ==
  \A i \in DOMAIN s :
    /\ s[i].do \in {"create", "create_if_missing", "add", "add_if_missing", "drop_if_exists",
                    "correct", "mark", "version", "commit"}
    /\ s[i].do \in {"create", "create_if_missing", "add", "add_if_missing"} => s[i].table \in Tables
    /\ s[i].do = "drop_if_exists" => s[i].table = "credentials_new"

\* A script that rebuilds no table is well formed but for its end.
LEMMA PlainScripts ==
  ASSUME NEW s \in Seq(Statements), Plain(s)
  PROVE InARow(s) /\ LeftAlone(s) /\ KeysBack(s) /\ \A db, o : Suits(db, s, o)
  <1>1. InARow(s)
    BY DEF Plain, InARow
  <1>2. LeftAlone(s)
    BY DEF Plain, LeftAlone, Rebuilt
  <1>3. KeysBack(s)
    BY DEF Plain, KeysBack, KeysOff, KeysOn, ForeignKeys
  <1>4. \A db, o : Suits(db, s, o)
    <2> TAKE db, o
    <2>1. s # <<>> => 1 \in DOMAIN s
      OBVIOUS
    <2>2. \A t, x : 1 \in DOMAIN s => s[1] # Copy(t, x)
      BY DEF Plain, Copy
    <2>3. \A t, x : 1 \in DOMAIN s => s[1] # Drop(t)
      BY DEF Plain, Drop
    <2>4. \A t, x : 1 \in DOMAIN s => s[1] # Rename(x, t)
      BY DEF Plain, Rename
    <2> QED BY <2>1, <2>2, <2>3, <2>4 DEF Suits, Plain
  <1> QED BY <1>1, <1>2, <1>3, <1>4

\* The records of stage k, and the columns of the credentials
Records(s, k) ==
  \A i \in DOMAIN s : s[i].do # "version" /\ (s[i].do = "mark" => s[i] = Mark(Stages[k]))
KnownColumns(s) ==
  \A i \in DOMAIN s :
    /\ s[i].do \in {"create", "create_if_missing"} /\ s[i].table \in CredentialTables
         => s[i].cols \subseteq Models["credentials"]
    /\ s[i].do \in {"add", "add_if_missing"} /\ s[i].table = "credentials"
         => s[i].col \in Models["credentials"]
\* What holds of the script of stage k when it starts on db
Starts(s, db, k) ==
  /\ s \in Seq(Statements) /\ WellFormed(s) /\ Suits(db, s, FALSE)
  /\ Records(s, k) /\ KnownColumns(s)
\* and what the script has done when it is through
Fulfils(s, db, k) ==
  /\ k = 2 => \A t \in Tables : Creates(s, t)
  /\ k = 3 => \E i \in DOMAIN s : s[i] = DropIfExists("credentials_new")
  /\ \A t \in Tables, c \in Columns : <<k, t, c>> \in Promised => Due(db, s, t, c)
  /\ \A v \in db.wrong : (k = RepairStage /\ v \in Swap) \/ (k = LastStage /\ v \in Orphans)
       => \E i \in DOMAIN s : s[i] = Correct(v)

\* The entrypoint's script may begin at any database.
LEMMA EntrypointStarts ==
  ASSUME NEW db
  PROVE Starts(Entrypoint, db, 1) /\ Fulfils(Entrypoint, db, 1)
  <1> DEFINE s == Entrypoint
  <1>1. /\ s \in Seq(Statements) /\ DOMAIN s = 1 .. 4 /\ Len(s) = 4
        /\ s[1] = AddIfMissing("devices", "proxy_host")
        /\ s[2] = AddIfMissing("devices", "proxy_port")
        /\ s[3] = AddIfMissing("devices", "proxy_credential_id")
        /\ s[4] = Commit
    <2>1. "devices" \in Names /\ {"proxy_host", "proxy_port", "proxy_credential_id"} \subseteq Columns
      BY DEF Names, Columns, Models
    <2> QED BY <2>1, StatementTypes DEF Entrypoint, AddMissing, ProxyColumns
  <1> HIDE DEF s
  <1>2. \A i \in DOMAIN s : \/ s[i].do = "add_if_missing" /\ s[i].table = "devices"
                            \/ s[i].do = "commit"
    BY <1>1 DEF AddIfMissing, Commit
  <1>3. Plain(s)
    BY <1>2 DEF Plain, Tables, Models
  <1>4. Closes(s) /\ Swaps(s)
    BY <1>1, <1>2 DEF Closes, Swaps, Writes, Correct
  <1>5. WellFormed(s) /\ Suits(db, s, FALSE)
    BY <1>1, <1>3, <1>4, PlainScripts DEF WellFormed
  <1>6. Starts(s, db, 1)
    BY <1>1, <1>2, <1>5 DEF Starts, Records, KnownColumns
  <1>7. Fulfils(s, db, 1)
    BY StagesAre DEF Fulfils, Promised, RepairStage
  <1> QED BY <1>6, <1>7 DEF s

\* create_all makes every table.
LEMMA CreateAllStarts ==
  ASSUME NEW db
  PROVE Starts(CreateAll, db, 2) /\ Fulfils(CreateAll, db, 2)
  <1> DEFINE s == CreateAll
  <1>1. /\ s \in Seq(Statements) /\ DOMAIN s = 1 .. 12 /\ Len(s) = 12
        /\ \A i \in DOMAIN s : s[i] = CreateIfMissing(TableOrder[i], Models[TableOrder[i]])
    <2>1. DOMAIN TableOrder = 1 .. 12 /\ \A i \in 1 .. 12 : TableOrder[i] \in Tables
      BY DEF TableOrder, Tables, Models
    <2>2. \A t \in Tables : t \in Names /\ Models[t] \in SUBSET Columns
      BY DEF Names, Columns, Tables
    <2>3. \A i \in 1 .. 12 : s[i] = CreateIfMissing(TableOrder[i], Models[TableOrder[i]])
      BY <2>1 DEF CreateAll
    <2>4. \A i \in 1 .. 12 : CreateIfMissing(TableOrder[i], Models[TableOrder[i]]) \in Statements
      BY <2>1, <2>2, StatementTypes
    <2>5. DOMAIN s = 1 .. 12 /\ Len(s) = 12
      BY <2>1 DEF CreateAll, TableOrder
    <2>6. \A i \in 1 .. 12 : s[i] \in Statements
      BY <2>3, <2>4
    <2>7. s = [i \in 1 .. 12 |-> s[i]]
      BY <2>1 DEF CreateAll
    <2>8. s \in Seq(Statements)
      <3> HIDE DEF s
      <3> QED BY <2>5, <2>6, <2>7
    <2> QED BY <2>3, <2>5, <2>8
  <1> HIDE DEF s
  <1>2. \A t \in Tables : \E i \in 1 .. 12 : TableOrder[i] = t
    BY DEF Tables, Models, TableOrder
  <1>0. \A i \in 1 .. 12 : TableOrder[i] \in Tables
    BY DEF Tables, Models, TableOrder
  <1>3. \A i \in DOMAIN s : s[i].do = "create_if_missing" /\ s[i].table \in Tables
                             /\ s[i].cols = Models[s[i].table]
    BY <1>1, <1>0 DEF CreateIfMissing
  <1>4. Plain(s)
    BY <1>3 DEF Plain
  <1>5. Closes(s) /\ Swaps(s)
    BY <1>1, <1>3 DEF Closes, Swaps, Writes, Correct
  <1>6. WellFormed(s) /\ Suits(db, s, FALSE)
    BY <1>1, <1>4, <1>5, PlainScripts DEF WellFormed
  <1>7. \A i \in DOMAIN s : s[i].table \in CredentialTables => s[i].cols \subseteq Models["credentials"]
    <2>1. CredentialTables \intersect Tables = {"credentials"}
      BY DEF CredentialTables, Tables, Models, Spares, Tmp
    <2> QED BY <1>3, <2>1
  <1>8. Starts(s, db, 2)
    BY <1>1, <1>3, <1>6, <1>7 DEF Starts, Records, KnownColumns
  <1>9. \A t \in Tables : Creates(s, t)
    <2> TAKE t \in Tables
    <2>1. PICK i \in 1 .. 12 : TableOrder[i] = t
      BY <1>2
    <2>2. s[i].table = t
      BY <1>1, <2>1 DEF CreateIfMissing
    <2> QED BY <1>1, <1>3, <2>2 DEF Creates
  <1>10. Fulfils(s, db, 2)
    BY <1>9, StagesAre DEF Fulfils, Promised, RepairStage
  <1> QED BY <1>8, <1>10 DEF s

\* _apply_migrations removes what an interrupted v161 left.
LEMMA CleanUpStarts ==
  ASSUME NEW db
  PROVE Starts(CleanUp, db, 3) /\ Fulfils(CleanUp, db, 3)
  <1> DEFINE s == CleanUp
  <1>1. /\ s \in Seq(Statements) /\ DOMAIN s = 1 .. 2 /\ Len(s) = 2
        /\ s[1] = DropIfExists("credentials_new") /\ s[2] = Commit
    <2>1. "credentials_new" \in Names
      BY DEF Names
    <2> QED BY <2>1, StatementTypes DEF CleanUp
  <1> HIDE DEF s
  <1>2. \A i \in DOMAIN s : \/ s[i].do = "drop_if_exists" /\ s[i].table = "credentials_new"
                            \/ s[i].do = "commit"
    BY <1>1 DEF DropIfExists, Commit
  <1>3. Plain(s)
    BY <1>2 DEF Plain
  <1>4. Closes(s) /\ Swaps(s)
    BY <1>1, <1>2 DEF Closes, Swaps, Writes, Correct
  <1>5. WellFormed(s) /\ Suits(db, s, FALSE)
    BY <1>1, <1>3, <1>4, PlainScripts DEF WellFormed
  <1>6. Starts(s, db, 3)
    BY <1>1, <1>2, <1>5 DEF Starts, Records, KnownColumns
  <1>7. Fulfils(s, db, 3)
    BY <1>1, StagesAre DEF Fulfils, Promised, RepairStage
  <1> QED BY <1>6, <1>7 DEF s

\* _fix_orphaned_credential_refs corrects both kinds of orphans.
LEMMA FixOrphansStarts ==
  ASSUME NEW db
  PROVE Starts(FixOrphans, db, 11) /\ Fulfils(FixOrphans, db, 11)
  <1> DEFINE s == FixOrphans
  <1>1. /\ s \in Seq(Statements) /\ DOMAIN s = 1 .. 3 /\ Len(s) = 3
        /\ s[1] = Correct("credential_id") /\ s[2] = Correct("proxy_credential_id") /\ s[3] = Commit
    BY StatementTypes DEF FixOrphans, Orphans
  <1> HIDE DEF s
  <1>2. \A i \in DOMAIN s : s[i].do \in {"correct", "commit"}
    BY <1>1 DEF Correct, Commit
  <1>3. Plain(s)
    BY <1>2 DEF Plain
  <1>4. Closes(s)
    BY <1>1, <1>2 DEF Closes, Writes
  <1>5. Swaps(s)
    BY <1>1 DEF Swaps, Correct, Commit
  <1>6. WellFormed(s) /\ Suits(db, s, FALSE)
    BY <1>1, <1>3, <1>4, <1>5, PlainScripts DEF WellFormed
  <1>7. Starts(s, db, 11)
    BY <1>1, <1>2, <1>6 DEF Starts, Records, KnownColumns
  <1>8. Fulfils(s, db, 11)
    BY <1>1, StagesAre DEF Fulfils, Promised, RepairStage, Orphans
  <1> QED BY <1>7, <1>8 DEF s

-----------------------------------------------------------------------------
(* The scripts of the migrations *)

\* The names of tables and migrations
LEMMA NamesAre ==
  /\ \A t \in Tables : t \in Names /\ Models[t] \in SUBSET Columns
  /\ {"credentials", "devices", "groups", "backup_failures", "audit_logs", "users",
      "destinations", "locations", "notification_channels"} \subseteq Tables
  /\ "credentials_new" \in Names /\ "credentials_new" \notin Tables
  /\ \A t \in DOMAIN Tmp : t \in Tables /\ Tmp[t] \in Names /\ Tmp[t] \notin Tables
  /\ {"v09", "v15", "v16", "v161", "v161_repair", "v17", "v18"} \subseteq MigrationNames
  /\ CredentialTables \intersect Tables = {"credentials"}
  /\ Spares("credentials") = {"credentials_new", Tmp["credentials"]}
  <1>1. \A t \in Tables : t \in Names /\ Models[t] \in SUBSET Columns
    BY DEF Names, Columns, Tables
  <1>2. {"credentials", "devices", "groups", "backup_failures", "audit_logs", "users",
         "destinations", "locations", "notification_channels"} \subseteq Tables
    BY DEF Tables, Models
  <1>3. "credentials_new" \in Names /\ "credentials_new" \notin Tables
    BY DEF Names, Tables, Models
  <1>4. \A t \in DOMAIN Tmp : t \in Tables /\ Tmp[t] \in Names /\ Tmp[t] \notin Tables
    BY DEF Tmp, Names, Tables, Models
  <1>5. {"v09", "v15", "v16", "v161", "v161_repair", "v17", "v18"} \subseteq MigrationNames
    BY DEF MigrationNames, Migrations
  <1>6. CredentialTables \intersect Tables = {"credentials"}
    BY DEF CredentialTables, Tables, Models, Spares, Tmp
  <1>7. Spares("credentials") = {"credentials_new", Tmp["credentials"]}
    BY DEF Spares, Tmp
  <1> QED BY <1>1, <1>2, <1>3, <1>4, <1>5, <1>6, <1>7

\* A migration that is marked has nothing to do.
LEMMA EmptyStarts ==
  ASSUME NEW db, NEW k
  PROVE Starts(<<>>, db, k)
  <1>1. Suits(db, <<>>, FALSE) /\ WellFormed(<<>>) /\ <<>> \in Seq(Statements)
    BY Nothing
  <1> DEFINE s == <<>>
  <1>2. DOMAIN s = {}
    OBVIOUS
  <1> HIDE DEF s
  <1> QED BY <1>1, <1>2 DEF Starts, Records, KnownColumns, s

\* v09 gives the credentials their group.
LEMMA V09Starts ==
  ASSUME NEW db
  PROVE LET s == V09 \o <<Mark("v09"), Commit>> IN Starts(s, db, 4) /\ Fulfils(s, db, 4)
  <1> DEFINE s == V09 \o <<Mark("v09"), Commit>>
  <1>1. /\ s \in Seq(Statements) /\ DOMAIN s = 1 .. 4 /\ Len(s) = 4
        /\ s[1] = AddIfMissing("credentials", "group") /\ s[2] = Commit
        /\ s[3] = Mark("v09") /\ s[4] = Commit
    <2>1. "credentials" \in Names /\ "group" \in Columns /\ "v09" \in MigrationNames
      BY NamesAre DEF Columns, Models
    <2> QED BY <2>1, StatementTypes DEF V09, AddMissing
  <1> HIDE DEF s
  <1>2. /\ s[1].do = "add_if_missing" /\ s[1].table = "credentials" /\ s[1].col = "group"
        /\ s[2].do = "commit" /\ s[3].do = "mark" /\ s[4].do = "commit"
    BY <1>1 DEF AddIfMissing, Commit, Mark
  <1>3. Plain(s)
    BY <1>1, <1>2, NamesAre DEF Plain
  <1>4. Closes(s)
    BY <1>1, <1>2 DEF Closes
  <1>5. Swaps(s)
    BY <1>1, <1>2 DEF Swaps, Correct
  <1>6. WellFormed(s) /\ Suits(db, s, FALSE)
    BY <1>1, <1>3, <1>4, <1>5, PlainScripts DEF WellFormed
  <1>7. Starts(s, db, 4)
    <2>1. Records(s, 4)
      BY <1>1, <1>2, <1>6, StagesAre DEF Records
    <2>2. KnownColumns(s)
      BY <1>1, <1>2, <1>6 DEF KnownColumns, Models
    <2> QED BY <1>1, <1>2, <1>6, <2>1, <2>2 DEF Starts
  <1>8. ColumnDue(db, s, "credentials", "group")
    BY <1>1 DEF ColumnDue
  <1>9. Fulfils(s, db, 4)
    BY <1>8, StagesAre DEF Fulfils, Promised, RepairStage, Due
  <1> QED BY <1>7, <1>9 DEF s

\* v15 gives the devices the columns of the proxy.
LEMMA V15Starts ==
  ASSUME NEW db
  PROVE LET s == V15 \o <<Mark("v15"), Commit>> IN Starts(s, db, 5) /\ Fulfils(s, db, 5)
  <1> DEFINE s == V15 \o <<Mark("v15"), Commit>>
  <1>1. /\ s \in Seq(Statements) /\ DOMAIN s = 1 .. 6 /\ Len(s) = 6
        /\ s[1] = AddIfMissing("devices", "proxy_host")
        /\ s[2] = AddIfMissing("devices", "proxy_port")
        /\ s[3] = AddIfMissing("devices", "proxy_credential_id")
        /\ s[4] = Commit /\ s[5] = Mark("v15") /\ s[6] = Commit
    <2>1. "devices" \in Names /\ "proxy_host" \in Columns /\ "proxy_port" \in Columns
          /\ "proxy_credential_id" \in Columns /\ "v15" \in MigrationNames
      BY NamesAre DEF Columns, Models
    <2> QED BY <2>1, StatementTypes DEF V15, AddMissing, ProxyColumns
  <1> HIDE DEF s
  <1>2. /\ \A i \in {1, 2, 3} : s[i].do = "add_if_missing" /\ s[i].table = "devices"
        /\ s[4].do = "commit" /\ s[5].do = "mark" /\ s[6].do = "commit"
    BY <1>1 DEF AddIfMissing, Commit, Mark
  <1>3. Plain(s)
    BY <1>1, <1>2, NamesAre DEF Plain
  <1>4. Closes(s)
    BY <1>1, <1>2 DEF Closes
  <1>5. Swaps(s)
    BY <1>1, <1>2 DEF Swaps, Correct
  <1>6. WellFormed(s) /\ Suits(db, s, FALSE)
    BY <1>1, <1>3, <1>4, <1>5, PlainScripts DEF WellFormed
  <1>7. Starts(s, db, 5)
    <2>1. Records(s, 5)
      BY <1>1, <1>2, <1>6, StagesAre DEF Records
    <2>2. KnownColumns(s)
      BY <1>1, <1>2, <1>6 DEF KnownColumns
    <2> QED BY <1>1, <1>2, <1>6, <2>1, <2>2 DEF Starts
  <1>8. \A c \in {"proxy_host", "proxy_port", "proxy_credential_id"} : ColumnDue(db, s, "devices", c)
    BY <1>1 DEF ColumnDue
  <1>9. Fulfils(s, db, 5)
    BY <1>8, StagesAre DEF Fulfils, Promised, RepairStage, Due
  <1> QED BY <1>7, <1>9 DEF s

\* v16 gives the groups three columns, since create_all has run before it.
LEMMA V16Starts ==
  ASSUME NEW db, Has(db, "groups")
  PROVE LET s == V16(db) \o <<Mark("v16"), Commit>> IN Starts(s, db, 6) /\ Fulfils(s, db, 6)
  <1> DEFINE s == V16(db) \o <<Mark("v16"), Commit>>
  <1>1. /\ s \in Seq(Statements) /\ DOMAIN s = 1 .. 6 /\ Len(s) = 6
        /\ s[1] = AddIfMissing("groups", "destination_ids")
        /\ s[2] = AddIfMissing("groups", "backup_engine")
        /\ s[3] = AddIfMissing("groups", "notification_ids")
        /\ s[4] = Commit /\ s[5] = Mark("v16") /\ s[6] = Commit
    <2>1. "groups" \in Names /\ "destination_ids" \in Columns /\ "backup_engine" \in Columns
          /\ "notification_ids" \in Columns /\ "v16" \in MigrationNames
      BY NamesAre DEF Columns, Models
    <2>2. V16(db) = AddMissing("groups", <<"destination_ids", "backup_engine", "notification_ids">>)
                      \o <<Commit>>
      BY DEF V16
    <2> QED BY <2>1, <2>2, StatementTypes DEF AddMissing
  <1> HIDE DEF s
  <1>2. /\ \A i \in {1, 2, 3} : s[i].do = "add_if_missing" /\ s[i].table = "groups"
        /\ s[4].do = "commit" /\ s[5].do = "mark" /\ s[6].do = "commit"
    BY <1>1 DEF AddIfMissing, Commit, Mark
  <1>3. Plain(s)
    BY <1>1, <1>2, NamesAre DEF Plain
  <1>4. Closes(s)
    BY <1>1, <1>2 DEF Closes
  <1>5. Swaps(s)
    BY <1>1, <1>2 DEF Swaps, Correct
  <1>6. WellFormed(s) /\ Suits(db, s, FALSE)
    BY <1>1, <1>3, <1>4, <1>5, PlainScripts DEF WellFormed
  <1>7. Starts(s, db, 6)
    <2>1. Records(s, 6)
      BY <1>1, <1>2, <1>6, StagesAre DEF Records
    <2>2. KnownColumns(s)
      BY <1>1, <1>2, <1>6 DEF KnownColumns
    <2> QED BY <1>1, <1>2, <1>6, <2>1, <2>2 DEF Starts
  <1>8. \A c \in {"destination_ids", "backup_engine", "notification_ids"} : ColumnDue(db, s, "groups", c)
    BY <1>1 DEF ColumnDue
  <1>9. Fulfils(s, db, 6)
    BY <1>8, StagesAre DEF Fulfils, Promised, RepairStage, Due
  <1> QED BY <1>7, <1>9 DEF s

\* v161 builds the credentials anew, with all the columns they had, if it has to.
LEMMA V161Starts ==
  ASSUME NEW db, Has(db, "credentials"), db.def["credentials"] \subseteq Models["credentials"]
  PROVE LET s == V161(db) \o <<Mark("v161"), Commit>> IN Starts(s, db, 7) /\ Fulfils(s, db, 7)
  <1> DEFINE s == V161(db) \o <<Mark("v161"), Commit>>
             C == Models["credentials"]
  <1>1. CASE "username_NULL" \in db.def["credentials"]
    <2>1. /\ s \in Seq(Statements) /\ DOMAIN s = 1 .. 2 /\ Len(s) = 2
          /\ s[1] = Mark("v161") /\ s[2] = Commit
      BY <1>1, NamesAre, StatementTypes DEF V161
    <2> HIDE DEF s
    <2>2. s[1].do = "mark" /\ s[2].do = "commit"
      BY <2>1 DEF Commit, Mark
    <2>3. Plain(s) /\ Closes(s)
      BY <2>1, <2>2 DEF Plain, Closes
    <2>4. Swaps(s)
      BY <2>1, <2>2 DEF Swaps, Correct
    <2>5. WellFormed(s) /\ Suits(db, s, FALSE)
      BY <2>1, <2>3, <2>4, PlainScripts DEF WellFormed
    <2>6. Starts(s, db, 7)
      <3>1. Records(s, 7)
        BY <2>1, <2>2, <2>5, StagesAre DEF Records
      <3>2. KnownColumns(s)
        BY <2>1, <2>2, <2>5 DEF KnownColumns
      <3> QED BY <2>1, <2>2, <2>5, <3>1, <3>2 DEF Starts
    <2>7. Fulfils(s, db, 7)
      BY <1>1, StagesAre DEF Fulfils, Promised, RepairStage, Due, ColumnDue, There
    <2> QED BY <2>6, <2>7 DEF s
  <1>2. CASE "username_NULL" \notin db.def["credentials"]
    <2>0. V161(db) = <<Commit, KeysOff, Create("credentials_new", C),
                       Copy("credentials", "credentials_new"), Drop("credentials"),
                       Rename("credentials_new", "credentials"), Commit, KeysOn>>
      BY <1>2 DEF V161, KeysOff, KeysOn
    <2>1. /\ DOMAIN s = 1 .. 10 /\ Len(s) = 10
          /\ s[1] = Commit /\ s[2] = KeysOff /\ s[3] = Create("credentials_new", C)
          /\ s[4] = Copy("credentials", "credentials_new") /\ s[5] = Drop("credentials")
          /\ s[6] = Rename("credentials_new", "credentials") /\ s[7] = Commit /\ s[8] = KeysOn
          /\ s[9] = Mark("v161") /\ s[10] = Commit
      <3> HIDE DEF C
      <3> QED BY <2>0
    <2>2. s \in Seq(Statements)
      <3>1. "credentials" \in Names /\ "credentials_new" \in Names /\ "v161" \in MigrationNames
            /\ C \in SUBSET Columns
        BY NamesAre
      <3> HIDE DEF C
      <3> QED BY <2>0, <3>1, StatementTypes
    <2> HIDE DEF s
    <2>3. /\ s[1].do = "commit" /\ s[2].do = "pragma" /\ s[7].do = "commit" /\ s[8].do = "pragma"
          /\ s[9].do = "mark" /\ s[10].do = "commit"
          /\ s[3].do = "create" /\ s[3].table = "credentials_new" /\ s[3].cols = C
          /\ s[4].do = "copy" /\ s[4].table = "credentials" /\ s[4].new = "credentials_new"
          /\ s[5].do = "drop" /\ s[5].table = "credentials"
          /\ s[6].do = "rename" /\ s[6].table = "credentials_new" /\ s[6].new = "credentials"
      <3> HIDE DEF C
      <3> QED BY <2>1 DEF Commit, KeysOff, KeysOn, ForeignKeys, Mark, Create, Copy, Drop, Rename
    <2>4. InARow(s)
      BY <2>1, <2>3, NamesAre DEF InARow
    <2>5. LeftAlone(s)
      BY <2>1, <2>3, NamesAre DEF LeftAlone
    <2>6. Closes(s)
      BY <2>1, <2>3 DEF Closes
    <2>7. KeysBack(s)
      <3>1. KeysOn # KeysOff
        BY DEF KeysOn, KeysOff, ForeignKeys
      <3>2. KeysOn.do = "pragma" /\ KeysOff.do = "pragma"
        BY DEF KeysOn, KeysOff, ForeignKeys
      <3> QED BY <2>1, <2>3, <3>1, <3>2 DEF KeysBack
    <2>8. Swaps(s)
      BY <2>1, <2>3 DEF Swaps, Correct
    <2>9. Suits(db, s, FALSE)
      <3>1. \A t, x : s[1] # Copy(t, x)
        BY <2>3 DEF Copy
      <3>2. \A t, x : s[1] # Drop(t)
        BY <2>3 DEF Drop
      <3>3. \A t, x : s[1] # Rename(x, t)
        BY <2>3 DEF Rename
      <3>4. \A t : s[4] = Copy(t, "credentials_new") => t = "credentials"
        BY <2>3 DEF Copy
      <3> QED BY <2>1, <2>3, <3>1, <3>2, <3>3, <3>4 DEF Suits
    <2>10. Starts(s, db, 7)
      <3>1. Records(s, 7)
        BY <2>1, <2>2, <2>3, <2>4, <2>5, <2>6, <2>7, <2>8, <2>9, StagesAre DEF Records
      <3>2. KnownColumns(s)
        BY <2>1, <2>2, <2>3, <2>4, <2>5, <2>6, <2>7, <2>8, <2>9 DEF KnownColumns
      <3> QED BY <2>1, <2>2, <2>3, <2>4, <2>5, <2>6, <2>7, <2>8, <2>9, <3>1, <3>2 DEF Starts, WellFormed
    <2>11. Due(db, s, "credentials", "username_NULL")
      <3>1. "username_NULL" \in C
        BY DEF Models
      <3>2. ColumnDue(db, s, "credentials_new", "username_NULL")
        BY <2>1, <2>3, <3>1 DEF ColumnDue
      <3> QED BY <2>1, <3>2, NamesAre DEF Due
    <2>12. Fulfils(s, db, 7)
      BY <2>11, StagesAre DEF Fulfils, Promised, RepairStage
    <2> QED BY <2>10, <2>12 DEF s
  <1> QED BY <1>1, <1>2

\* v161_repair corrects both swapped values, if they are swapped.
LEMMA V161RepairStarts ==
  ASSUME NEW db, IsDb(db), "group" \in db.wrong => "updated_at" \in db.wrong
  PROVE LET s == V161Repair(db) \o <<Mark("v161_repair"), Commit>>
        IN Starts(s, db, 8) /\ Fulfils(s, db, 8)
  <1> DEFINE s == V161Repair(db) \o <<Mark("v161_repair"), Commit>>
  <1>1. CASE "updated_at" \in db.wrong
    <2>1. /\ s \in Seq(Statements) /\ DOMAIN s = 1 .. 5 /\ Len(s) = 5
          /\ s[1] = Correct("updated_at") /\ s[2] = Correct("group") /\ s[3] = Commit
          /\ s[4] = Mark("v161_repair") /\ s[5] = Commit
      BY <1>1, NamesAre, StatementTypes DEF V161Repair, Swap
    <2> HIDE DEF s
    <2>2. /\ s[1].do = "correct" /\ s[2].do = "correct" /\ s[3].do = "commit"
          /\ s[4].do = "mark" /\ s[5].do = "commit"
      BY <2>1 DEF Commit, Mark, Correct
    <2>3. Plain(s) /\ Closes(s)
      BY <2>1, <2>2 DEF Plain, Closes
    <2>4. Swaps(s)
      <3>1. s[2] # Correct("updated_at")
        BY <2>1 DEF Correct
      <3>2. Correct("updated_at").do = "correct"
        BY DEF Correct
      <3> QED BY <2>1, <2>2, <3>1, <3>2 DEF Swaps
    <2>5. WellFormed(s) /\ Suits(db, s, FALSE)
      BY <2>1, <2>3, <2>4, PlainScripts DEF WellFormed
    <2>6. Starts(s, db, 8)
      <3>1. Records(s, 8)
        BY <2>1, <2>2, <2>5, StagesAre DEF Records
      <3>2. KnownColumns(s)
        BY <2>1, <2>2, <2>5 DEF KnownColumns
      <3> QED BY <2>1, <2>2, <2>5, <3>1, <3>2 DEF Starts
    <2>7. Fulfils(s, db, 8)
      BY <2>1, StagesAre DEF Fulfils, Promised, RepairStage, Swap
    <2> QED BY <2>6, <2>7 DEF s
  <1>2. CASE "updated_at" \notin db.wrong
    <2>1. /\ s \in Seq(Statements) /\ DOMAIN s = 1 .. 2 /\ Len(s) = 2
          /\ s[1] = Mark("v161_repair") /\ s[2] = Commit
      BY <1>2, NamesAre, StatementTypes DEF V161Repair
    <2> HIDE DEF s
    <2>2. s[1].do = "mark" /\ s[2].do = "commit"
      BY <2>1 DEF Commit, Mark
    <2>3. Plain(s) /\ Closes(s)
      BY <2>1, <2>2 DEF Plain, Closes
    <2>4. Swaps(s)
      BY <2>1, <2>2 DEF Swaps, Correct
    <2>5. WellFormed(s) /\ Suits(db, s, FALSE)
      BY <2>1, <2>3, <2>4, PlainScripts DEF WellFormed
    <2>6. Starts(s, db, 8)
      <3>1. Records(s, 8)
        BY <2>1, <2>2, <2>5, StagesAre DEF Records
      <3>2. KnownColumns(s)
        BY <2>1, <2>2, <2>5 DEF KnownColumns
      <3> QED BY <2>1, <2>2, <2>5, <3>1, <3>2 DEF Starts
    <2>7. Fulfils(s, db, 8)
      BY <1>2, StagesAre DEF Fulfils, Promised, RepairStage, Swap
    <2> QED BY <2>6, <2>7 DEF s
  <1> QED BY <1>1, <1>2

\* v17 and v18: the table is there already, create_all has made it.
LEMMA OnlyMarkStarts ==
  ASSUME NEW db, NEW k \in {9, 10}
  PROVE LET s == <<Mark(Stages[k]), Commit>> IN Starts(s, db, k) /\ Fulfils(s, db, k)
  <1> DEFINE s == <<Mark(Stages[k]), Commit>>
  <1>1. /\ s \in Seq(Statements) /\ DOMAIN s = 1 .. 2 /\ Len(s) = 2
        /\ s[1] = Mark(Stages[k]) /\ s[2] = Commit
    <2>1. Stages[k] \in MigrationNames
      BY StagesAre, NamesAre
    <2> QED BY <2>1, StatementTypes
  <1> HIDE DEF s
  <1>2. s[1].do = "mark" /\ s[2].do = "commit"
    BY <1>1 DEF Commit, Mark
  <1>3. Plain(s) /\ Closes(s)
    BY <1>1, <1>2 DEF Plain, Closes
  <1>4. Swaps(s)
    BY <1>1, <1>2 DEF Swaps, Correct
  <1>5. WellFormed(s) /\ Suits(db, s, FALSE)
    BY <1>1, <1>3, <1>4, PlainScripts DEF WellFormed
  <1>6. Starts(s, db, k)
    <2>1. Records(s, k)
      BY <1>1, <1>2, <1>5 DEF Records
    <2>2. KnownColumns(s)
      BY <1>1, <1>2, <1>5 DEF KnownColumns
    <2> QED BY <1>1, <1>2, <1>5, <2>1, <2>2 DEF Starts
  <1>7. Fulfils(s, db, k)
    BY StagesAre DEF Fulfils, Promised, RepairStage
  <1> QED BY <1>6, <1>7 DEF s

\* The script of each stage
LEMMA StageIs ==
  ASSUME NEW db
  PROVE /\ Stage(Stages[1], db) = Entrypoint /\ Stage(Stages[2], db) = CreateAll
        /\ Stage(Stages[3], db) = CleanUp /\ Stage(Stages[11], db) = FixOrphans
        /\ Stage(Stages[4], db) = IF "v09" \in db.marks THEN <<>> ELSE V09 \o <<Mark("v09"), Commit>>
        /\ Stage(Stages[5], db) = IF "v15" \in db.marks THEN <<>> ELSE V15 \o <<Mark("v15"), Commit>>
        /\ Stage(Stages[6], db) =
             IF "v16" \in db.marks THEN <<>> ELSE V16(db) \o <<Mark("v16"), Commit>>
        /\ Stage(Stages[7], db) =
             IF "v161" \in db.marks THEN <<>> ELSE V161(db) \o <<Mark("v161"), Commit>>
        /\ Stage(Stages[8], db) =
             IF "v161_repair" \in db.marks THEN <<>>
             ELSE V161Repair(db) \o <<Mark("v161_repair"), Commit>>
        /\ Has(db, "backup_failures") =>
             Stage(Stages[9], db) = IF "v17" \in db.marks THEN <<>> ELSE <<Mark("v17"), Commit>>
        /\ Has(db, "audit_logs") =>
             Stage(Stages[10], db) = IF "v18" \in db.marks THEN <<>> ELSE <<Mark("v18"), Commit>>
  <1>1. /\ Stage(Stages[1], db) = Entrypoint /\ Stage(Stages[2], db) = CreateAll
        /\ Stage(Stages[3], db) = CleanUp /\ Stage(Stages[11], db) = FixOrphans
    BY StagesAre DEF Stage
  <1>2. \A n \in {"v09", "v15", "v16", "v161", "v161_repair", "v17", "v18"} :
          Stage(n, db) = Migration(n, db)
    BY DEF Stage
  <1>3. /\ Body("v09", db) = V09 /\ Body("v15", db) = V15 /\ Body("v16", db) = V16(db)
        /\ Body("v161", db) = V161(db) /\ Body("v161_repair", db) = V161Repair(db)
        /\ Body("v17", db) = V17(db) /\ Body("v18", db) = V18(db)
    BY DEF Body
  <1>4. /\ Has(db, "backup_failures") => V17(db) \o <<Mark("v17"), Commit>> = <<Mark("v17"), Commit>>
        /\ Has(db, "audit_logs") => V18(db) \o <<Mark("v18"), Commit>> = <<Mark("v18"), Commit>>
    <2>1. \A a, b : <<>> \o <<a, b>> = <<a, b>>
      OBVIOUS
    <2> QED BY <2>1 DEF V17, V18
  <1>5. /\ Migration("v09", db) = IF "v09" \in db.marks THEN <<>> ELSE V09 \o <<Mark("v09"), Commit>>
        /\ Migration("v15", db) = IF "v15" \in db.marks THEN <<>> ELSE V15 \o <<Mark("v15"), Commit>>
        /\ Migration("v16", db) =
             IF "v16" \in db.marks THEN <<>> ELSE V16(db) \o <<Mark("v16"), Commit>>
        /\ Migration("v161", db) =
             IF "v161" \in db.marks THEN <<>> ELSE V161(db) \o <<Mark("v161"), Commit>>
        /\ Migration("v161_repair", db) =
             IF "v161_repair" \in db.marks THEN <<>>
             ELSE V161Repair(db) \o <<Mark("v161_repair"), Commit>>
    BY <1>3 DEF Migration
  <1>6. /\ Has(db, "backup_failures") =>
             Migration("v17", db) = IF "v17" \in db.marks THEN <<>> ELSE <<Mark("v17"), Commit>>
        /\ Has(db, "audit_logs") =>
             Migration("v18", db) = IF "v18" \in db.marks THEN <<>> ELSE <<Mark("v18"), Commit>>
    BY <1>3, <1>4 DEF Migration
  <1> QED BY <1>1, <1>2, <1>5, <1>6, StagesAre

\* What an earlier stage has promised is there when the next one begins.
LEMMA SoFar ==
  ASSUME IInv, todo = <<>>, ~Upgrading, stage < LastStage
  PROVE /\ stage + 1 \in 1 .. 11
        /\ stage >= 2 => \A t \in Tables : Has(work, t)
        /\ stage >= 3 => ~Has(work, "credentials_new")
        /\ \A t \in Tables, c \in Columns, k \in 1 .. LastStage :
             <<k, t, c>> \in Promised /\ k <= stage => There(work, t, c)
        /\ stage \in RepairStage .. LastStage => work.wrong \intersect Swap = {}
        /\ "group" \in work.wrong => "updated_at" \in work.wrong
  <1>1. stage \in 0 .. 10 /\ LastStage = 11 /\ RepairStage = 8
    BY StagesAre DEF IInv, TypeOK, RepairStage
  <1>2. stage >= 1 => Starting
    BY <1>1, StagesAre DEF Starting
  <1>3. Closes(todo) /\ todo \in Seq(Statements)
    BY DEF IInv, WellFormed, TypeOK
  <1>4. \A t : /\ \A c : Due(work, todo, t, c) => There(work, t, c)
               /\ TableDue(work, todo, t) => Has(work, t)
    BY <1>3, DueNow
  <1>5. stage >= 2 => \A t \in Tables : Has(work, t)
    BY <1>1, <1>2, <1>4 DEF IInv, StageGoals
  <1>6. stage >= 3 => ~Has(work, "credentials_new")
    BY <1>1, <1>2 DEF IInv, StageGoals
  <1>7. \A t \in Tables, c \in Columns, k \in 1 .. LastStage :
          <<k, t, c>> \in Promised /\ k <= stage => There(work, t, c)
    <2> TAKE t \in Tables, c \in Columns, k \in 1 .. LastStage
    <2> HAVE <<k, t, c>> \in Promised /\ k <= stage
    <2>1. stage >= 1
      BY <1>1
    <2> QED BY <1>2, <1>4, <2>1 DEF IInv, StageGoals
  <1>8. stage \in RepairStage .. LastStage => work.wrong \intersect Swap = {}
    BY DEF IInv, CorrectionGoals
  <1>9. "group" \in work.wrong => "updated_at" \in work.wrong
    BY Idle DEF IInv, Repaired
  <1>10. stage + 1 \in 1 .. 11
    BY <1>1
  <1> QED BY <1>5, <1>6, <1>7, <1>8, <1>9, <1>10

\* What a marked migration promises is there already.
LEMMA MarkedFulfils ==
  ASSUME IInv, todo = <<>>, NEW k \in 4 .. 10, Stages[k] \in work.marks
  PROVE Fulfils(<<>>, work, k)
  <1>1. \A t \in Tables, c \in Columns : <<k, t, c>> \in Promised => Due(work, <<>>, t, c)
    <2> TAKE t \in Tables, c \in Columns
    <2> HAVE <<k, t, c>> \in Promised
    <2>1. k \in 1 .. LastStage /\ Place(todo, t) = t
      BY StagesAre, Idle
    <2> QED BY <2>1 DEF IInv, MarksMean, Due, ColumnDue
  <1>2. k = RepairStage => work.wrong \intersect Swap = {}
    BY StagesAre DEF IInv, Repaired, RepairStage
  <1> QED BY <1>1, <1>2, StagesAre DEF Fulfils

\* The next stage's script may begin, and does what its stage promises.
LEMMA StageStarts ==
  ASSUME IInv, todo = <<>>, ~Upgrading, stage < LastStage, NEW k, k = stage + 1
  PROVE Starts(Stage(Stages[k], work), work, k) /\ Fulfils(Stage(Stages[k], work), work, k)
  <1>1. /\ k \in {1, 2, 3, 4, 5, 6, 7, 8, 9, 10, 11}
        /\ k >= 3 => \A t \in Tables : Has(work, t)
        /\ "group" \in work.wrong => "updated_at" \in work.wrong
    <2>1. stage \in Nat
      BY DEF IInv, TypeOK
    <2> QED BY <2>1, SoFar
  <1>2. CASE k \in 4 .. 10 /\ Stages[k] \in work.marks
    <2>1. Stage(Stages[k], work) = <<>>
      <3>1. /\ k = 9 => Has(work, "backup_failures")
            /\ k = 10 => Has(work, "audit_logs")
        BY <1>1, NamesAre
      <3> QED BY <1>1, <1>2, <3>1, StageIs, StagesAre
    <2> QED BY <1>2, <2>1, EmptyStarts, MarkedFulfils
  <1>3. CASE k = 1
    BY <1>3, StageIs, EntrypointStarts
  <1>4. CASE k = 2
    BY <1>4, StageIs, CreateAllStarts
  <1>5. CASE k = 3
    BY <1>5, StageIs, CleanUpStarts
  <1>6. CASE k = 4 /\ Stages[k] \notin work.marks
    BY <1>6, StageIs, StagesAre, V09Starts
  <1>7. CASE k = 5 /\ Stages[k] \notin work.marks
    BY <1>7, StageIs, StagesAre, V15Starts
  <1>8. CASE k = 6 /\ Stages[k] \notin work.marks
    <2>1. Has(work, "groups")
      BY <1>1, <1>8, NamesAre
    <2> QED BY <1>8, <2>1, StageIs, StagesAre, V16Starts
  <1>9. CASE k = 7 /\ Stages[k] \notin work.marks
    <2>1. Has(work, "credentials") /\ "credentials" \in CredentialTables
      BY <1>1, <1>9, NamesAre
    <2>2. work.def["credentials"] \subseteq Models["credentials"]
      BY <2>1 DEF IInv, CredentialsKnown
    <2> QED BY <1>9, <2>1, <2>2, StageIs, StagesAre, V161Starts
  <1>10. CASE k = 8 /\ Stages[k] \notin work.marks
    <2>1. IsDb(work)
      BY DEF IInv, TypeOK
    <2> QED BY <1>1, <1>10, <2>1, StageIs, StagesAre, V161RepairStarts
  <1>11. CASE k = 9 /\ Stages[k] \notin work.marks
    <2>1. Has(work, "backup_failures")
      BY <1>1, <1>11, NamesAre
    <2> QED BY <1>11, <2>1, StageIs, StagesAre, OnlyMarkStarts
  <1>12. CASE k = 10 /\ Stages[k] \notin work.marks
    <2>1. Has(work, "audit_logs")
      BY <1>1, <1>12, NamesAre
    <2> QED BY <1>12, <2>1, StageIs, StagesAre, OnlyMarkStarts
  <1>13. CASE k = 11
    BY <1>13, StageIs, FixOrphansStarts
  <1> QED BY <1>1, <1>2, <1>3, <1>4, <1>5, <1>6, <1>7, <1>8, <1>9, <1>10, <1>11, <1>12, <1>13

\* The beginning of a stage keeps the inductive invariant.
LEMMA NextStageKeeps ==
  ASSUME IInv, NextStage
  PROVE IInv'
  <1> DEFINE s == Stage(Stages[stage + 1], work)
  <1>1. /\ ~Upgrading /\ todo = <<>> /\ stage < LastStage /\ stage' = stage + 1
        /\ todo' = s /\ untouched' = FALSE
        /\ UNCHANGED <<disk, work, open, keys, alembic, crashes, upgrades, had>>
    BY DEF NextStage
  <1>2. Starts(s, work, stage + 1) /\ Fulfils(s, work, stage + 1)
    BY <1>1, StageStarts
  <1> HIDE DEF s
  <1>3. /\ stage \in 0 .. 10 /\ stage' \in 1 .. 11 /\ Starting' /\ ~Upgrading'
        /\ LastStage = 11 /\ Serving = 12
    <2>1. stage \in 0 .. 12
      BY StagesAre DEF IInv, TypeOK
    <2> QED BY <1>1, <2>1, StagesAre DEF Starting, Upgrading
  <1>4. ~open /\ work = disk /\ keys = TRUE /\ \A t : Place(todo, t) = t
    BY <1>1, Idle
  <1>5. /\ s \in Seq(Statements) /\ WellFormed(s) /\ Suits(work, s, FALSE)
        /\ \A t : Place(s, t) = t
    <2>1. s \in Seq(Statements) /\ WellFormed(s) /\ Suits(work, s, FALSE)
      BY <1>2 DEF Starts
    <2>2. InARow(s)
      BY <2>1 DEF WellFormed
    <2> QED BY <2>1, <2>2, InPlace
  <1>6. TypeOK'
    <2>1. stage' \in 0 .. Serving
      BY <1>3
    <2> QED BY <1>1, <1>4, <1>5, <2>1 DEF IInv, TypeOK
  <1>7. WellFormed(todo)' /\ Suits(work, todo, open)'
    <2>1. open' = FALSE
      BY <1>1, <1>4 DEF IInv, TypeOK
    <2> QED BY <1>1, <1>5, <2>1
  <1>8. Mine'
    <2>1. \A i \in DOMAIN s : s[i].do # "version" /\ (s[i].do = "mark" => s[i] = Mark(Stages[stage']))
      BY <1>1, <1>2 DEF Starts, Records
    <2> QED BY <1>1, <1>3, <1>4, <2>1 DEF Mine
  <1>9. CredentialsKnown'
    <2>1. KnownColumns(s)
      BY <1>2 DEF Starts
    <2> QED BY <1>1, <2>1 DEF IInv, CredentialsKnown, KnownColumns
  <1>10. Kept'
    BY <1>1, <1>4, <1>5 DEF IInv, Kept
  <1>11. MarksMean'
    BY <1>1, <1>4, <1>5 DEF IInv, MarksMean
  <1>12. Repaired'
    <2>1. "group" \in work.wrong => "updated_at" \in work.wrong
      BY <1>1, SoFar
    <2> QED BY <1>1, <2>1 DEF IInv, Repaired
  <1>13. RevisionsMean'
    BY <1>1, <1>4, <1>5 DEF IInv, RevisionsMean
  <1>14. StageGoals'
    <2>1. stage' >= 2 => \A t \in Tables : TableDue(work, s, t)
      <3>1. CASE stage' = 2
        <4>1. \A t \in Tables : Creates(s, t)
          BY <1>1, <1>2, <3>1 DEF Fulfils
        <4> QED BY <4>1 DEF TableDue
      <3>2. CASE stage' > 2
        <4>1. \A t \in Tables : Has(work, t)
          <5>1. stage >= 2
            BY <1>1, <1>3, <3>2
          <5> QED BY <1>1, <5>1, SoFar
        <4> QED BY <4>1 DEF TableDue
      <3> QED BY <1>3, <3>1, <3>2
    <2>2. stage' >= 3 /\ Has(work, "credentials_new") =>
            \E i \in DOMAIN s : s[i] = DropIfExists("credentials_new")
      <3>1. CASE stage' = 3
        BY <1>1, <1>2, <3>1 DEF Fulfils
      <3>2. CASE stage' > 3
        <4>1. stage >= 3
          BY <1>1, <1>3, <3>2
        <4> QED BY <1>1, <4>1, SoFar
      <3> QED BY <1>3, <3>1, <3>2
    <2>3. ASSUME NEW t \in Tables, NEW c \in Columns, NEW k \in 1 .. LastStage,
                 <<k, t, c>> \in Promised, k <= stage'
          PROVE Due(work, s, t, c)
      <3>1. CASE k = stage'
        BY <1>1, <1>2, <2>3, <3>1 DEF Fulfils
      <3>2. CASE k < stage'
        <4>1. k <= stage
          BY <1>1, <1>3, <3>2
        <4>2. There(work, t, c)
          BY <1>1, <2>3, <4>1, SoFar
        <4> QED BY <4>2 DEF Due, ColumnDue
      <3> QED BY <1>3, <2>3, <3>1, <3>2
    <2>4. work' = work /\ todo' = s
      BY <1>1
    <2> QED BY <2>1, <2>2, <2>3, <2>4 DEF StageGoals
  <1>15. CorrectionGoals'
    <2> SUFFICES ASSUME NEW v \in work.wrong,
                        (v \in Swap /\ stage' \in RepairStage .. LastStage)
                          \/ (v \in Orphans /\ stage' = LastStage)
          PROVE \E i \in DOMAIN s : s[i] = Correct(v)
      BY <1>1 DEF CorrectionGoals
    <2>1. RepairStage = 8
      BY DEF RepairStage
    <2>2. CASE v \in Swap /\ stage' = RepairStage
      BY <1>1, <1>2, <2>2 DEF Fulfils
    <2>3. CASE v \in Swap /\ stage' \in RepairStage + 1 .. LastStage
      <3>1. stage \in RepairStage .. LastStage
        BY <1>1, <1>3, <2>1, <2>3
      <3> QED BY <1>1, <2>3, <3>1, SoFar
    <2>4. CASE v \in Orphans /\ stage' = LastStage
      BY <1>1, <1>2, <2>4 DEF Fulfils
    <2> QED BY <1>3, <2>1, <2>2, <2>3, <2>4
  <1>16. RevisionGoals'
    BY <1>1, <1>2 DEF RevisionGoals, Starts, Records
  <1>17. Served'
    BY <1>3 DEF Served
  <1>18. Alone'
    BY <1>1 DEF Alone
  <1> QED BY <1>6, <1>7, <1>8, <1>9, <1>10, <1>11, <1>12, <1>13, <1>14, <1>15, <1>16, <1>17, <1>18 DEF IInv

-----------------------------------------------------------------------------
(* The scripts of the revisions *)

\* The database has what the chain makes up to revision n.
Reached(db, n) ==
  /\ IsDb(db)
  /\ \A t \in Tables, c \in Columns, m \in 1 .. Newest :
       <<t, c, m>> \in Later /\ m <= n => There(db, t, c)
  /\ \A t \in DOMAIN Since : Since[t] <= n => Has(db, t)

\* The columns of revision n for table t
New(t, n) == {c \in Columns : <<t, c, n>> \in Later}

\* The script makes what is new in revision n, and nothing else.
Extends(s, db, n) ==
  /\ s \in Seq(Statements) /\ WellFormed(s)
  /\ \A i \in DOMAIN s :
       s[i].do \in {"create", "copy", "drop", "rename", "add", "add_if_missing", "correct",
                    "version", "commit"}
  /\ \A i \in DOMAIN s : s[i].do = "version" => s[i] = Version(n)
  /\ \E i \in DOMAIN s : s[i].do = "version"
  /\ \A i \in DOMAIN s : i = 1 => s[i].do \notin {"copy", "drop", "rename"}
  /\ \A i \in DOMAIN s : s[i].do = "create" /\ s[i].table \in Tables =>
       /\ s[i].table \in DOMAIN Since /\ Since[s[i].table] = n
       /\ s[i].cols = {}
       /\ s[i].table \in Optional => ~Has(db, s[i].table)
  /\ \A i \in DOMAIN s : s[i].do = "create" /\ s[i].table \notin Tables =>
       \E t \in Tables :
         /\ s[i + 1] = Copy(t, s[i].table) /\ s[i].table # "credentials_new"
         /\ Has(db, t) /\ s[i].cols = db.def[t] \union New(t, n) /\ New(t, n) \subseteq Flags
  /\ \A i \in DOMAIN s : s[i].do = "rename" => Has(db, s[i].new)
  /\ \A i, j \in DOMAIN s :
       s[i].do = "create" /\ s[j].do = "create" /\ s[i].table = s[j].table => i = j
  /\ \A i \in DOMAIN s : s[i].do \in {"add", "add_if_missing"} =>
       <<s[i].table, s[i].col, n>> \in Later
  /\ \A i \in DOMAIN s : s[i].do = "add_if_missing" => Has(db, s[i].table)
  /\ \A i \in DOMAIN s : s[i].do = "add" =>
       Has(db, s[i].table) \/ \E j \in 1 .. i - 1 : s[j].do = "create" /\ s[j].table = s[i].table
  /\ \A i, j \in DOMAIN s :
       s[i].do \in {"add", "add_if_missing"} /\ s[j].do \in {"add", "add_if_missing"}
         /\ s[i].table = s[j].table /\ s[i].col = s[j].col => i = j
  /\ \A t \in Tables, c \in Columns : <<t, c, n>> \in Later => Due(db, s, t, c)
  /\ \A t \in DOMAIN Since : Since[t] = n => TableDue(db, s, t)

\* The chain adds every column once.
LEMMA LaterOnce ==
  /\ \A t, c, m, n : <<t, c, m>> \in Later /\ <<t, c, n>> \in Later => m = n
  /\ \A t, c, n : <<t, c, n>> \in Later => t \in Tables /\ c \in Columns /\ n \in 1 .. Newest
  /\ \A c, n : <<"credentials", c, n>> \in Later => c \in Models["credentials"]
  /\ \A t \in DOMAIN Since : t \in Tables /\ Since[t] \in 1 .. Newest
  <1>1. \A t, c, m, n : <<t, c, m>> \in Later /\ <<t, c, n>> \in Later => m = n
    <2> DEFINE R == [group |-> 2, proxy_host |-> 4, proxy_port |-> 4, proxy_credential_id |-> 5,
                     destination_ids |-> 6, backup_engine |-> 6, notification_ids |-> 6,
                     username_NULL |-> 7, on_config_change |-> 9, is_critical |-> 9,
                     monitoring_interval |-> 9, location_id |-> 10, description |-> 11,
                     destination_ids_override |-> 12, AUTOINCREMENT |-> 16]
    <2>1. \A t, c, n : <<t, c, n>> \in Later => n = R[c]
      BY DEF Later
    <2> HIDE DEF R
    <2> QED BY <2>1
  <1>2. \A t, c, n : <<t, c, n>> \in Later => t \in Tables /\ n \in 1 .. Newest
    BY DEF Later, Tables, Models, Newest
  <1>3. \A t, c, n : <<t, c, n>> \in Later => c \in Columns
    <2> DEFINE C == {"group", "proxy_host", "proxy_port", "proxy_credential_id", "destination_ids",
                     "backup_engine", "notification_ids", "username_NULL", "on_config_change",
                     "is_critical", "monitoring_interval", "location_id", "description",
                     "destination_ids_override", "AUTOINCREMENT"}
    <2>1. \A t, c, n : <<t, c, n>> \in Later => c \in C
      BY DEF Later
    <2>2. \A c \in C : c = "location_id" \/ \E t \in Tables : c \in Models[t]
      BY DEF Tables, Models
    <2>3. \A t \in Tables : Models[t] \subseteq Columns
      BY NamesAre
    <2>4. "location_id" \in Columns
      BY DEF Columns
    <2> HIDE DEF C
    <2> QED BY <2>1, <2>2, <2>3, <2>4
  <1>4. \A c, n : <<"credentials", c, n>> \in Later => c \in Models["credentials"]
    BY DEF Later, Models
  <1>5. \A t \in DOMAIN Since : t \in Tables /\ Since[t] \in 1 .. Newest
    BY DEF Since, Tables, Models, Newest
  <1> QED BY <1>1, <1>2, <1>3, <1>4, <1>5

\* Such a script suits the database, and when it is through, everything up to revision n is there.
LEMMA ExtendsGoals ==
  ASSUME NEW s, NEW db, NEW n \in 1 .. Newest, Extends(s, db, n), Reached(db, n - 1)
  PROVE /\ Suits(db, s, FALSE)
        /\ \A t \in Tables, c \in Columns, m \in 1 .. Newest :
             <<t, c, m>> \in Later /\ m <= n => Due(db, s, t, c)
        /\ \A t \in DOMAIN Since : Since[t] <= n => TableDue(db, s, t)
  <1>1. Suits(db, s, FALSE)
    <2>1. s # <<>> => 1 \in DOMAIN s
      BY DEF Extends
    <2>2. 1 \in DOMAIN s => s[1].do \notin {"copy", "drop", "rename"}
      BY DEF Extends
    <2>3. \A t, x : 1 \in DOMAIN s => s[1] # Copy(t, x)
      BY <2>2 DEF Copy
    <2>4. \A t, x : 1 \in DOMAIN s => s[1] # Drop(t)
      BY <2>2 DEF Drop
    <2>5. \A t, x : 1 \in DOMAIN s => s[1] # Rename(x, t)
      BY <2>2 DEF Rename
    <2>6. ASSUME NEW i \in DOMAIN s, s[i].do = "create", s[i].table \notin Tables,
                 NEW t \in Tables, s[i + 1] = Copy(t, s[i].table)
          PROVE db.def[t] \subseteq s[i].cols
      <3>1. PICK u \in Tables : s[i + 1] = Copy(u, s[i].table)
                                /\ s[i].cols = db.def[u] \union New(u, n)
        BY <2>6 DEF Extends
      <3>2. u = t
        BY <2>6, <3>1 DEF Copy
      <3> QED BY <3>1, <3>2
    <2> QED BY <2>1, <2>3, <2>4, <2>5, <2>6 DEF Suits
  <1>2. ASSUME NEW t \in Tables, NEW c \in Columns, NEW m \in 1 .. Newest,
               <<t, c, m>> \in Later, m <= n
        PROVE Due(db, s, t, c)
    <2>1. CASE m = n
      BY <1>2, <2>1 DEF Extends
    <2>2. CASE m <= n - 1
      BY <1>2, <2>2 DEF Reached, Due, ColumnDue
    <2> QED BY <1>2, <2>1, <2>2
  <1>3. ASSUME NEW t \in DOMAIN Since, Since[t] <= n
        PROVE TableDue(db, s, t)
    <2>0. Since[t] \in 1 .. Newest
      BY LaterOnce
    <2>1. CASE Since[t] = n
      BY <2>1 DEF Extends
    <2>2. CASE Since[t] <= n - 1
      BY <2>2 DEF Reached, TableDue
    <2> QED BY <1>3, <2>0, <2>1, <2>2
  <1> QED BY <1>1, <1>2, <1>3

\* It gives the credentials only columns of the model.
LEMMA ExtendsKnown ==
  ASSUME NEW s, NEW db, NEW n \in 1 .. Newest, Extends(s, db, n),
         Has(db, "credentials") => db.def["credentials"] \subseteq Models["credentials"]
  PROVE KnownColumns(s)
  <1>1. ASSUME NEW i \in DOMAIN s, s[i].do = "create", s[i].table \in CredentialTables
        PROVE s[i].cols \subseteq Models["credentials"]
    <2>1. CASE s[i].table \in Tables
      BY <1>1, <2>1 DEF Extends
    <2>2. CASE s[i].table \notin Tables
      <3>1. PICK t \in Tables : /\ s[i + 1] = Copy(t, s[i].table) /\ Has(db, t)
                                /\ s[i].cols = db.def[t] \union New(t, n)
        BY <1>1, <2>2 DEF Extends
      <3>2. PICK u \in Tables : s[i].table \in Spares(u) /\ s[i + 1] = Copy(u, s[i].table)
        BY <1>1, <2>2 DEF Extends, WellFormed, InARow
      <3>3. u = t
        BY <3>1, <3>2 DEF Copy
      <3>4. t = "credentials"
        BY <1>1, <2>2, <3>2, <3>3, NamesAre, SparesAre DEF CredentialTables
      <3>5. New(t, n) \subseteq Models["credentials"]
        BY <3>4, LaterOnce DEF New
      <3> QED BY <3>1, <3>4, <3>5
    <2> QED BY <2>1, <2>2
  <1>2. ASSUME NEW i \in DOMAIN s, s[i].do \in {"add", "add_if_missing"}, s[i].table = "credentials"
        PROVE s[i].col \in Models["credentials"]
    BY <1>2, LaterOnce DEF Extends
  <1>3. \A i \in DOMAIN s : s[i].do # "create_if_missing"
    BY DEF Extends
  <1> QED BY <1>1, <1>2, <1>3 DEF KnownColumns

\* It finds what it needs in a database that the chain alone has made,
LEMMA ExtendsFits ==
  ASSUME NEW s, NEW db, NEW n \in 1 .. Newest, Extends(s, db, n), NoExtras(db, <<>>, n - 1)
  PROVE Fits(db, s)
  <1>1. \A t \in Tables, c \in Columns : There(db, t, c) => \E m \in 1 .. n - 1 : <<t, c, m>> \in Later
    BY DEF NoExtras, Due, ColumnDue
  <1>2. \A t \in Tables : Has(db, t) => t \in DOMAIN Since /\ (Since[t] <= n - 1 \/ t \in Optional)
    BY DEF NoExtras, TableDue
  <1>3. \A x \in DOMAIN db.def : x \in Tables
    BY DEF NoExtras
  <1>4. ASSUME NEW i \in DOMAIN s, s[i].do = "add"
        PROVE /\ ~There(db, s[i].table, s[i].col)
              /\ Has(db, s[i].table) \/ \E j \in 1 .. i - 1 : s[j].do = "create" /\ s[j].table = s[i].table
              /\ \A j \in DOMAIN s : s[j].do \in {"add", "add_if_missing"} /\ s[j].table = s[i].table
                                       /\ s[j].col = s[i].col => j = i
              /\ \A j \in DOMAIN s : s[j].do = "create" /\ s[j].table = s[i].table => s[i].col \notin s[j].cols
    <2>1. <<s[i].table, s[i].col, n>> \in Later
      BY <1>4 DEF Extends
    <2>2. s[i].table \in Tables /\ s[i].col \in Columns
      BY <2>1, LaterOnce
    <2>3. ~There(db, s[i].table, s[i].col)
      <3> SUFFICES ASSUME There(db, s[i].table, s[i].col)
            PROVE FALSE
        OBVIOUS
      <3>1. PICK m \in 1 .. n - 1 : <<s[i].table, s[i].col, m>> \in Later
        BY <1>1, <2>2
      <3>2. m = n
        BY <2>1, <3>1, LaterOnce
      <3> QED BY <3>1, <3>2
    <2>4. \A j \in DOMAIN s : s[j].do = "create" /\ s[j].table = s[i].table => s[i].col \notin s[j].cols
      BY <2>2 DEF Extends
    <2>5. \A j \in DOMAIN s : s[j].do \in {"add", "add_if_missing"} /\ s[j].table = s[i].table
                                       /\ s[j].col = s[i].col => j = i
      BY <1>4 DEF Extends
    <2>6. Has(db, s[i].table) \/ \E j \in 1 .. i - 1 : s[j].do = "create" /\ s[j].table = s[i].table
      BY <1>4 DEF Extends
    <2> QED BY <2>3, <2>4, <2>5, <2>6
  <1>5. ASSUME NEW i \in DOMAIN s, s[i].do = "create"
        PROVE /\ ~Has(db, s[i].table)
              /\ \A j \in DOMAIN s : s[j].do = "create" /\ s[j].table = s[i].table => j = i
              /\ s[i].table \notin Tables => \A t \in Tables : s[i + 1] = Copy(t, s[i].table) =>
                   Has(db, t) /\ s[i].cols \ Flags \subseteq db.def[t]
    <2>1. ~Has(db, s[i].table)
      <3>1. CASE s[i].table \in Tables
        <4>1. Since[s[i].table] = n /\ (s[i].table \in Optional => ~Has(db, s[i].table))
          BY <1>5, <3>1 DEF Extends
        <4>2. ~(n <= n - 1)
          OBVIOUS
        <4> QED BY <1>2, <3>1, <4>1, <4>2
      <3>2. CASE s[i].table \notin Tables
        BY <1>3, <3>2 DEF Has
      <3> QED BY <3>1, <3>2
    <2>2. \A j \in DOMAIN s : s[j].do = "create" /\ s[j].table = s[i].table => j = i
      BY <1>5 DEF Extends
    <2>3. ASSUME s[i].table \notin Tables, NEW t \in Tables, s[i + 1] = Copy(t, s[i].table)
          PROVE Has(db, t) /\ s[i].cols \ Flags \subseteq db.def[t]
      <3>1. PICK u \in Tables : /\ s[i + 1] = Copy(u, s[i].table) /\ Has(db, u)
                                /\ s[i].cols = db.def[u] \union New(u, n) /\ New(u, n) \subseteq Flags
        BY <1>5, <2>3 DEF Extends
      <3>2. u = t
        BY <2>3, <3>1 DEF Copy
      <3> QED BY <3>1, <3>2
    <2> QED BY <2>1, <2>2, <2>3
  <1>6. \A i \in DOMAIN s : s[i].do = "add_if_missing" => Has(db, s[i].table)
    BY DEF Extends
  <1>7. \A i \in DOMAIN s : i = 1 => s[1].do \notin {"copy", "drop", "rename"}
    BY DEF Extends
  <1> QED BY <1>4, <1>5, <1>6, <1>7 DEF Fits

\* and leaves such a database again.
LEMMA ExtendsNoExtras ==
  ASSUME NEW s, NEW db, NEW n \in 1 .. Newest, Extends(s, db, n), NoExtras(db, <<>>, n - 1)
  PROVE NoExtras(db, s, n)
  <1>1. \A t \in Tables, c \in Columns : There(db, t, c) => \E m \in 1 .. n : <<t, c, m>> \in Later
    <2> TAKE t \in Tables, c \in Columns
    <2> HAVE There(db, t, c)
    <2>1. PICK m \in 1 .. n - 1 : <<t, c, m>> \in Later
      BY DEF NoExtras, Due, ColumnDue
    <2>2. m \in 1 .. n
      OBVIOUS
    <2> QED BY <2>1, <2>2
  <1>2. \A t \in Tables : Has(db, t) => t \in DOMAIN Since /\ (Since[t] <= n \/ t \in Optional)
    <2> TAKE t \in Tables
    <2> HAVE Has(db, t)
    <2>1. t \in DOMAIN Since /\ (Since[t] <= n - 1 \/ t \in Optional)
      BY DEF NoExtras, TableDue
    <2>2. Since[t] \in 1 .. Newest
      BY <2>1, LaterOnce
    <2> QED BY <2>1, <2>2
  <1>3. \A x \in DOMAIN db.def : x \in Tables
    BY DEF NoExtras
  <1>4. n \in 1 .. n
    OBVIOUS
  <1>5. \A i \in DOMAIN s : s[i].do # "create_if_missing"
    BY DEF Extends
  <1>6. ASSUME NEW t \in Tables, NEW c \in Columns, Due(db, s, t, c)
        PROVE \E m \in 1 .. n : <<t, c, m>> \in Later
    <2>1. CASE There(db, t, c)
      BY <1>1, <2>1
    <2>2. ASSUME NEW x, NEW i \in DOMAIN s, s[i] = Add(x, c) \/ s[i] = AddIfMissing(x, c),
                 x = t \/ x \in Spares(t)
          PROVE <<t, c, n>> \in Later
      <3>1. s[i].do \in {"add", "add_if_missing"} /\ s[i].table = x /\ s[i].col = c
        <4>1. CASE s[i] = Add(x, c)
          BY <4>1 DEF Add
        <4>2. CASE s[i] = AddIfMissing(x, c)
          BY <4>2 DEF AddIfMissing
        <4> QED BY <2>2, <4>1, <4>2
      <3>2. <<x, c, n>> \in Later
        BY <3>1 DEF Extends
      <3>3. x \in Tables
        BY <3>2, LaterOnce
      <3> QED BY <2>2, <3>2, <3>3, SparesAre
    <2>3. ASSUME NEW i \in DOMAIN s, s[i].do = "create", s[i].table = t, c \in s[i].cols
          PROVE FALSE
      BY <2>3 DEF Extends
    <2>4. ASSUME NEW x \in Spares(t), NEW i \in DOMAIN s, s[i].do = "create", s[i].table = x,
                 c \in s[i].cols
          PROVE \E m \in 1 .. n : <<t, c, m>> \in Later
      <3>1. x \notin Tables
        BY SparesAre
      <3>2. PICK u \in Tables : /\ s[i + 1] = Copy(u, s[i].table) /\ Has(db, u)
                                /\ s[i].cols = db.def[u] \union New(u, n)
        BY <2>4, <3>1 DEF Extends
      <3>3. PICK v \in Tables : s[i].table \in Spares(v) /\ s[i + 1] = Copy(v, s[i].table)
        BY <2>4, <3>1 DEF Extends, WellFormed, InARow
      <3>4. u = v
        BY <3>2, <3>3 DEF Copy
      <3>5. u = t
        BY <2>4, <3>3, <3>4, SparesAre
      <3>6. CASE c \in db.def[t]
        BY <1>1, <3>2, <3>5, <3>6 DEF There
      <3>7. CASE c \in New(t, n)
        BY <1>4, <3>7 DEF New
      <3> QED BY <2>4, <3>2, <3>5, <3>6, <3>7
    <2>5. \A x \in Spares(t) : ~There(db, x, c)
      BY <1>3, SparesAre DEF There, Has
    <2> QED BY <1>4, <1>6, <2>1, <2>2, <2>3, <2>4, <2>5 DEF Due, ColumnDue
  <1>7. ASSUME NEW t \in Tables, TableDue(db, s, t)
        PROVE t \in DOMAIN Since /\ (Since[t] <= n \/ t \in Optional)
    <2>1. CASE Has(db, t)
      BY <1>2, <2>1
    <2>2. CASE Creates(s, t)
      <3>1. PICK i \in DOMAIN s : s[i].do = "create" /\ s[i].table = t
        BY <1>5, <2>2 DEF Creates
      <3>2. t \in DOMAIN Since /\ Since[t] = n
        BY <3>1 DEF Extends
      <3> QED BY <3>2
    <2>3. CASE Rebuilt(s, t)
      <3>1. Has(db, t)
        <4>1. PICK i \in DOMAIN s : s[i].do = "rename" /\ s[i].new = t
          BY <2>3 DEF Rebuilt
        <4> QED BY <4>1 DEF Extends
      <3> QED BY <1>2, <3>1
    <2> QED BY <1>7, <2>1, <2>2, <2>3 DEF TableDue
  <1>8. \A x \in DOMAIN db.def : x \notin Tables => \E i \in DOMAIN s, t \in Tables : s[i] = Rename(x, t)
    BY <1>3
  <1> QED BY <1>6, <1>7, <1>8 DEF NoExtras

\* A revision that only creates tables and adds columns
Makes(s, db, n) ==
  \A i \in DOMAIN s :
    \/ /\ s[i].do = "create" /\ s[i].cols = {}
       /\ s[i].table \in DOMAIN Since /\ Since[s[i].table] = n
       /\ s[i].table \in Optional => ~Has(db, s[i].table)
    \/ /\ s[i].do = "add" /\ <<s[i].table, s[i].col, n>> \in Later
       /\ \/ Has(db, s[i].table)
          \/ \E j \in 1 .. i - 1 : s[j].do = "create" /\ s[j].table = s[i].table
    \/ s[i].do = "correct" /\ s[i].value = "config_json"
Once(s) ==
  \A i, j \in DOMAIN s :
    /\ s[i].do = "create" /\ s[j].do = "create" /\ s[i].table = s[j].table => i = j
    /\ s[i].do = "add" /\ s[j].do = "add" /\ s[i].table = s[j].table /\ s[i].col = s[j].col => i = j
Covers(s, db, n) ==
  /\ \A t, c : <<t, c, n>> \in Later => (\E i \in DOMAIN s : s[i] = Add(t, c)) \/ There(db, t, c)
  /\ \A t \in DOMAIN Since : Since[t] = n =>
       (\E i \in DOMAIN s : s[i].do = "create" /\ s[i].table = t) \/ Has(db, t)
Simple(s, db, n) == s \in Seq(Statements) /\ Makes(s, db, n) /\ Once(s) /\ Covers(s, db, n)

\* The script of a revision records it at its end.
Recording(s, n) == s \o <<Version(n), Commit>>

\* The record comes after the statements of the revision.
LEMMA RecordingIs ==
  ASSUME NEW s \in Seq(Statements), NEW n \in 1 .. Newest
  PROVE LET r == Recording(s, n)
        IN /\ r \in Seq(Statements) /\ Len(r) = Len(s) + 2 /\ Len(r) \in Nat
           /\ DOMAIN r = 1 .. Len(r) /\ DOMAIN r = DOMAIN s \union {Len(s) + 1, Len(s) + 2}
           /\ \A i \in DOMAIN s : r[i] = s[i] /\ i < Len(s) + 1
           /\ r[Len(s) + 1] = Version(n) /\ r[Len(s) + 2] = Commit
           /\ r[Len(s) + 1].do = "version" /\ r[Len(s) + 2].do = "commit"
  <1> DEFINE r == Recording(s, n)
  <1>1. Version(n) \in Statements /\ Commit \in Statements
    BY StatementTypes
  <1>2. r \in Seq(Statements) /\ Len(r) = Len(s) + 2 /\ DOMAIN r = 1 .. Len(r) /\ Len(r) \in Nat
    BY <1>1 DEF Recording
  <1>3. \A i \in DOMAIN s : r[i] = s[i] /\ i < Len(s) + 1
    BY <1>1 DEF Recording
  <1>4. r[Len(s) + 1] = Version(n) /\ r[Len(s) + 2] = Commit
    BY <1>1 DEF Recording
  <1>5. DOMAIN r = DOMAIN s \union {Len(s) + 1, Len(s) + 2}
    BY <1>2
  <1>6. Version(n).do = "version" /\ Commit.do = "commit"
    BY DEF Version, Commit
  <1> QED BY <1>2, <1>3, <1>4, <1>5, <1>6

\* A simple revision, with its record, extends the database by what is new.
LEMMA SimpleExtends ==
  ASSUME NEW s, NEW db, NEW n \in 1 .. Newest, Simple(s, db, n)
  PROVE Extends(Recording(s, n), db, n)
  <1> DEFINE r == Recording(s, n)
             m == Len(s) + 1
  <1>1. /\ r \in Seq(Statements) /\ Len(r) = m + 1 /\ Len(r) \in Nat /\ DOMAIN r = 1 .. Len(r)
        /\ DOMAIN r = DOMAIN s \union {m, m + 1}
        /\ \A i \in DOMAIN s : r[i] = s[i] /\ i < m
        /\ r[m] = Version(n) /\ r[m + 1] = Commit
        /\ r[m].do = "version" /\ r[m + 1].do = "commit"
        /\ DOMAIN s = 1 .. Len(s) /\ Len(s) \in Nat
    <2>1. s \in Seq(Statements)
      BY DEF Simple
    <2>2. Len(s) \in Nat /\ DOMAIN s = 1 .. Len(s)
      BY <2>1
    <2>3. Len(s) + 2 = m + 1
      BY <2>2
    <2>4. /\ r \in Seq(Statements) /\ Len(r) = Len(s) + 2 /\ Len(r) \in Nat
          /\ DOMAIN r = 1 .. Len(r) /\ DOMAIN r = DOMAIN s \union {Len(s) + 1, Len(s) + 2}
          /\ \A i \in DOMAIN s : r[i] = s[i] /\ i < Len(s) + 1
          /\ r[Len(s) + 1] = Version(n) /\ r[Len(s) + 2] = Commit
          /\ r[Len(s) + 1].do = "version" /\ r[Len(s) + 2].do = "commit"
      BY <2>1, RecordingIs
    <2> HIDE DEF r
    <2> QED BY <2>2, <2>3, <2>4
  <1> HIDE DEF r, m
  <1>2. \A i \in DOMAIN s : s[i].do \in {"create", "add", "correct"}
    BY DEF Simple, Makes
  <1>3. \A i \in DOMAIN r : r[i].do \in {"create", "add", "correct", "version", "commit"}
    BY <1>1, <1>2
  <1>4. \A i \in DOMAIN r : r[i].do \in {"create", "add", "correct"} => i \in DOMAIN s /\ r[i] = s[i]
    BY <1>1
  <1>5. \A i \in DOMAIN r :
          /\ r[i].do = "create" => /\ r[i].cols = {} /\ r[i].table \in DOMAIN Since
                                   /\ Since[r[i].table] = n
                                   /\ r[i].table \in Optional => ~Has(db, r[i].table)
          /\ r[i].do = "add" => <<r[i].table, r[i].col, n>> \in Later
          /\ r[i].do = "correct" => r[i].value = "config_json"
    BY <1>4 DEF Simple, Makes
  <1>6. \A i \in DOMAIN r : r[i].do = "version" => r[i] = Version(n) /\ i = m
    BY <1>1, <1>2
  <1>7. \A i \in DOMAIN r : r[i].do \in {"create", "add"} => r[i].table \in Tables
    BY <1>5, LaterOnce
  <1>8. Plain(r)
    BY <1>3, <1>7 DEF Plain
  <1>9. Closes(r)
    <2>1. m = Len(r) - 1
      BY <1>1 DEF m
    <2>2. r[Len(r)] = Commit
      BY <1>1
    <2> QED BY <1>3, <1>6, <2>1, <2>2 DEF Closes
  <1>10. Swaps(r)
    <2>1. Correct("updated_at").do = "correct" /\ Correct("updated_at").value = "updated_at"
      BY DEF Correct
    <2> QED BY <1>5, <2>1 DEF Swaps
  <1>11. WellFormed(r)
    BY <1>1, <1>8, <1>9, <1>10, PlainScripts DEF WellFormed
  <1>12. \A i \in DOMAIN r : r[i].do = "add" =>
           Has(db, r[i].table) \/ \E j \in 1 .. i - 1 : r[j].do = "create" /\ r[j].table = r[i].table
    <2> TAKE i \in DOMAIN r
    <2> HAVE r[i].do = "add"
    <2>1. i \in DOMAIN s /\ r[i] = s[i]
      BY <1>4
    <2>2. Has(db, s[i].table) \/ \E j \in 1 .. i - 1 : s[j].do = "create" /\ s[j].table = s[i].table
      BY <2>1 DEF Simple, Makes
    <2>3. \A j \in 1 .. i - 1 : j \in DOMAIN s
      BY <1>1, <2>1
    <2> QED BY <1>1, <2>1, <2>2, <2>3
  <1>13. \A t \in Tables, c \in Columns : <<t, c, n>> \in Later => Due(db, r, t, c)
    <2> TAKE t \in Tables, c \in Columns
    <2> HAVE <<t, c, n>> \in Later
    <2>1. There(db, t, c) \/ \E i \in DOMAIN s : s[i] = Add(t, c)
      BY DEF Simple, Covers
    <2>2. There(db, t, c) \/ \E i \in DOMAIN r : r[i] = Add(t, c)
      BY <1>1, <2>1
    <2> QED BY <2>2 DEF Due, ColumnDue
  <1>14. \A t \in DOMAIN Since : Since[t] = n => TableDue(db, r, t)
    <2> TAKE t \in DOMAIN Since
    <2> HAVE Since[t] = n
    <2>1. Has(db, t) \/ \E i \in DOMAIN s : s[i].do = "create" /\ s[i].table = t
      BY DEF Simple, Covers
    <2>2. Has(db, t) \/ \E i \in DOMAIN r : r[i].do = "create" /\ r[i].table = t
      BY <1>1, <2>1
    <2> QED BY <2>2 DEF TableDue, Creates
  <1>15. \A i, j \in DOMAIN r :
           r[i].do = "create" /\ r[j].do = "create" /\ r[i].table = r[j].table => i = j
    BY <1>4 DEF Simple, Once
  <1>16. \A i, j \in DOMAIN r :
           r[i].do = "add" /\ r[j].do = "add" /\ r[i].table = r[j].table /\ r[i].col = r[j].col => i = j
    BY <1>4 DEF Simple, Once
  <1> QED BY <1>1, <1>3, <1>5, <1>6, <1>7, <1>11, <1>12, <1>13, <1>14, <1>15, <1>16 DEF Extends, r

\* The statements of the chain name tables and columns of the models.
LEMMA ChainTyped ==
  /\ \A t \in Tables : Create(t, {}) \in Statements
  /\ \A t, c, n : <<t, c, n>> \in Later => Add(t, c) \in Statements /\ AddIfMissing(t, c) \in Statements
  /\ Correct("config_json") \in Statements
  <1>1. \A t \in Tables : t \in Names /\ {} \in SUBSET Columns
    BY NamesAre
  <1>2. \A t \in Tables : Create(t, {}) \in Statements
    BY <1>1, StatementTypes
  <1>3. \A t, c, n : <<t, c, n>> \in Later => t \in Names /\ c \in Columns
    BY <1>1, LaterOnce
  <1>4. \A t, c, n : <<t, c, n>> \in Later => Add(t, c) \in Statements /\ AddIfMissing(t, c) \in Statements
    BY <1>3, StatementTypes
  <1> QED BY <1>2, <1>4, StatementTypes

\* Revision 1 makes the first six tables.
LEMMA Revision1 ==
  ASSUME NEW db
  PROVE Simple(InitialSchema, db, 1)
  <1> DEFINE s == InitialSchema
             N == {"credentials", "destinations", "job_runs", "schedules", "devices", "backups"}
  <1>1. \A t \in DOMAIN Since : t \in Tables /\ (Since[t] = 1 <=> t \in N) /\ (t \in N => t \notin Optional)
    BY DEF Since, Optional, Tables, Models
  <1>2. N \subseteq DOMAIN Since
    BY DEF Since
  <1>3. s \in Seq(Statements)
    <2>1. \A t \in N : Create(t, {}) \in Statements
      BY <1>1, <1>2, ChainTyped
    <2> QED BY <2>1 DEF InitialSchema
  <1>4. /\ DOMAIN s = 1 .. 6
        /\ \A i \in 1 .. 6 : s[i].do = "create" /\ s[i].cols = {}
        /\ s[1].table = "credentials" /\ s[2].table = "destinations" /\ s[3].table = "job_runs"
        /\ s[4].table = "schedules" /\ s[5].table = "devices" /\ s[6].table = "backups"
    BY DEF InitialSchema, Create
  <1> HIDE DEF s
  <1>5. \A t, c : <<t, c, 1>> \notin Later
    BY DEF Later
  <1>6. Makes(s, db, 1)
    BY <1>1, <1>2, <1>4 DEF Makes
  <1>7. Once(s)
    BY <1>4 DEF Once
  <1>8. Covers(s, db, 1)
    BY <1>1, <1>4, <1>5 DEF Covers
  <1> QED BY <1>3, <1>6, <1>7, <1>8 DEF Simple, s

\* Revision 2 makes the groups and the column for those of credentials.
LEMMA Revision2 ==
  ASSUME NEW db, Reached(db, 1)
  PROVE Simple(AddGroups, db, 2)
  <1> DEFINE s == AddGroups
  <1>1. \A t \in DOMAIN Since : t \in Tables /\ (Since[t] = 2 <=> t = "groups")
    BY DEF Since, Tables, Models
  <1>2. "groups" \in DOMAIN Since /\ "groups" \notin Optional /\ Has(db, "credentials")
    BY DEF Since, Optional, Reached
  <1>3. \A t, c : <<t, c, 2>> \in Later <=> t = "credentials" /\ c = "group"
    BY DEF Later
  <1>4. s \in Seq(Statements)
    <2>1. Create("groups", {}) \in Statements /\ Add("credentials", "group") \in Statements
      BY <1>1, <1>2, <1>3, ChainTyped
    <2> QED BY <2>1 DEF AddGroups
  <1>5. /\ DOMAIN s = 1 .. 2 /\ s[2] = Add("credentials", "group")
        /\ s[1].do = "create" /\ s[1].cols = {} /\ s[1].table = "groups"
        /\ s[2].do = "add" /\ s[2].table = "credentials" /\ s[2].col = "group"
    BY DEF AddGroups, Create, Add
  <1> HIDE DEF s
  <1>6. Makes(s, db, 2)
    BY <1>1, <1>2, <1>3, <1>5 DEF Makes
  <1>7. Once(s)
    BY <1>5 DEF Once
  <1>8. Covers(s, db, 2)
    BY <1>1, <1>3, <1>5 DEF Covers
  <1> QED BY <1>4, <1>6, <1>7, <1>8 DEF Simple, s

\* Revisions 3, 8 and 13 change no table.
LEMMA NothingNew ==
  ASSUME NEW db, NEW n \in {3, 8, 13}, NEW s \in {<<>>, <<Correct("config_json")>>}
  PROVE Simple(s, db, n)
  <1>1. \A t \in DOMAIN Since : Since[t] # n
    BY DEF Since
  <1>2. \A t, c : <<t, c, n>> \notin Later
    BY DEF Later
  <1>3. s \in Seq(Statements)
    <2>1. CASE s = <<>>
      BY <2>1
    <2>2. CASE s = <<Correct("config_json")>>
      <3>1. Correct("config_json") \in Statements
        BY ChainTyped
      <3> QED BY <2>2, <3>1
    <2> QED BY <2>1, <2>2
  <1>4. \A i \in DOMAIN s : s[i].do = "correct" /\ s[i].value = "config_json"
    BY DEF Correct
  <1> QED BY <1>1, <1>2, <1>3, <1>4 DEF Simple, Makes, Once, Covers

\* Revision 4 adds two columns to the devices.
LEMMA Revision4 ==
  ASSUME NEW db, Reached(db, 3)
  PROVE Simple(AddProxy, db, 4)
  <1> DEFINE s == AddProxy
  <1>1. \A t \in DOMAIN Since : Since[t] # 4
    BY DEF Since
  <1>2. Has(db, "devices")
    BY DEF Since, Reached
  <1>3. \A t, c : <<t, c, 4>> \in Later <=> t = "devices" /\ c \in {"proxy_host", "proxy_port"}
    BY DEF Later
  <1>4. s \in Seq(Statements)
    <2>1. Add("devices", "proxy_host") \in Statements /\ Add("devices", "proxy_port") \in Statements
      BY <1>3, ChainTyped
    <2> QED BY <2>1 DEF AddProxy
  <1>5. /\ DOMAIN s = 1 .. 2
        /\ s[1] = Add("devices", "proxy_host") /\ s[2] = Add("devices", "proxy_port")
        /\ s[1].do = "add" /\ s[1].table = "devices" /\ s[1].col = "proxy_host"
        /\ s[2].do = "add" /\ s[2].table = "devices" /\ s[2].col = "proxy_port"
    BY DEF AddProxy, Add
  <1> HIDE DEF s
  <1>6. Makes(s, db, 4)
    BY <1>2, <1>3, <1>5 DEF Makes
  <1>7. Once(s)
    BY <1>5 DEF Once
  <1>8. Covers(s, db, 4)
    BY <1>1, <1>3, <1>5 DEF Covers
  <1> QED BY <1>4, <1>6, <1>7, <1>8 DEF Simple, s

\* Revisions 5, 11 and 12 add one column.
LEMMA OneColumn ==
  ASSUME NEW db, NEW n \in {5, 11, 12}, Reached(db, n - 1), NEW t, NEW c,
         <<n, t, c>> \in {<<5, "devices", "proxy_credential_id">>, <<11, "destinations", "description">>,
                          <<12, "devices", "destination_ids_override">>}
  PROVE Simple(<<Add(t, c)>>, db, n)
  <1> DEFINE s == <<Add(t, c)>>
  <1>1. \A u \in DOMAIN Since : Since[u] # n
    BY DEF Since
  <1>2. Has(db, t)
    <2>1. t \in DOMAIN Since /\ Since[t] <= n - 1
      BY DEF Since
    <2> QED BY <2>1 DEF Reached
  <1>3. \A u, d : <<u, d, n>> \in Later <=> u = t /\ d = c
    BY DEF Later
  <1>4. s \in Seq(Statements)
    <2>1. Add(t, c) \in Statements
      BY <1>3, ChainTyped
    <2> QED BY <2>1
  <1>5. /\ DOMAIN s = {1} /\ s[1] = Add(t, c)
        /\ s[1].do = "add" /\ s[1].table = t /\ s[1].col = c
    BY DEF Add
  <1> HIDE DEF s
  <1>6. Makes(s, db, n)
    BY <1>2, <1>3, <1>5 DEF Makes
  <1>7. Once(s)
    BY <1>5 DEF Once
  <1>8. Covers(s, db, n)
    BY <1>1, <1>3, <1>5 DEF Covers
  <1> QED BY <1>4, <1>6, <1>7, <1>8 DEF Simple, s

\* Revision 9 makes the notification channels unless they are there, and adds three columns.
LEMMA Revision9 ==
  ASSUME NEW db, Reached(db, 8)
  PROVE Simple(AddConfigChange(db), db, 9)
  <1> DEFINE s == AddConfigChange(db)
             N == "notification_channels"
  <1>1. \A t \in DOMAIN Since : t \in Tables /\ (Since[t] = 9 <=> t = N)
    BY DEF Since, Tables, Models
  <1>2. N \in DOMAIN Since /\ Has(db, "devices")
    BY DEF Since, Reached
  <1>3. \A t, c : <<t, c, 9>> \in Later <=> \/ t = N /\ c = "on_config_change"
                                            \/ t = "devices" /\ c \in {"is_critical", "monitoring_interval"}
    BY DEF Later
  <1>4. /\ Create(N, {}) \in Statements /\ Add(N, "on_config_change") \in Statements
        /\ Add("devices", "is_critical") \in Statements
        /\ Add("devices", "monitoring_interval") \in Statements
    BY <1>1, <1>2, <1>3, ChainTyped
  <1>5. CASE Has(db, N)
    <2>0. s = <<>> \o <<Add(N, "on_config_change"),
                Add("devices", "is_critical"), Add("devices", "monitoring_interval")>>
      BY <1>5 DEF AddConfigChange
    <2>1. s \in Seq(Statements)
      BY <1>4, <2>0
    <2>2. /\ DOMAIN s = 1 .. 3
          /\ s[1] = Add(N, "on_config_change") /\ s[2] = Add("devices", "is_critical")
          /\ s[3] = Add("devices", "monitoring_interval")
      BY <2>0
    <2> HIDE DEF s
    <2>3. /\ s[1].do = "add" /\ s[1].table = N /\ s[1].col = "on_config_change"
          /\ s[2].do = "add" /\ s[2].table = "devices" /\ s[2].col = "is_critical"
          /\ s[3].do = "add" /\ s[3].table = "devices" /\ s[3].col = "monitoring_interval"
      BY <2>2 DEF Add
    <2>4. Makes(s, db, 9)
      BY <1>2, <1>3, <1>5, <2>2, <2>3 DEF Makes
    <2>5. Once(s)
      BY <2>2, <2>3 DEF Once
    <2>6. Covers(s, db, 9)
      BY <1>1, <1>3, <1>5, <2>2 DEF Covers
    <2> QED BY <2>1, <2>4, <2>5, <2>6 DEF Simple, s
  <1>6. CASE ~Has(db, N)
    <2>0. s = <<Create(N, {})>> \o <<Add(N, "on_config_change"),
                Add("devices", "is_critical"), Add("devices", "monitoring_interval")>>
      BY <1>6 DEF AddConfigChange
    <2>1. s \in Seq(Statements)
      BY <1>4, <2>0
    <2>2. /\ DOMAIN s = 1 .. 4 /\ s[1] = Create(N, {})
          /\ s[2] = Add(N, "on_config_change") /\ s[3] = Add("devices", "is_critical")
          /\ s[4] = Add("devices", "monitoring_interval")
      BY <2>0
    <2> HIDE DEF s
    <2>3. /\ s[1].do = "create" /\ s[1].table = N /\ s[1].cols = {}
          /\ s[2].do = "add" /\ s[2].table = N /\ s[2].col = "on_config_change"
          /\ s[3].do = "add" /\ s[3].table = "devices" /\ s[3].col = "is_critical"
          /\ s[4].do = "add" /\ s[4].table = "devices" /\ s[4].col = "monitoring_interval"
      BY <2>2 DEF Add, Create
    <2>4. Makes(s, db, 9)
      BY <1>1, <1>2, <1>3, <1>6, <2>2, <2>3 DEF Makes
    <2>5. Once(s)
      BY <2>2, <2>3 DEF Once
    <2>6. Covers(s, db, 9)
      BY <1>1, <1>3, <2>2, <2>3 DEF Covers
    <2> QED BY <2>1, <2>4, <2>5, <2>6 DEF Simple, s
  <1> QED BY <1>5, <1>6

\* Revision 10 makes the locations and refers to them.
LEMMA Revision10 ==
  ASSUME NEW db, Reached(db, 9)
  PROVE Simple(AddLocations, db, 10)
  <1> DEFINE s == AddLocations
  <1>1. \A t \in DOMAIN Since : t \in Tables /\ (Since[t] = 10 <=> t = "locations")
    BY DEF Since, Tables, Models
  <1>2. "locations" \in DOMAIN Since /\ "locations" \notin Optional /\ Has(db, "groups") /\ Has(db, "devices")
    BY DEF Since, Optional, Reached
  <1>3. \A t, c : <<t, c, 10>> \in Later <=> t \in {"groups", "devices"} /\ c = "location_id"
    BY DEF Later
  <1>4. s \in Seq(Statements)
    <2>1. /\ Create("locations", {}) \in Statements /\ Add("groups", "location_id") \in Statements
          /\ Add("devices", "location_id") \in Statements
      BY <1>1, <1>2, <1>3, ChainTyped
    <2> QED BY <2>1 DEF AddLocations
  <1>5. /\ DOMAIN s = 1 .. 3
        /\ s[2] = Add("groups", "location_id") /\ s[3] = Add("devices", "location_id")
        /\ s[1].do = "create" /\ s[1].cols = {} /\ s[1].table = "locations"
        /\ s[2].do = "add" /\ s[2].table = "groups" /\ s[2].col = "location_id"
        /\ s[3].do = "add" /\ s[3].table = "devices" /\ s[3].col = "location_id"
    BY DEF AddLocations, Create, Add
  <1> HIDE DEF s
  <1>6. Makes(s, db, 10)
    BY <1>1, <1>2, <1>3, <1>5 DEF Makes
  <1>7. Once(s)
    BY <1>5 DEF Once
  <1>8. Covers(s, db, 10)
    BY <1>1, <1>3, <1>5 DEF Covers
  <1> QED BY <1>4, <1>6, <1>7, <1>8 DEF Simple, s

\* Revisions 14 and 15 create one table, the latter unless it is there.
LEMMA OneTable ==
  ASSUME NEW db, NEW n \in {14, 15}, NEW t, <<n, t>> \in {<<14, "backup_failures">>, <<15, "users">>},
         t = "users" => ~Has(db, t)
  PROVE Simple(<<Create(t, {})>>, db, n)
  <1> DEFINE s == <<Create(t, {})>>
  <1>1. \A u \in DOMAIN Since : u \in Tables /\ (Since[u] = n <=> u = t)
    BY DEF Since, Tables, Models
  <1>2. t \in DOMAIN Since /\ (t \in Optional => ~Has(db, t))
    BY DEF Since, Optional
  <1>3. \A u, c : <<u, c, n>> \notin Later
    BY DEF Later
  <1>4. s \in Seq(Statements)
    <2>1. Create(t, {}) \in Statements
      BY <1>1, <1>2, ChainTyped
    <2> QED BY <2>1
  <1>5. DOMAIN s = {1} /\ s[1].do = "create" /\ s[1].cols = {} /\ s[1].table = t
    BY DEF Create
  <1> HIDE DEF s
  <1>6. Makes(s, db, n)
    BY <1>1, <1>2, <1>5 DEF Makes
  <1>7. Once(s)
    BY <1>5 DEF Once
  <1>8. Covers(s, db, n)
    BY <1>1, <1>3, <1>5 DEF Covers
  <1> QED BY <1>4, <1>6, <1>7, <1>8 DEF Simple, s

\* Revisions 15 and 16 have nothing to do where their work is done.
LEMMA NothingMissing ==
  ASSUME NEW db, NEW n \in {15, 16}, n = 15 => Has(db, "users"),
         n = 16 => There(db, "users", "AUTOINCREMENT")
  PROVE Simple(<<>>, db, n)
  <1>1. \A t \in DOMAIN Since : Since[t] = n => n = 15 /\ t = "users"
    BY DEF Since
  <1>2. \A t, c : <<t, c, n>> \in Later => n = 16 /\ t = "users" /\ c = "AUTOINCREMENT"
    BY DEF Later
  <1>3. <<>> \in Seq(Statements)
    OBVIOUS
  <1> QED BY <1>1, <1>2, <1>3 DEF Simple, Makes, Once, Covers

\* Revisions 7 and 16 rebuild one table with another property.
LEMMA OneRebuilt ==
  ASSUME NEW db, NEW n \in {7, 16}, Reached(db, n - 1), NEW t, NEW c,
         <<n, t, c>> \in {<<7, "credentials", "username_NULL">>, <<16, "users", "AUTOINCREMENT">>}
  PROVE Extends(Recording(Recreate(db, t, {c}), n), db, n)
  <1> DEFINE x == Tmp[t]
             C == db.def[t] \union {c}
             s == Recording(Recreate(db, t, {c}), n)
  <1>1. /\ t \in Tables /\ t \in Names /\ x \in Names /\ x \notin Tables /\ x \in Spares(t)
        /\ x # "credentials_new" /\ n \in 1 .. Newest
    BY NamesAre DEF Tmp, Tables, Models, Spares, Names, Newest
  <1>2. Has(db, t)
    <2>1. t \in DOMAIN Since /\ Since[t] <= n - 1
      BY DEF Since
    <2> QED BY <2>1 DEF Reached
  <1>3. \A u, d : <<u, d, n>> \in Later <=> u = t /\ d = c
    BY DEF Later
  <1>4. c \in Columns /\ New(t, n) = {c} /\ {c} \subseteq Flags
    <2>1. c \in Columns
      BY <1>3, LaterOnce
    <2>2. c \in Flags
      BY DEF Flags
    <2> QED BY <1>3, <2>1, <2>2 DEF New
  <1>5. C \in SUBSET Columns
    BY <1>2, <1>4 DEF Reached, IsDb, Has
  <1>6. \A u \in DOMAIN Since : Since[u] # n
    BY DEF Since
  <1> HIDE DEF x, C
  <1>7. Recreate(db, t, {c}) = <<Create(x, C), Copy(t, x), Drop(t), Rename(x, t)>>
    BY DEF Recreate, x, C
  <1>8. s \in Seq(Statements)
    <2>1. /\ Create(x, C) \in Statements /\ Copy(t, x) \in Statements /\ Drop(t) \in Statements
          /\ Rename(x, t) \in Statements /\ Version(n) \in Statements /\ Commit \in Statements
      BY <1>1, <1>5, StatementTypes
    <2>2. <<Create(x, C), Copy(t, x), Drop(t), Rename(x, t)>> \o <<Version(n), Commit>> \in Seq(Statements)
      BY <2>1
    <2> QED BY <1>7, <2>2 DEF Recording
  <1>9. /\ DOMAIN s = 1 .. 6 /\ Len(s) = 6
        /\ s[1] = Create(x, C) /\ s[2] = Copy(t, x) /\ s[3] = Drop(t) /\ s[4] = Rename(x, t)
        /\ s[5] = Version(n) /\ s[6] = Commit
    <2>1. s = <<Create(x, C), Copy(t, x), Drop(t), Rename(x, t)>> \o <<Version(n), Commit>>
      BY <1>7 DEF Recording
    <2> HIDE DEF s
    <2> QED BY <2>1
  <1> HIDE DEF s
  <1>10. /\ s[1].do = "create" /\ s[1].table = x /\ s[1].cols = C
         /\ s[2].do = "copy" /\ s[2].table = t /\ s[2].new = x
         /\ s[3].do = "drop" /\ s[3].table = t
         /\ s[4].do = "rename" /\ s[4].table = x /\ s[4].new = t
         /\ s[5].do = "version" /\ s[6].do = "commit"
    BY <1>9 DEF Create, Copy, Drop, Rename, Version, Commit
  <1>11. InARow(s)
    BY <1>1, <1>9, <1>10 DEF InARow
  <1>12. LeftAlone(s)
    BY <1>1, <1>9, <1>10 DEF LeftAlone
  <1>13. Closes(s)
    BY <1>9, <1>10 DEF Closes
  <1>14. KeysBack(s)
    <2>1. KeysOn.do = "pragma" /\ KeysOff.do = "pragma"
      BY DEF KeysOn, KeysOff, ForeignKeys
    <2> QED BY <1>9, <1>10, <2>1 DEF KeysBack
  <1>15. Swaps(s)
    <2>1. Correct("updated_at").do = "correct"
      BY DEF Correct
    <2> QED BY <1>9, <1>10, <2>1 DEF Swaps
  <1>16. Due(db, s, t, c)
    <2>1. c \in C
      BY DEF C
    <2>2. ColumnDue(db, s, x, c)
      BY <1>9, <1>10, <2>1 DEF ColumnDue
    <2> QED BY <1>1, <1>9, <2>2 DEF Due
  <1>17. C = db.def[t] \union New(t, n)
    BY <1>4 DEF C
  <1>18. \A i \in DOMAIN s : s[i].do = "create" => i = 1
    BY <1>9, <1>10
  <1>19. \A i \in DOMAIN s :
       s[i].do \in {"create", "copy", "drop", "rename", "add", "add_if_missing", "correct",
                    "version", "commit"} /\ s[i].do \notin {"add", "add_if_missing"}
    BY <1>9, <1>10
  <1>20. \A i \in DOMAIN s : s[i].do = "create" /\ s[i].table \notin Tables =>
       \E u \in Tables :
         /\ s[i + 1] = Copy(u, s[i].table) /\ s[i].table # "credentials_new"
         /\ Has(db, u) /\ s[i].cols = db.def[u] \union New(u, n) /\ New(u, n) \subseteq Flags
    <2>1. s[1 + 1] = Copy(t, s[1].table) /\ s[1].cols = db.def[t] \union New(t, n)
      BY <1>9, <1>10, <1>17
    <2> QED BY <1>1, <1>2, <1>4, <1>10, <1>18, <2>1
  <1>21. /\ \A i \in DOMAIN s : s[i].do = "version" => s[i] = Version(n)
         /\ \A i \in DOMAIN s : i = 1 => s[i].do \notin {"copy", "drop", "rename"}
         /\ \A i \in DOMAIN s : s[i].do = "create" => s[i].table \notin Tables
         /\ \A i \in DOMAIN s : s[i].do = "rename" => Has(db, s[i].new)
    BY <1>1, <1>2, <1>9, <1>10
  <1>22. \A u \in Tables, d \in Columns : <<u, d, n>> \in Later => Due(db, s, u, d)
    BY <1>3, <1>16
  <1>23. WellFormed(s)
    BY <1>11, <1>12, <1>13, <1>14, <1>15 DEF WellFormed
  <1>24. \E i \in DOMAIN s : s[i].do = "version"
    BY <1>9, <1>10
  <1> QED BY <1>6, <1>8, <1>18, <1>19, <1>20, <1>21, <1>22, <1>23, <1>24 DEF Extends, s

\* Revision 6 rebuilds two tables and adds three columns to the groups.
LEMMA Revision6 ==
  ASSUME NEW db, Reached(db, 5)
  PROVE Extends(Recording(RelaxEnums(db), 6), db, 6)
  <1> DEFINE x == Tmp["devices"]
             y == Tmp["destinations"]
             C == db.def["devices"]
             D == db.def["destinations"]
             s == Recording(RelaxEnums(db), 6)
  <1>1. /\ {"devices", "destinations", "groups"} \subseteq Tables
        /\ {"devices", "destinations", "groups", x, y} \subseteq Names
        /\ x \notin Tables /\ x \in Spares("devices") /\ x # "credentials_new"
        /\ y \notin Tables /\ y \in Spares("destinations") /\ y # "credentials_new" /\ x # y
        /\ 6 \in 1 .. Newest
    <2>1. x = "_alembic_tmp_devices" /\ y = "_alembic_tmp_destinations"
      BY DEF Tmp
    <2>2. "devices" \in DOMAIN Tmp /\ "destinations" \in DOMAIN Tmp
      BY DEF Tmp
    <2>3. x \in Spares("devices") /\ y \in Spares("destinations")
      BY <2>2 DEF Spares
    <2>4. 6 \in 1 .. Newest
      BY DEF Newest
    <2> HIDE DEF x, y
    <2> QED BY <2>1, <2>2, <2>3, <2>4, NamesAre, SparesAre
  <1>2. Has(db, "devices") /\ Has(db, "destinations") /\ Has(db, "groups")
    BY DEF Since, Reached
  <1>3. \A u, d : <<u, d, 6>> \in Later <=>
          u = "groups" /\ d \in {"destination_ids", "backup_engine", "notification_ids"}
    BY DEF Later
  <1>4. New("devices", 6) = {} /\ New("destinations", 6) = {}
    BY <1>3 DEF New
  <1>5. C \in SUBSET Columns /\ D \in SUBSET Columns
    BY <1>2 DEF Reached, IsDb, Has
  <1>6. \A u \in DOMAIN Since : Since[u] # 6
    BY DEF Since
  <1>7. C \union {} = C /\ D \union {} = D
    OBVIOUS
  <1> HIDE DEF x, y, C, D
  <1>8. RelaxEnums(db) =
          <<Create(x, C), Copy("devices", x), Drop("devices"), Rename(x, "devices")>>
            \o <<Create(y, D), Copy("destinations", y), Drop("destinations"), Rename(y, "destinations")>>
            \o AddMissing("groups", <<"destination_ids", "backup_engine", "notification_ids">>)
    <2>1. Recreate(db, "devices", {}) =
            <<Create(x, C), Copy("devices", x), Drop("devices"), Rename(x, "devices")>>
      BY <1>7 DEF Recreate, x, C
    <2>2. Recreate(db, "destinations", {}) =
            <<Create(y, D), Copy("destinations", y), Drop("destinations"), Rename(y, "destinations")>>
      BY <1>7 DEF Recreate, y, D
    <2> QED BY <2>1, <2>2 DEF RelaxEnums
  <1>9. s \in Seq(Statements)
    <2>1. /\ Create(x, C) \in Statements /\ Copy("devices", x) \in Statements
          /\ Drop("devices") \in Statements /\ Rename(x, "devices") \in Statements
          /\ Create(y, D) \in Statements /\ Copy("destinations", y) \in Statements
          /\ Drop("destinations") \in Statements /\ Rename(y, "destinations") \in Statements
      BY <1>1, <1>5, StatementTypes
    <2>2. Version(6) \in Statements /\ Commit \in Statements
      BY <1>1, StatementTypes
    <2>3. /\ AddIfMissing("groups", "destination_ids") \in Statements
          /\ AddIfMissing("groups", "backup_engine") \in Statements
          /\ AddIfMissing("groups", "notification_ids") \in Statements
      BY <1>3, ChainTyped
    <2>4. AddMissing("groups", <<"destination_ids", "backup_engine", "notification_ids">>) \in Seq(Statements)
      BY <2>3 DEF AddMissing
    <2>5. RelaxEnums(db) \in Seq(Statements)
      BY <1>8, <2>1, <2>4
    <2> QED BY <1>1, <2>5, RecordingIs
  <1>10. /\ DOMAIN s = 1 .. 13 /\ Len(s) = 13
        /\ s[1] = Create(x, C) /\ s[2] = Copy("devices", x) /\ s[3] = Drop("devices")
        /\ s[4] = Rename(x, "devices")
        /\ s[5] = Create(y, D) /\ s[6] = Copy("destinations", y) /\ s[7] = Drop("destinations")
        /\ s[8] = Rename(y, "destinations")
        /\ s[9] = AddIfMissing("groups", "destination_ids")
        /\ s[10] = AddIfMissing("groups", "backup_engine")
        /\ s[11] = AddIfMissing("groups", "notification_ids")
        /\ s[12] = Version(6) /\ s[13] = Commit
    BY <1>8 DEF Recording, AddMissing
  <1> HIDE DEF s
  <1>11. /\ s[1].do = "create" /\ s[1].table = x /\ s[1].cols = C
         /\ s[2].do = "copy" /\ s[2].table = "devices" /\ s[2].new = x
         /\ s[3].do = "drop" /\ s[3].table = "devices"
         /\ s[4].do = "rename" /\ s[4].table = x /\ s[4].new = "devices"
         /\ s[5].do = "create" /\ s[5].table = y /\ s[5].cols = D
         /\ s[6].do = "copy" /\ s[6].table = "destinations" /\ s[6].new = y
         /\ s[7].do = "drop" /\ s[7].table = "destinations"
         /\ s[8].do = "rename" /\ s[8].table = y /\ s[8].new = "destinations"
         /\ \A i \in {9, 10, 11} : s[i].do = "add_if_missing" /\ s[i].table = "groups"
         /\ s[9].col = "destination_ids" /\ s[10].col = "backup_engine" /\ s[11].col = "notification_ids"
         /\ s[12].do = "version" /\ s[13].do = "commit"
    BY <1>10 DEF Create, Copy, Drop, Rename, AddIfMissing, Version, Commit
  <1>12. InARow(s)
    BY <1>1, <1>10, <1>11 DEF InARow
  <1>13. LeftAlone(s)
    <2>1. \A i \in DOMAIN s : s[i].do = "rename" => i \in {4, 8} /\ s[i].new # "groups"
      BY <1>10, <1>11
    <2>2. \A i, j \in DOMAIN s :
            s[i].do = "rename" /\ s[j].do = "rename" /\ s[i].new = s[j].new => i = j
      BY <1>11, <2>1
    <2>3. ~Rebuilt(s, "groups")
      BY <2>1 DEF Rebuilt
    <2>4. \A i \in DOMAIN s :
            /\ s[i].do \in {"add", "add_if_missing"} => s[i].table = "groups"
            /\ s[i].do = "create" => s[i].table \notin Tables
            /\ s[i].do \notin {"create_if_missing", "drop_if_exists"}
      BY <1>1, <1>10, <1>11
    <2> QED BY <1>1, <2>2, <2>3, <2>4 DEF LeftAlone
  <1>14. Closes(s)
    BY <1>10, <1>11 DEF Closes
  <1>15. KeysBack(s)
    <2>1. KeysOn.do = "pragma" /\ KeysOff.do = "pragma"
      BY DEF KeysOn, KeysOff, ForeignKeys
    <2> QED BY <1>10, <1>11, <2>1 DEF KeysBack
  <1>16. Swaps(s)
    <2>1. Correct("updated_at").do = "correct"
      BY DEF Correct
    <2> QED BY <1>10, <1>11, <2>1 DEF Swaps
  <1>17. \A u \in Tables, d \in Columns : <<u, d, 6>> \in Later => Due(db, s, u, d)
    BY <1>3, <1>10 DEF Due, ColumnDue
  <1>18. \A i \in DOMAIN s : s[i].do = "create" => i \in {1, 5}
    BY <1>10, <1>11
  <1>19. \A i \in DOMAIN s :
       s[i].do \in {"create", "copy", "drop", "rename", "add", "add_if_missing", "correct",
                    "version", "commit"} /\ s[i].do # "add"
    BY <1>10, <1>11
  <1>20. \A i \in DOMAIN s : s[i].do = "create" /\ s[i].table \notin Tables =>
       \E u \in Tables :
         /\ s[i + 1] = Copy(u, s[i].table) /\ s[i].table # "credentials_new"
         /\ Has(db, u) /\ s[i].cols = db.def[u] \union New(u, 6) /\ New(u, 6) \subseteq Flags
    <2>1. /\ s[1 + 1] = Copy("devices", s[1].table)
          /\ s[1].cols = db.def["devices"] \union New("devices", 6) /\ New("devices", 6) \subseteq Flags
      BY <1>4, <1>10, <1>11 DEF C
    <2>2. /\ s[5 + 1] = Copy("destinations", s[5].table)
          /\ s[5].cols = db.def["destinations"] \union New("destinations", 6)
          /\ New("destinations", 6) \subseteq Flags
      BY <1>4, <1>10, <1>11 DEF D
    <2> QED BY <1>1, <1>2, <1>11, <1>18, <2>1, <2>2
  <1>21. /\ \A i \in DOMAIN s : s[i].do = "version" => s[i] = Version(6)
         /\ \A i \in DOMAIN s : i = 1 => s[i].do \notin {"copy", "drop", "rename"}
         /\ \A i \in DOMAIN s : s[i].do = "create" => s[i].table \notin Tables
         /\ \A i \in DOMAIN s : s[i].do = "rename" => Has(db, s[i].new)
    BY <1>1, <1>2, <1>10, <1>11
  <1>22. \A i \in DOMAIN s : s[i].do = "add_if_missing" =>
           Has(db, s[i].table) /\ <<s[i].table, s[i].col, 6>> \in Later /\ i \in {9, 10, 11}
    BY <1>2, <1>3, <1>10, <1>11
  <1>23. WellFormed(s)
    BY <1>12, <1>13, <1>14, <1>15, <1>16 DEF WellFormed
  <1>24. \A i, j \in DOMAIN s : s[i].do = "create" /\ s[j].do = "create" /\ s[i].table = s[j].table => i = j
    BY <1>1, <1>11, <1>18
  <1>25. \A i, j \in DOMAIN s :
       s[i].do \in {"add", "add_if_missing"} /\ s[j].do \in {"add", "add_if_missing"}
         /\ s[i].table = s[j].table /\ s[i].col = s[j].col => i = j
    <2>1. \A i, j \in {9, 10, 11} : s[i].col = s[j].col => i = j
      BY <1>11
    <2>2. \A i \in DOMAIN s : s[i].do \in {"add", "add_if_missing"} => i \in {9, 10, 11}
      BY <1>19, <1>22
    <2> QED BY <2>1, <2>2
  <1>26. \E i \in DOMAIN s : s[i].do = "version"
    BY <1>10, <1>11
  <1> QED BY <1>6, <1>9, <1>17, <1>19, <1>20, <1>21, <1>22, <1>23, <1>24, <1>25, <1>26 DEF Extends, s

\* Every revision extends the database by what is new.
LEMMA RevisionExtends ==
  ASSUME NEW db, NEW n \in 1 .. Newest, Reached(db, n - 1)
  PROVE Extends(Recording(Revision(n, db), n), db, n)
  <1>1. n \in {1, 2, 3, 4, 5, 6, 7, 8, 9, 10, 11, 12, 13, 14, 15, 16}
    BY DEF Newest
  <1>2. CASE n = 1
    <2>1. Revision(n, db) = InitialSchema
      BY <1>2 DEF Revision
    <2> QED BY <1>2, <2>1, Revision1, SimpleExtends
  <1>3. CASE n = 2
    <2>1. Revision(n, db) = AddGroups
      BY <1>3 DEF Revision
    <2> QED BY <1>3, <2>1, Revision2, SimpleExtends
  <1>4. CASE n = 3 \/ n = 8
    <2>1. Revision(n, db) = <<>>
      BY <1>4 DEF Revision, AddGitTypes, AddTelegramType
    <2> QED BY <1>4, <2>1, NothingNew, SimpleExtends
  <1>5. CASE n = 4
    <2>1. Revision(n, db) = AddProxy
      BY <1>5 DEF Revision
    <2> QED BY <1>5, <2>1, Revision4, SimpleExtends
  <1>6. CASE n = 5
    <2>1. Revision(n, db) = <<Add("devices", "proxy_credential_id")>>
      BY <1>6 DEF Revision, AddProxyCredential
    <2> QED BY <1>6, <2>1, OneColumn, SimpleExtends
  <1>7. CASE n = 6
    <2>1. Revision(n, db) = RelaxEnums(db)
      BY <1>7 DEF Revision
    <2> QED BY <1>7, <2>1, Revision6
  <1>8. CASE n = 7
    <2>1. Revision(n, db) = Recreate(db, "credentials", {"username_NULL"})
      BY <1>8 DEF Revision, UsernameNullable
    <2> QED BY <1>8, <2>1, OneRebuilt
  <1>9. CASE n = 9
    <2>1. Revision(n, db) = AddConfigChange(db)
      BY <1>9 DEF Revision
    <2> QED BY <1>9, <2>1, Revision9, SimpleExtends
  <1>10. CASE n = 10
    <2>1. Revision(n, db) = AddLocations
      BY <1>10 DEF Revision
    <2> QED BY <1>10, <2>1, Revision10, SimpleExtends
  <1>11. CASE n = 11
    <2>1. Revision(n, db) = <<Add("destinations", "description")>>
      BY <1>11 DEF Revision, AddDescription
    <2> QED BY <1>11, <2>1, OneColumn, SimpleExtends
  <1>12. CASE n = 12
    <2>1. Revision(n, db) = <<Add("devices", "destination_ids_override")>>
      BY <1>12 DEF Revision, AddOverride
    <2> QED BY <1>12, <2>1, OneColumn, SimpleExtends
  <1>13. CASE n = 13
    <2>1. Revision(n, db) = <<Correct("config_json")>>
      BY <1>13 DEF Revision, AddFileExtension
    <2> QED BY <1>13, <2>1, NothingNew, SimpleExtends
  <1>14. CASE n = 14
    <2>1. Revision(n, db) = <<Create("backup_failures", {})>>
      BY <1>14 DEF Revision, AddFailures
    <2> QED BY <1>14, <2>1, OneTable, SimpleExtends
  <1>15. CASE n = 15
    <2>1. CASE Has(db, "users")
      <3>1. Revision(n, db) = <<>>
        BY <1>15, <2>1 DEF Revision, AddUsers
      <3> QED BY <1>15, <2>1, <3>1, NothingMissing, SimpleExtends
    <2>2. CASE ~Has(db, "users")
      <3>1. Revision(n, db) = <<Create("users", {})>>
        BY <1>15, <2>2 DEF Revision, AddUsers
      <3> QED BY <1>15, <2>2, <3>1, OneTable, SimpleExtends
    <2> QED BY <2>1, <2>2
  <1>16. CASE n = 16
    <2>0. Has(db, "users")
      BY <1>16 DEF Reached, Since
    <2>1. CASE "AUTOINCREMENT" \in db.def["users"]
      <3>1. Revision(n, db) = <<>>
        BY <1>16, <2>1 DEF Revision, KeepUserIds
      <3>2. There(db, "users", "AUTOINCREMENT")
        BY <2>0, <2>1 DEF There
      <3> QED BY <1>16, <3>1, <3>2, NothingMissing, SimpleExtends
    <2>2. CASE "AUTOINCREMENT" \notin db.def["users"]
      <3>1. Revision(n, db) = Recreate(db, "users", {"AUTOINCREMENT"})
        BY <1>16, <2>2 DEF Revision, KeepUserIds
      <3> QED BY <1>16, <3>1, OneRebuilt
    <2> QED BY <2>1, <2>2
  <1> QED BY <1>1, <1>2, <1>3, <1>4, <1>5, <1>6, <1>7, <1>8, <1>9, <1>10, <1>11, <1>12, <1>13,
             <1>14, <1>15, <1>16

\* The beginning of a revision keeps the inductive invariant.
LEMMA NextRevisionKeeps ==
  ASSUME IInv, NextRevision
  PROVE IInv'
  <1> DEFINE n == work.rev + 1
             s == Recording(Revision(n, work), n)
  <1>1. /\ Upgrading /\ todo = <<>>
        /\ UNCHANGED <<disk, work, open, keys, stage, alembic, crashes, upgrades, had, untouched>>
    BY DEF NextRevision
  <1>2. ~open /\ work = disk /\ keys = TRUE /\ \A t : Place(todo, t) = t
    BY <1>1, Idle
  <1>3. /\ todo' = s /\ work.rev < Newest
    BY <1>2 DEF NextRevision, Recording
  <1>4. n \in 1 .. Newest /\ n - 1 = work.rev /\ work.rev \in 0 .. Newest
    <2>1. work.rev \in 0 .. Newest
      BY DEF IInv, TypeOK, IsDb
    <2> QED BY <1>3, <2>1 DEF Newest
  <1>5. Reached(work, work.rev)
    <2>1. IsDb(work)
      BY DEF IInv, TypeOK
    <2> QED BY <1>2, <2>1 DEF IInv, RevisionsMean, Reached
  <1>6. Extends(s, work, n)
    BY <1>4, <1>5, RevisionExtends
  <1> HIDE DEF s, n
  <1>7. /\ Suits(work, s, FALSE)
        /\ \A t \in Tables, c \in Columns, m \in 1 .. Newest :
             <<t, c, m>> \in Later /\ m <= n => Due(work, s, t, c)
        /\ \A t \in DOMAIN Since : Since[t] <= n => TableDue(work, s, t)
    BY <1>4, <1>5, <1>6, ExtendsGoals
  <1>8. s \in Seq(Statements) /\ WellFormed(s)
    BY <1>6 DEF Extends
  <1>9. \A t : Place(s, t) = t
    BY <1>7, <1>8, InPlace DEF WellFormed
  <1>10. n = work.rev + 1
    BY DEF n
  <1>11. stage \in {0, Serving} /\ alembic = "running"
    BY <1>1 DEF IInv, Mine, Upgrading
  <1>12. TypeOK'
    BY <1>1, <1>2, <1>3, <1>8 DEF IInv, TypeOK
  <1>13. WellFormed(todo)' /\ Suits(work, todo, open)'
    <2>1. open' = FALSE
      BY <1>1, <1>2 DEF IInv, TypeOK
    <2> QED BY <1>1, <1>3, <1>7, <1>8, <2>1
  <1>14. Mine'
    <2>1. \A i \in DOMAIN s :
            /\ s[i].do \notin {"mark", "pragma", "create_if_missing", "drop_if_exists"}
            /\ s[i].do = "version" => s[i] = Version(n)
            /\ s[i].do = "create" => s[i].table # "credentials_new"
      <3>1. \A i \in DOMAIN s : s[i].do \notin {"mark", "pragma", "create_if_missing", "drop_if_exists"}
        BY <1>6 DEF Extends
      <3>2. \A i \in DOMAIN s : s[i].do = "version" => s[i] = Version(n)
        BY <1>6 DEF Extends
      <3>3. \A i \in DOMAIN s : s[i].do = "create" => s[i].table # "credentials_new"
        BY <1>6, NamesAre DEF Extends
      <3> QED BY <3>1, <3>2, <3>3
    <2> QED BY <1>1, <1>2, <1>3, <1>10, <1>11, <2>1 DEF IInv, Mine, Upgrading
  <1>15. CredentialsKnown'
    <2>1. Has(work, "credentials") => work.def["credentials"] \subseteq Models["credentials"]
      BY NamesAre DEF IInv, CredentialsKnown
    <2>2. KnownColumns(s)
      BY <1>4, <1>6, <2>1, ExtendsKnown
    <2> QED BY <1>1, <1>3, <2>2 DEF IInv, CredentialsKnown, KnownColumns
  <1>16. Kept'
    BY <1>1, <1>2, <1>3, <1>9 DEF IInv, Kept
  <1>17. MarksMean'
    BY <1>1, <1>2, <1>3, <1>9 DEF IInv, MarksMean
  <1>18. Repaired'
    <2>1. "group" \in work.wrong => "updated_at" \in work.wrong
      BY <1>2 DEF IInv, Repaired
    <2> QED BY <1>1, <2>1 DEF IInv, Repaired
  <1>19. RevisionsMean'
    BY <1>1, <1>2, <1>3, <1>9 DEF IInv, RevisionsMean
  <1>20. StageGoals'
    <2>1. ~Starting'
      BY <1>1, <1>11, StagesAre DEF Starting
    <2> QED BY <2>1 DEF StageGoals
  <1>21. CorrectionGoals'
    <2>1. stage' \notin RepairStage .. LastStage /\ stage' # LastStage
      BY <1>1, <1>11, StagesAre DEF RepairStage
    <2> QED BY <2>1 DEF CorrectionGoals
  <1>22. RevisionGoals'
    BY <1>1, <1>3, <1>7, <1>10 DEF RevisionGoals
  <1>23. Served'
    BY <1>1, <1>2, <1>3, <1>9 DEF IInv, Served
  <1>24. Alone'
    <2> SUFFICES ASSUME untouched
          PROVE Alone'
      BY <1>1 DEF Alone
    <2>1. stage = 0 /\ NoExtras(work, <<>>, work.rev)
      BY <1>1 DEF IInv, Alone
    <2>2. NoExtras(work, <<>>, n - 1)
      BY <1>4, <2>1 DEF n
    <2>3. Fits(work, s) /\ NoExtras(work, s, n)
      BY <1>4, <1>6, <2>2, ExtendsFits, ExtendsNoExtras
    <2>4. \E i \in DOMAIN s : s[i].do = "version"
      BY <1>6 DEF Extends
    <2> QED BY <1>1, <1>3, <1>10, <1>11, <2>1, <2>3, <2>4 DEF Alone
  <1> QED BY <1>12, <1>13, <1>14, <1>15, <1>16, <1>17, <1>18, <1>19, <1>20, <1>21, <1>22, <1>23, <1>24 DEF IInv

\* An installation of any revision satisfies the inductive invariant.
LEMMA InitKeeps ==
  ASSUME Init
  PROVE IInv
  <1> DEFINE Revs(r) == (IF r \in Tracked THEN {r} ELSE {}) \union (IF r \in Untracked THEN {0} ELSE {})
             Def(r, beside) == [t \in DOMAIN Installed(r) \union beside |->
                                  IF t \in DOMAIN Installed(r) THEN Installed(r)[t] ELSE {}]
             From(r, beside, marks, rev, wrong) ==
               /\ disk = [def |-> Def(r, beside), holds |-> DOMAIN Def(r, beside), marks |-> marks,
                          rev |-> rev, wrong |-> wrong]
               /\ untouched = (rev = r)
  <1>a. PICK r \in Tracked \union Untracked :
          \E beside \in Beside(r), marks \in Recorded(r), rev \in Revs(r) :
            \E wrong \in Wrong(r, marks) : From(r, beside, marks, rev, wrong)
    BY DEF Init
  <1>b. PICK beside \in Beside(r), marks \in Recorded(r), rev \in Revs(r) :
          \E wrong \in Wrong(r, marks) : From(r, beside, marks, rev, wrong)
    BY <1>a
  <1>1. PICK wrong \in Wrong(r, marks) : From(r, beside, marks, rev, wrong)
    BY <1>b
  <1>2. /\ work = disk /\ had = disk.holds /\ open = FALSE /\ todo = <<>> /\ keys = TRUE
        /\ stage = 0 /\ alembic = "never" /\ crashes = 0 /\ upgrades = 0
    BY DEF Init
  <1> DEFINE Old == DOMAIN Installed(r)
             def == disk.def
  <1>3. /\ r \in 0 .. Newest /\ rev \in 0 .. Newest /\ (rev = r \/ rev = 0)
    <2>1. r \in 0 .. Newest
      BY BoundAssumption DEF Newest
    <2> QED BY <1>1, <2>1 DEF Newest
  <1>4. /\ Old = {u \in DOMAIN Since : Since[u] <= r}
        /\ \A t \in Old : Installed(r)[t] = {c \in Columns : \E n \in 1 .. r : <<t, c, n>> \in Later}
    BY DEF Installed
  <1>5. beside \subseteq Optional
    BY <1>1 DEF Beside, Optional
  <1>6. Old \subseteq Tables /\ Optional \subseteq Tables
    BY <1>4, LaterOnce, NamesAre DEF Optional
  <1>7. /\ DOMAIN def = Old \union beside
        /\ \A t \in Old : def[t] = {c \in Columns : \E n \in 1 .. r : <<t, c, n>> \in Later}
        /\ \A t \in beside : t \notin Old => def[t] = {}
        /\ disk.holds = DOMAIN def /\ disk.marks = marks /\ disk.rev = rev /\ disk.wrong = wrong
        /\ def = [t \in DOMAIN def |-> def[t]]
        /\ disk = [def |-> disk.def, holds |-> disk.holds, marks |-> disk.marks, rev |-> disk.rev,
                   wrong |-> disk.wrong]
    BY <1>1, <1>4
  <1> HIDE DEF Old
  <1>8. \A t \in Tables, c \in Columns : There(disk, t, c) => \E n \in 1 .. r : <<t, c, n>> \in Later
    BY <1>7 DEF There, Has
  <1>9. \A t, c, n : <<t, c, n>> \in Later => t \in DOMAIN Since /\ Since[t] <= n
    BY DEF Later, Since
  <1>10. \A t \in Tables, c \in Columns, n \in 1 .. Newest : <<t, c, n>> \in Later /\ n <= r => There(disk, t, c)
    <2> TAKE t \in Tables, c \in Columns, n \in 1 .. Newest
    <2> HAVE <<t, c, n>> \in Later /\ n <= r
    <2>1. t \in Old
      <3>1. Since[t] \in 1 .. Newest /\ t \in DOMAIN Since /\ Since[t] <= n
        BY <1>9, LaterOnce
      <3> QED BY <1>3, <1>4, <3>1
    <2>2. n \in 1 .. r
      BY <1>3
    <2> QED BY <1>7, <2>1, <2>2 DEF There, Has
  <1>11. wrong \subseteq Swap \union Orphans /\ ("group" \in wrong => "updated_at" \in wrong)
         /\ (wrong \intersect Swap # {} => marks # {})
    BY <1>1 DEF Wrong, Swap, Orphans
  <1>12. marks \subseteq {"v09", "v15", "v16", "v161"} /\ (marks # {} => r >= 7)
    BY <1>1 DEF Recorded
  <1>13. IsDb(disk)
    <2>1. DOMAIN def \subseteq Names
      BY <1>5, <1>6, <1>7, NamesAre
    <2>2. def \in [DOMAIN def -> SUBSET Columns]
      BY <1>7
    <2>3. marks \subseteq MigrationNames
      BY <1>12, NamesAre
    <2> QED BY <1>3, <1>7, <1>11, <2>1, <2>2, <2>3 DEF IsDb
  <1>14. TypeOK
    <2>1. untouched \in BOOLEAN
      BY <1>1
    <2>2. stage \in 0 .. Serving
      BY <1>2, StagesAre
    <2>3. had \subseteq DOMAIN Models
      BY <1>2, <1>5, <1>6, <1>7 DEF Tables
    <2>4. crashes \in 0 .. MaxCrashes /\ upgrades \in 0 .. MaxUpgrades
      BY <1>2, BoundAssumption
    <2> QED BY <1>2, <1>13, <2>1, <2>2, <2>3, <2>4, Nothing DEF TypeOK
  <1>15. WellFormed(todo) /\ Suits(work, todo, open)
    BY <1>2, Nothing
  <1>16. Mine
    BY <1>2, StagesAre DEF Mine, Upgrading
  <1>17. CredentialsKnown
    <2>1. \A x \in CredentialTables : Has(disk, x) => disk.def[x] \subseteq Models["credentials"]
      <3> TAKE x \in CredentialTables
      <3> HAVE Has(disk, x)
      <3>1. x = "credentials"
        BY <1>5, <1>6, <1>7, NamesAre DEF Has
      <3>2. x \in Old
        BY <1>5, <1>7, <3>1 DEF Has, Optional
      <3> QED BY <1>7, <3>1, <3>2, LaterOnce
    <2> QED BY <1>2, <2>1 DEF CredentialsKnown
  <1>18. Kept
    BY <1>2, Nothing DEF Kept
  <1>19. MarksMean
    <2> SUFFICES ASSUME NEW t \in Tables, NEW c \in Columns, NEW k \in 1 .. LastStage,
                        <<k, t, c>> \in Promised, Stages[k] \in marks
          PROVE There(disk, t, c)
      BY <1>2, <1>7, Nothing DEF MarksMean
    <2>1. k \in {4, 5, 6, 7} /\ r >= 7
      BY <1>12, StagesAre DEF Promised
    <2>2. \E n \in 1 .. 7 : <<t, c, n>> \in Later
      <3>1. \A l, u, d : <<l, u, d>> \in Promised => \E n \in {2, 4, 5, 6, 7} : <<u, d, n>> \in Later
        BY DEF Promised, Later
      <3> QED BY <3>1
    <2>3. PICK n \in 1 .. 7 : <<t, c, n>> \in Later
      BY <2>2
    <2>4. n \in 1 .. Newest /\ n <= r
      BY <1>3, <2>1 DEF Newest
    <2> QED BY <1>10, <2>3, <2>4
  <1>20. Repaired
    BY <1>2, <1>7, <1>11, <1>12 DEF Repaired
  <1>21. RevisionsMean
    <2>1. \A t \in Tables, c \in Columns, n \in 1 .. Newest :
            <<t, c, n>> \in Later /\ n <= disk.rev => There(disk, t, c)
      BY <1>3, <1>7, <1>10
    <2>2. \A t \in DOMAIN Since : Since[t] <= disk.rev => Has(disk, t)
      <3> TAKE t \in DOMAIN Since
      <3> HAVE Since[t] <= disk.rev
      <3>1. Since[t] \in 1 .. Newest
        BY LaterOnce
      <3> QED BY <1>3, <1>4, <1>7, <3>1 DEF Has
    <2> QED BY <1>2, <2>1, <2>2, Nothing DEF RevisionsMean
  <1>22. StageGoals /\ CorrectionGoals /\ RevisionGoals /\ Served
    BY <1>2, StagesAre DEF StageGoals, Starting, CorrectionGoals, RepairStage, RevisionGoals, Served
  <1>23. Alone
    <2> SUFFICES ASSUME rev = r
          PROVE NoExtras(disk, <<>>, r)
      BY <1>1, <1>2, <1>7 DEF Alone
    <2>1. \A t \in Tables, c \in Columns : Due(disk, <<>>, t, c) => There(disk, t, c)
      BY DEF Due, ColumnDue
    <2>2. \A t \in Tables : TableDue(disk, <<>>, t) => Has(disk, t)
      BY DEF TableDue, Creates, Rebuilt
    <2>3. \A t \in Tables : Has(disk, t) => t \in DOMAIN Since /\ (Since[t] <= r \/ t \in Optional)
      <3>1. Optional \subseteq DOMAIN Since
        BY DEF Optional, Since
      <3> QED BY <1>4, <1>5, <1>7, <3>1 DEF Has
    <2>4. \A x \in DOMAIN def : x \in Tables
      BY <1>5, <1>6, <1>7
    <2> QED BY <1>8, <2>1, <2>2, <2>3, <2>4 DEF NoExtras
  <1> QED BY <1>14, <1>15, <1>16, <1>17, <1>18, <1>19, <1>20, <1>21, <1>22, <1>23 DEF IInv

\* Every step preserves the inductive invariant.
LEMMA NextKeeps ==
  ASSUME IInv, [Next]_vars
  PROVE IInv'
  <1>1. CASE Execute
    BY <1>1, ExecuteKeeps
  <1>2. CASE Raise
    BY <1>2, RaiseKeeps
  <1>3. CASE NextStage
    BY <1>3, NextStageKeeps
  <1>4. CASE Serve
    BY <1>4, ServeKeeps
  <1>5. CASE NextRevision
    BY <1>5, NextRevisionKeeps
  <1>6. CASE EndUpgrade
    BY <1>6, EndUpgradeKeeps
  <1>7. CASE StartUpgrade
    BY <1>7, StartUpgradeKeeps
  <1>8. CASE Crash
    BY <1>8, CrashKeeps
  <1>9. CASE UNCHANGED vars
    BY <1>9 DEF vars, IInv, TypeOK, Mine, CredentialsKnown, Kept, MarksMean, Repaired, RevisionsMean,
         StageGoals, CorrectionGoals, RevisionGoals, Served, Alone, Upgrading, Starting
  <1> QED BY <1>1, <1>2, <1>3, <1>4, <1>5, <1>6, <1>7, <1>8, <1>9 DEF Next, Progress

\* The inductive invariant holds in every state of every installation's history.
THEOREM Inductive == Spec => []IInv
  <1>1. Init => IInv
    BY InitKeeps
  <1>2. IInv /\ [Next]_vars => IInv'
    BY NextKeeps
  <1> QED BY <1>1, <1>2, PTL DEF Spec

\* The start-up and Alembic name only tables and columns of the models, and leave nothing half done
\* when no script runs, for any installation and any number of deaths and upgrades.
THEOREM SchemaTypes == Spec => []TypeOK
  <1>1. IInv => TypeOK
    BY DEF IInv
  <1> QED BY <1>1, Inductive, PTL

\* No order of statements, failures, deaths and upgrades puts the only copy of a table that the
\* installation had (init_db, v161 and the revisions that rebuild) where a restart would not find
\* it.
THEOREM NothingIsLost == Spec => []DataKept
  <1>1. IInv => DataKept
    BY DEF IInv, Kept, DataKept
  <1> QED BY <1>1, Inductive, PTL

\* The columns that InitialisedIsCurrent names are those the migrations promise.
LEMMA PromisedThere ==
  ASSUME IInv, Initialised, ~Upgrading
  PROVE /\ \A t \in {"credentials", "groups"} : Models[t] \subseteq disk.def[t]
        /\ {"proxy_host", "proxy_port", "proxy_credential_id"} \subseteq disk.def["devices"]
  <1>1. \A k, t, c : <<k, t, c>> \in Promised => t \in Tables /\ c \in Columns /\ k \in 1 .. LastStage
    <2>1. \A k, t, c : <<k, t, c>> \in Promised =>
             k \in 4 .. 7 /\ \E n \in {2, 4, 5, 6, 7} : <<t, c, n>> \in Later
      BY DEF Promised, Later
    <2>2. \A k, t, c : <<k, t, c>> \in Promised => t \in Tables /\ c \in Columns
      <3> TAKE k, t, c
      <3> HAVE <<k, t, c>> \in Promised
      <3>1. PICK n \in {2, 4, 5, 6, 7} : <<t, c, n>> \in Later
        BY <2>1
      <3> QED BY <3>1, LaterOnce
    <2>3. \A k \in 4 .. 7 : k \in 1 .. LastStage
      BY StagesAre
    <2> QED BY <2>1, <2>2, <2>3
  <1>2. \A k, t, c : <<k, t, c>> \in Promised => c \in disk.def[t]
    BY <1>1, DoneWith DEF There
  <1>3. \A c \in Models["credentials"] : \E k : <<k, "credentials", c>> \in Promised
    BY DEF Models, Promised
  <1>4. \A c \in Models["groups"] : \E k : <<k, "groups", c>> \in Promised
    BY DEF Models, Promised
  <1>5. \A c \in {"proxy_host", "proxy_port", "proxy_credential_id"} : \E k : <<k, "devices", c>> \in Promised
    BY DEF Promised
  <1> QED BY <1>2, <1>3, <1>4, <1>5

\* Whatever was interrupted before, when init_db's migrations are done, all tables and the columns
\* they promise are there, the rows are corrected and foreign keys are enforced.
THEOREM StartDoesItsWork == Spec => []InitialisedIsCurrent
  <1>1. IInv => InitialisedIsCurrent
    <2> SUFFICES ASSUME IInv, Initialised, ~Upgrading
          PROVE /\ DOMAIN Models \subseteq DOMAIN disk.def
                /\ \A t \in {"credentials", "groups"} : Models[t] \subseteq disk.def[t]
                /\ {"proxy_host", "proxy_port", "proxy_credential_id"} \subseteq disk.def["devices"]
                /\ ~Has(disk, "credentials_new")
                /\ disk.wrong = {}
                /\ keys
      BY DEF InitialisedIsCurrent
    <2>1. DOMAIN Models \subseteq DOMAIN disk.def
      BY DoneWith DEF Tables, Has
    <2> QED BY <2>1, DoneWith, PromisedThere
  <1> QED BY <1>1, Inductive, PTL

\* Alembic comes through from every revision of a database that neither the new release nor a death
\* has touched, and after an Alembic that came through, a start finds every column of the models.
THEOREM UpgradesDoTheirWork == Spec => []UpgradesComplete
  <1>1. IInv => UpgradesComplete
    <2> SUFFICES ASSUME IInv
          PROVE UpgradesComplete
      OBVIOUS
    <2>1. untouched => alembic # "failed"
      BY DEF IInv, Alone
    <2>2. ASSUME alembic = "done", Initialised, NEW t \in DOMAIN Models
          PROVE Models[t] \subseteq disk.def[t]
      <3>1. ~Upgrading /\ disk.rev = Newest
        BY <2>2 DEF Upgrading, IInv, RevisionsMean
      <3>2. \A c \in Models[t] : \E n \in 1 .. Newest : <<t, c, n>> \in Later
        <4>1. \A u \in Tables : \A c \in Models[u] : \E n \in {2, 4, 5, 6, 7, 9, 11, 12, 16} : <<u, c, n>> \in Later
          BY DEF Tables, Models, Later
        <4>2. {2, 4, 5, 6, 7, 9, 11, 12, 16} \subseteq 1 .. Newest
          BY DEF Newest
        <4> QED BY <4>1, <4>2 DEF Tables
      <3>3. \A c \in Models[t] : There(disk, t, c)
        <4> TAKE c \in Models[t]
        <4>1. PICK n \in 1 .. Newest : <<t, c, n>> \in Later
          BY <3>2
        <4>2. t \in Tables /\ c \in Columns /\ n <= disk.rev
          BY <3>1, <4>1, LaterOnce DEF Newest
        <4> QED BY <4>1, <4>2 DEF IInv, RevisionsMean
      <3> QED BY <3>3 DEF There
    <2> QED BY <2>1, <2>2 DEF UpgradesComplete
  <1> QED BY <1>1, Inductive, PTL
====
