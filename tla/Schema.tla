------------------------------- MODULE Schema -------------------------------
(***************************************************************************)
(* How the schema of an installation changes with a new release.  Two      *)
(* mechanisms work on the same file and know nothing of each other:        *)
(*                                                                         *)
(*   - the start-up: docker-entrypoint.sh, then init_db (app/database.py)  *)
(*     with create_all, the migrations recorded in _applied_migrations and *)
(*     the repair of orphaned references;                                  *)
(*   - the Alembic chain (migrations/versions), which an operator runs and *)
(*     which records its revision in alembic_version.                      *)
(*                                                                         *)
(* Both are sequences of statements here, worked off one by one, and the   *)
(* container may die between any two.  What is on disk then depends on     *)
(* SQLite's driver: it opens a transaction before the first write to rows  *)
(* and commits everything else at once, so that a CREATE, ADD COLUMN or    *)
(* DROP is rolled back only if rows were written before it.                *)
(*                                                                         *)
(* A table is the set of those of its columns that it did not have from    *)
(* the beginning, a row is not looked into: only which table holds what    *)
(* the installation had.  Indexes are left out.                            *)
(***************************************************************************)
EXTENDS Integers, Sequences

CONSTANTS
  Tracked,     \* bound: revisions of installations that Alembic knows
  Untracked,   \* bound: revisions of installations it was never run on
  MaxCrashes,  \* bound: deaths of the container
  MaxUpgrades  \* bound: times the operator runs Alembic

\* The revisions, in the order of the chain
Newest == 16

ASSUME BoundAssumption ==
  /\ Tracked \subseteq 0 .. Newest /\ Untracked \subseteq 1 .. Newest
  /\ MaxCrashes \in Nat /\ MaxUpgrades \in Nat

-----------------------------------------------------------------------------
(* Tables *)

\* Properties of a table that are no columns.
Flags == {"username_NULL", "AUTOINCREMENT"}

\* The models: the tables, with the columns that came later
Models ==
  [credentials |-> {"group", "username_NULL"},
   destinations |-> {"description"},
   devices |-> {"proxy_host", "proxy_port", "proxy_credential_id", "is_critical",
                "monitoring_interval", "destination_ids_override"},
   groups |-> {"destination_ids", "backup_engine", "notification_ids"},
   notification_channels |-> {"on_config_change"},
   users |-> {"AUTOINCREMENT"},
   job_runs |-> {}, schedules |-> {}, backups |-> {}, locations |-> {},
   backup_failures |-> {}, audit_logs |-> {}]

\* The name Alembic gives to the new table when it recreates one.
Tmp == [credentials |-> "_alembic_tmp_credentials", devices |-> "_alembic_tmp_devices",
        destinations |-> "_alembic_tmp_destinations", users |-> "_alembic_tmp_users"]

Names == DOMAIN Models \union {"credentials_new"} \union {Tmp[t] : t \in DOMAIN Tmp}
Columns == (UNION {Models[t] : t \in DOMAIN Models}) \union {"location_id"}

\* Tables that a foreign key of another table points to: SQLite refuses to drop them while
\* it enforces the keys.
Referenced == {"credentials", "devices", "destinations", "groups", "job_runs", "backups", "users"}

\* Wrong values in rows that the start-up corrects.
Swap == {"updated_at", "group"}
Orphans == {"credential_id", "proxy_credential_id"}

\* The migrations of the start-up, by their names in _applied_migrations
Migrations == <<"v09", "v15", "v16", "v161", "v161_repair", "v17", "v18">>
MigrationNames == {Migrations[i] : i \in DOMAIN Migrations}

\* A database: its tables with their later columns, the tables that hold the rows of the
\* installation, the migrations marked as applied, the revision of Alembic (0 for none), and
\* the wrong values.
IsDb(db) ==
  /\ db = [def |-> db.def, holds |-> db.holds, marks |-> db.marks, rev |-> db.rev,
           wrong |-> db.wrong]
  /\ DOMAIN db.def \subseteq Names /\ db.def \in [DOMAIN db.def -> SUBSET Columns]
  /\ db.holds \subseteq DOMAIN db.def
  /\ db.marks \subseteq MigrationNames /\ db.rev \in 0 .. Newest
  /\ db.wrong \subseteq Swap \union Orphans

Has(db, t) == t \in DOMAIN db.def
With(f, t, C) == [u \in DOMAIN f \union {t} |-> IF u = t THEN C ELSE f[u]]
Without(f, t) == [u \in DOMAIN f \ {t} |-> f[u]]

-----------------------------------------------------------------------------
(* Statements *)

Create(t, C) == [do |-> "create", table |-> t, cols |-> C]
Add(t, c) == [do |-> "add", table |-> t, col |-> c]
\* For those that the script did not find when it looked.
CreateIfMissing(t, C) == [do |-> "create_if_missing", table |-> t, cols |-> C]
AddIfMissing(t, c) == [do |-> "add_if_missing", table |-> t, col |-> c]
DropIfExists(t) == [do |-> "drop_if_exists", table |-> t]
Drop(t) == [do |-> "drop", table |-> t]
Rename(t, new) == [do |-> "rename", table |-> t, new |-> new]
Copy(t, new) == [do |-> "copy", table |-> t, new |-> new]
Correct(value) == [do |-> "correct", value |-> value]
Mark(name) == [do |-> "mark", name |-> name]
Version(n) == [do |-> "version", rev |-> n]
ForeignKeys(on) == [do |-> "pragma", on |-> on]
Commit == [do |-> "commit"]

Statements ==
       [do : {"create", "create_if_missing"}, table : Names, cols : SUBSET Columns]
  \union [do : {"add", "add_if_missing"}, table : Names, col : Columns]
  \union [do : {"drop_if_exists", "drop"}, table : Names]
  \union [do : {"rename", "copy"}, table : Names, new : Names]
  \union [do : {"correct"}, value : Swap \union Orphans \union {"config_json"}]
  \union [do : {"mark"}, name : MigrationNames]
  \union [do : {"version"}, rev : 1 .. Newest]
  \union [do : {"pragma"}, on : BOOLEAN]
  \union {Commit}

\* Statements that write rows, and so open a transaction
Writes == {"copy", "correct", "mark", "version"}

\* SQLite accepts the statement; `keys' says whether the connection enforces foreign keys.
Possible(s, db, keys) ==
  CASE s.do = "create" -> ~Has(db, s.table)
    [] s.do = "add" -> Has(db, s.table) /\ s.col \notin db.def[s.table]
    [] s.do = "add_if_missing" -> Has(db, s.table)
    [] s.do = "drop" -> Has(db, s.table) /\ ~(keys /\ s.table \in Referenced \intersect db.holds)
    [] s.do = "copy" -> Has(db, s.table) /\ db.def[s.new] \ Flags \subseteq db.def[s.table]
    [] s.do = "rename" -> Has(db, s.table) /\ ~Has(db, s.new)
    [] OTHER -> TRUE

After(s, db) ==
  CASE s.do = "create" -> [db EXCEPT !.def = With(@, s.table, s.cols)]
    [] s.do = "create_if_missing" ->
         IF Has(db, s.table) THEN db ELSE [db EXCEPT !.def = With(@, s.table, s.cols)]
    [] s.do \in {"add", "add_if_missing"} ->
         [db EXCEPT !.def = With(@, s.table, @[s.table] \union {s.col})]
    [] s.do \in {"drop", "drop_if_exists"} ->
         [db EXCEPT !.def = Without(@, s.table), !.holds = @ \ {s.table}]
    [] s.do = "rename" ->
         [db EXCEPT !.def = With(Without(@, s.table), s.new, @[s.table]),
                    !.holds = {IF t = s.table THEN s.new ELSE t : t \in @}]
    [] s.do = "copy" ->
         [db EXCEPT !.holds = @ \union (IF s.table \in @ THEN {s.new} ELSE {})]
    [] s.do = "correct" -> [db EXCEPT !.wrong = @ \ {s.value}]
    [] s.do = "mark" -> [db EXCEPT !.marks = @ \union {s.name}]
    [] s.do = "version" -> [db EXCEPT !.rev = s.rev]
    [] OTHER -> db

\* ADD COLUMN for those columns that the table does not have.
AddMissing(t, C) == [i \in DOMAIN C |-> AddIfMissing(t, C[i])]

-----------------------------------------------------------------------------
(* The start-up *)

ProxyColumns == <<"proxy_host", "proxy_port", "proxy_credential_id">>

\* docker-entrypoint.sh: a script of its own, whose failure does not stop the start.
Entrypoint == AddMissing("devices", ProxyColumns) \o <<Commit>>

\* metadata.create_all: whole tables, as the models of this release have them; the order is
\* that of the references between them.
TableOrder ==
  <<"credentials", "destinations", "groups", "job_runs", "notification_channels",
    "schedules", "users", "audit_logs", "devices", "locations", "backups", "backup_failures">>
CreateAll ==
  [i \in DOMAIN TableOrder |-> CreateIfMissing(TableOrder[i], Models[TableOrder[i]])]

\* _apply_migrations, before the first migration
CleanUp == <<DropIfExists("credentials_new"), Commit>>

V09 == AddMissing("credentials", <<"group">>) \o <<Commit>>
V15 == AddMissing("devices", ProxyColumns) \o <<Commit>>
V16(db) ==
  IF ~Has(db, "groups") THEN <<>>
  ELSE AddMissing("groups", <<"destination_ids", "backup_engine", "notification_ids">>)
         \o <<Commit>>

\* Seeded fault: the table is dropped in a transaction of its own.
DropCommitted(db) ==
  IF "username_NULL" \in db.def["credentials"] THEN <<>>
  ELSE <<Commit, ForeignKeys(FALSE), Create("credentials_new", Models["credentials"]),
         Copy("credentials", "credentials_new"), Drop("credentials"), Commit,
         Rename("credentials_new", "credentials"), Commit, ForeignKeys(TRUE)>>
\* Seeded fault: the keys are switched off when a transaction is open, which has no effect.
KeysTooLate(db) ==
  IF "username_NULL" \in db.def["credentials"] THEN <<>>
  ELSE <<Create("credentials_new", Models["credentials"]),
         Copy("credentials", "credentials_new"), ForeignKeys(FALSE), Drop("credentials"),
         Rename("credentials_new", "credentials"), Commit, ForeignKeys(TRUE)>>
\* v161: SQLite cannot relax a column, so the table is built anew beside the old one.
V161(db) ==
  IF "username_NULL" \in db.def["credentials"] THEN <<>>
  ELSE <<Commit, ForeignKeys(FALSE), Create("credentials_new", Models["credentials"]),
         Copy("credentials", "credentials_new"), Drop("credentials"),
         Rename("credentials_new", "credentials"), Commit, ForeignKeys(TRUE)>>

\* Seeded fault: each correction is committed at once.
RepairOneByOne(db) ==
  IF "updated_at" \in db.wrong
  THEN <<Correct("updated_at"), Commit, Correct("group"), Commit>> ELSE <<>>
\* v161_repair: values that an earlier v161 had put into the wrong columns
V161Repair(db) ==
  IF "updated_at" \in db.wrong THEN <<Correct("updated_at"), Correct("group"), Commit>>
  ELSE <<>>

V17(db) ==
  IF Has(db, "backup_failures") THEN <<>> ELSE <<Create("backup_failures", {}), Commit>>
V18(db) == IF Has(db, "audit_logs") THEN <<>> ELSE <<Create("audit_logs", {}), Commit>>

Body(name, db) ==
  CASE name = "v09" -> V09
    [] name = "v15" -> V15
    [] name = "v16" -> V16(db)
    [] name = "v161" -> V161(db)
    [] name = "v161_repair" -> V161Repair(db)
    [] name = "v17" -> V17(db)
    [] name = "v18" -> V18(db)

\* A migration runs unless it is marked, and is marked afterwards.
Migration(name, db) ==
  IF name \in db.marks THEN <<>> ELSE Body(name, db) \o <<Mark(name), Commit>>

\* _fix_orphaned_credential_refs, at every start
FixOrphans == <<Correct("credential_id"), Correct("proxy_credential_id"), Commit>>

Stages == <<"entrypoint", "create_all", "clean_up">> \o Migrations \o <<"orphans">>
Stage(name, db) ==
  CASE name = "entrypoint" -> Entrypoint
    [] name = "create_all" -> CreateAll
    [] name = "clean_up" -> CleanUp
    [] name = "orphans" -> FixOrphans
    [] OTHER -> Migration(name, db)

-----------------------------------------------------------------------------
(* The chain of Alembic *)

\* batch_alter_table with a new table: its foreign keys are not enforced.
Recreate(db, t, C) ==
  <<Create(Tmp[t], db.def[t] \union C), Copy(t, Tmp[t]), Drop(t), Rename(Tmp[t], t)>>

InitialSchema ==
  <<Create("credentials", {}), Create("destinations", {}), Create("job_runs", {}),
    Create("schedules", {}), Create("devices", {}), Create("backups", {})>>
AddGroups == <<Create("groups", {}), Add("credentials", "group")>>
AddGitTypes == <<>>
AddProxy == <<Add("devices", "proxy_host"), Add("devices", "proxy_port")>>
AddProxyCredential == <<Add("devices", "proxy_credential_id")>>
RelaxEnums(db) ==
  Recreate(db, "devices", {}) \o Recreate(db, "destinations", {})
    \o AddMissing("groups", <<"destination_ids", "backup_engine", "notification_ids">>)
UsernameNullable(db) == Recreate(db, "credentials", {"username_NULL"})
AddTelegramType == <<>>
AddConfigChange(db) ==
  (IF Has(db, "notification_channels") THEN <<>> ELSE <<Create("notification_channels", {})>>)
    \o <<Add("notification_channels", "on_config_change"),
         Add("devices", "is_critical"), Add("devices", "monitoring_interval")>>
AddLocations ==
  <<Create("locations", {}), Add("groups", "location_id"), Add("devices", "location_id")>>
AddDescription == <<Add("destinations", "description")>>
AddOverride == <<Add("devices", "destination_ids_override")>>
AddFileExtension == <<Correct("config_json")>>
AddFailures == <<Create("backup_failures", {})>>
\* Seeded fault: that the application may have made the table is forgotten.
UsersAlways(db) == <<Create("users", {})>>
AddUsers(db) == IF Has(db, "users") THEN <<>> ELSE <<Create("users", {})>>
KeepUserIds(db) ==
  IF "AUTOINCREMENT" \in db.def["users"] THEN <<>>
  ELSE Recreate(db, "users", {"AUTOINCREMENT"})

Revision(n, db) ==
  CASE n = 1 -> InitialSchema
    [] n = 2 -> AddGroups
    [] n = 3 -> AddGitTypes
    [] n = 4 -> AddProxy
    [] n = 5 -> AddProxyCredential
    [] n = 6 -> RelaxEnums(db)
    [] n = 7 -> UsernameNullable(db)
    [] n = 8 -> AddTelegramType
    [] n = 9 -> AddConfigChange(db)
    [] n = 10 -> AddLocations
    [] n = 11 -> AddDescription
    [] n = 12 -> AddOverride
    [] n = 13 -> AddFileExtension
    [] n = 14 -> AddFailures
    [] n = 15 -> AddUsers(db)
    [] n = 16 -> KeepUserIds(db)

-----------------------------------------------------------------------------
VARIABLES
  disk,      \* the database as a restart would find it
  work,      \* the database as the running script sees it
  open,      \* it has a transaction open
  todo,      \* statements of the script still to come
  keys,      \* the application's connection enforces foreign keys
  stage,     \* 0: not running; else the stage of the start-up, or serving
  alembic,   \* what became of the last run of Alembic
  crashes, upgrades,
  had,       \* observer: tables with rows of the installation
  untouched  \* observer: Alembic knows what is there: neither has the new release
             \* started, nor has the container died

vars == <<disk, work, open, todo, keys, stage, alembic, crashes, upgrades, had, untouched>>

LastStage == Len(Stages)
Serving == LastStage + 1

\* The type invariant: the script only names tables and columns of the models, and stays in
\* its place.
TypeOK ==
  /\ IsDb(disk) /\ IsDb(work)
  /\ open \in BOOLEAN /\ keys \in BOOLEAN /\ untouched \in BOOLEAN
  /\ todo \in Seq(Statements)
  /\ (~open /\ todo = <<>> => work = disk)
  /\ stage \in 0 .. Serving
  /\ alembic \in {"never", "running", "done", "failed", "killed"}
  /\ crashes \in 0 .. MaxCrashes /\ upgrades \in 0 .. MaxUpgrades
  /\ had \subseteq DOMAIN Models

\* The revision that makes each table and, for the later columns, each column
Since ==
  [credentials |-> 1, destinations |-> 1, job_runs |-> 1, schedules |-> 1, devices |-> 1,
   backups |-> 1, groups |-> 2, notification_channels |-> 9, locations |-> 10,
   backup_failures |-> 14, users |-> 15]
Later ==
  {<<"credentials", "group", 2>>, <<"devices", "proxy_host", 4>>, <<"devices", "proxy_port", 4>>,
   <<"devices", "proxy_credential_id", 5>>, <<"groups", "destination_ids", 6>>,
   <<"groups", "backup_engine", 6>>, <<"groups", "notification_ids", 6>>,
   <<"credentials", "username_NULL", 7>>, <<"notification_channels", "on_config_change", 9>>,
   <<"devices", "is_critical", 9>>, <<"devices", "monitoring_interval", 9>>,
   <<"groups", "location_id", 10>>, <<"devices", "location_id", 10>>,
   <<"destinations", "description", 11>>, <<"devices", "destination_ids_override", 12>>,
   <<"users", "AUTOINCREMENT", 16>>}
\* The tables of an installation of revision r, as the chain makes them from nothing
Installed(r) ==
  [t \in {u \in DOMAIN Since : Since[u] <= r} |->
     {c \in Columns : \E n \in 1 .. r : <<t, c, n>> \in Later}]

\* What its application had created beside the chain
Beside(r) ==
  IF r \in 1 .. 8 THEN {{}, {"notification_channels"}} ELSE IF r = 14 THEN {{}, {"users"}} ELSE {{}}
\* What its start-up had recorded: nothing before there were records
Recorded(r) == IF r >= 7 THEN {{}, {"v09", "v15", "v16", "v161"}} ELSE {{}}
Wrong(r, marks) ==
  {{}, (IF r >= 1 THEN {"credential_id"} ELSE {})
         \union (IF r >= 5 THEN {"proxy_credential_id"} ELSE {})
         \union (IF marks # {} THEN Swap ELSE {})}

Init ==
  /\ \E r \in Tracked \union Untracked :
       \E beside \in Beside(r), marks \in Recorded(r),
          rev \in (IF r \in Tracked THEN {r} ELSE {}) \union (IF r \in Untracked THEN {0} ELSE {}) :
         \E wrong \in Wrong(r, marks) :
           LET def == [t \in DOMAIN Installed(r) \union beside |->
                        IF t \in DOMAIN Installed(r) THEN Installed(r)[t] ELSE {}]
           IN /\ disk = [def |-> def, holds |-> DOMAIN def, marks |-> marks, rev |-> rev,
                         wrong |-> wrong]
              /\ untouched = (rev = r)
  /\ work = disk /\ had = disk.holds
  /\ open = FALSE /\ todo = <<>> /\ keys = TRUE
  /\ stage = 0 /\ alembic = "never" /\ crashes = 0 /\ upgrades = 0

Upgrading == alembic = "running"
\* The connection of the script that runs enforces foreign keys: env.py and the entrypoint
\* open connections of their own, without the pragma.
Enforced == ~Upgrading /\ stage > 1 /\ keys

Execute ==
  /\ todo # <<>>
  /\ Possible(Head(todo), work, Enforced)
  /\ LET s == Head(todo)
     IN /\ work' = After(s, work)
        /\ open' = (s.do # "commit" /\ (open \/ s.do \in Writes))
        /\ disk' = IF open' THEN disk ELSE work'
        /\ keys' = IF s.do = "pragma" /\ ~open THEN s.on ELSE keys
  /\ todo' = Tail(todo)
  /\ UNCHANGED <<stage, alembic, crashes, upgrades, had, untouched>>

\* The process that runs the script ends, and its transaction with it.
Ends == work' = disk /\ open' = FALSE /\ todo' = <<>> /\ UNCHANGED disk

\* A statement fails: the entrypoint goes on to the application all the same, the application
\* does not start, Alembic stops.
Raise ==
  /\ todo # <<>>
  /\ ~Possible(Head(todo), work, Enforced)
  /\ Ends
  /\ IF Upgrading THEN alembic' = "failed" /\ UNCHANGED <<stage, keys>>
     ELSE /\ stage' = IF stage = 1 THEN 1 ELSE 0
          /\ keys' = TRUE
          /\ UNCHANGED alembic
  /\ UNCHANGED <<crashes, upgrades, had, untouched>>

NextStage ==
  /\ ~Upgrading /\ todo = <<>> /\ stage < LastStage
  /\ stage' = stage + 1
  /\ todo' = Stage(Stages[stage'], work)
  /\ untouched' = FALSE
  /\ UNCHANGED <<disk, work, open, keys, alembic, crashes, upgrades, had>>

\* The migrations of init_db are done.
Initialised == stage = Serving \/ (stage = LastStage /\ todo = <<>>)

\* The columns that the start-up goes on to read: the default account, destinations and group,
\* and the schedules.
Readable(db) ==
  \A t \in {"users", "destinations", "groups", "schedules"} : Models[t] \ Flags \subseteq db.def[t]

Serve ==
  /\ ~Upgrading /\ stage = LastStage /\ todo = <<>>
  /\ stage' = IF Readable(disk) THEN Serving ELSE 0
  /\ UNCHANGED <<disk, work, open, todo, keys, alembic, crashes, upgrades, had, untouched>>

\* The operator runs `alembic upgrade head', in the running container or before the start.
StartUpgrade ==
  /\ ~Upgrading /\ stage \in {0, Serving} /\ upgrades < MaxUpgrades
  /\ alembic' = "running" /\ upgrades' = upgrades + 1
  /\ UNCHANGED <<disk, work, open, todo, keys, stage, crashes, had, untouched>>

NextRevision ==
  /\ Upgrading /\ todo = <<>> /\ disk.rev < Newest
  /\ todo' = Revision(disk.rev + 1, disk) \o <<Version(disk.rev + 1), Commit>>
  /\ UNCHANGED <<disk, work, open, keys, stage, alembic, crashes, upgrades, had, untouched>>

EndUpgrade ==
  /\ Upgrading /\ todo = <<>> /\ disk.rev = Newest
  /\ alembic' = "done"
  /\ UNCHANGED <<disk, work, open, todo, keys, stage, crashes, upgrades, had, untouched>>

Crash ==
  /\ stage # 0 \/ Upgrading
  /\ crashes < MaxCrashes /\ crashes' = crashes + 1
  /\ Ends
  /\ stage' = 0 /\ keys' = TRUE
  /\ alembic' = IF Upgrading THEN "killed" ELSE alembic
  /\ untouched' = FALSE
  /\ UNCHANGED <<upgrades, had>>

Progress == Execute \/ Raise \/ NextStage \/ Serve \/ NextRevision \/ EndUpgrade

Next == Progress \/ StartUpgrade \/ Crash

Spec == Init /\ [][Next]_vars
\* The container is started again whenever it has stopped, and scripts go on.
FairSpec == Spec /\ WF_vars(Progress)

-----------------------------------------------------------------------------
\* What an installation had is there, in its place, whenever the container dies: between no
\* two statements of any script is the only copy of a table under another name.
DataKept == had \subseteq disk.holds

\* When the migrations of init_db are done, they have done what they promise, also after any number of
\* interrupted starts: all tables and the columns of v09 to v161, no leftover of v161, the
\* rows corrected, and foreign keys enforced again.
InitialisedIsCurrent ==
  Initialised /\ ~Upgrading =>
    /\ DOMAIN Models \subseteq DOMAIN disk.def
    /\ \A t \in {"credentials", "groups"} : Models[t] \subseteq disk.def[t]
    /\ {"proxy_host", "proxy_port", "proxy_credential_id"} \subseteq disk.def["devices"]
    /\ ~Has(disk, "credentials_new")
    /\ disk.wrong = {}
    /\ keys

\* An interrupted start can be repeated until it comes through: "App survives restart after a
\* Docker upgrade killed a mid-flight migration" (tests/test_db_migrations.py:200).
StartsAgain == []<>Initialised

\* The order that README.md:596-603 gives for an upgrade, Alembic first and then the start,
\* works from every revision, and from an empty database ("Support a genuinely empty
\* database too", migrations/versions/92e51d308f17, line 21); and after an Alembic that ran
\* to the end, in whatever order, the next start finds every column of the models.
UpgradesComplete ==
  /\ untouched => alembic # "failed"
  /\ alembic = "done" /\ Initialised => \A t \in DOMAIN Models : Models[t] \subseteq disk.def[t]
=============================================================================
