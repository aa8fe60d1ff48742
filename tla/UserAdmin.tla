------------------------------ MODULE UserAdmin ------------------------------
(***************************************************************************)
(* Administration of accounts: app/routers/users.py with the dependencies  *)
(* of app/security.py and the first account of app/bootstrap.py.           *)
(*                                                                         *)
(* The handlers are plain functions: FastAPI runs each request in a thread *)
(* of its own, so requests interleave at every database statement.  What a *)
(* request read before (the actor, the target) may be old when it writes.  *)
(* _guard_change therefore begins with an UPDATE: SQLite lets one writer   *)
(* in at a time, until that writer commits or rolls back.                  *)
(***************************************************************************)
EXTENDS Naturals, FiniteSets

CONSTANTS
  Requests,   \* threads that handle requests for administrators
  Roles,      \* UserRole
  MaxId,      \* bound: accounts ever created
  NoRequest

Ids == 1 .. MaxId
Ops == {"update", "delete"}
States == {"active", "inactive"}

ASSUME RoleAssumption == "admin" \in Roles
ASSUME RequestAssumption == NoRequest \notin Requests
ASSUME IdAssumption == MaxId \in Nat \ {0}

VARIABLES
  users,   \* the users table
  seq,     \* sqlite_sequence: the largest id ever given out
  writer,  \* the request that holds SQLite's write lock
  booted,  \* the process has started once
  pc,      \* where each request is
  req,     \* what each request holds in memory
  births   \* observer: accounts created so far

database == <<users, seq>>
vars == <<users, seq, writer, booted, pc, req, births>>

-----------------------------------------------------------------------------
(* Accounts and requests *)

\* born is an observer: it tells two accounts with the same id apart.
Account == [there : BOOLEAN, role : Roles, state : States, born : Nat]
NoAccount == [there |-> FALSE, role |-> "admin", state |-> "inactive", born |-> 0]
NewAccount(r, s) == [there |-> TRUE, role |-> r, state |-> s, born |-> births + 1]

\* The values of an update: asked says which fields the request sets; role and
\* state hold the value asked for, or what was loaded before the lock was taken.
Request == [actor : Ids, target : Ids, op : Ops, asked : SUBSET {"role", "state"},
            role : Roles, state : States, born : Nat]
NoValues == [actor |-> 1, target |-> 1, op |-> "update", asked |-> {},
             role |-> "admin", state |-> "active", born |-> 0]

IsAdmin(i) == users[i].there /\ users[i].state = "active" /\ users[i].role = "admin"
ActiveAdmins == {i \in Ids : IsAdmin(i)}

TypeOK ==
  /\ users \in [Ids -> Account]
  /\ seq \in 0 .. MaxId
  /\ writer \in Requests \union {NoRequest}
  /\ booted \in BOOLEAN
  /\ pc \in [Requests -> {"idle", "authenticated", "loaded", "checked"}]
  /\ req \in [Requests -> Request]
  /\ births \in Nat
  /\ \A r \in Requests : pc[r] = "checked" <=> writer = r

Init ==
  /\ users = [i \in Ids |-> NoAccount]
  /\ seq = 0
  /\ writer = NoRequest
  /\ booted = FALSE
  /\ pc = [r \in Requests |-> "idle"]
  /\ req = [r \in Requests |-> NoValues]
  /\ births = 0

-----------------------------------------------------------------------------
(* Start-up and creation *)

LockFree == writer = NoRequest

\* AUTOINCREMENT: an id is never given out twice.
NextId(i) == i = seq + 1

Insert(i, role, state) ==
  /\ NextId(i)
  /\ users' = [users EXCEPT ![i] = NewAccount(role, state)]
  /\ seq' = IF i > seq THEN i ELSE seq
  /\ births' = births + 1

\* ensure_default_admin at a start: an account only if the table is empty.  A
\* restart ends every request; an open transaction is rolled back.
Start ==
  /\ IF \E k \in Ids : users[k].there
       THEN UNCHANGED <<users, seq, births>>
       ELSE \E i \in Ids : Insert(i, "admin", "active")
  /\ booted' = TRUE
  /\ writer' = NoRequest
  /\ pc' = [r \in Requests |-> "idle"]
  /\ req' = [r \in Requests |-> NoValues]

\* _create_user inserts and commits at once; a taken username rolls back.
CreateUser(r, role, state) ==
  /\ pc[r] = "authenticated" /\ LockFree
  /\ \E i \in Ids : Insert(i, role, state)
  /\ pc' = [pc EXCEPT ![r] = "idle"]
  /\ req' = [req EXCEPT ![r] = NoValues]
  /\ UNCHANGED <<writer, booted>>

-----------------------------------------------------------------------------
(* Updates and deletions *)

\* get_current_user and require_admin: the account of the session, as it is now.
Authenticate(r, a) ==
  /\ pc[r] = "idle" /\ booted /\ IsAdmin(a)
  /\ pc' = [pc EXCEPT ![r] = "authenticated"]
  /\ req' = [req EXCEPT ![r] = [NoValues EXCEPT !.actor = a]]
  /\ UNCHANGED <<database, writer, booted, births>>

\* _get_user, and the arguments of _guard_change: fields the request does not
\* set are read from the object just loaded.
Load(r, t, op, asked, role, state) ==
  /\ pc[r] = "authenticated" /\ users[t].there
  /\ op = "delete" => asked = {}
  /\ "role" \notin asked => role = users[t].role
  /\ "state" \notin asked => state = users[t].state
  /\ pc' = [pc EXCEPT ![r] = "loaded"]
  /\ req' = [req EXCEPT ![r] =
               [actor |-> req[r].actor, target |-> t, op |-> op, asked |-> asked,
                role |-> role, state |-> state, born |-> users[t].born]]
  /\ UNCHANGED <<database, writer, booted, births>>

\* removes_admin: what the change would leave of an active administrator.
Removes(q) == q.op = "delete" \/ q.state = "inactive" \/ q.role # "admin"

\* Seeded faults: the check takes no lock; the actor is not read again.
NoLockNeeded == TRUE
ActorAsAuthenticated(q) == TRUE

\* The UPDATE that begins _guard_change waits for the other writer.
LockTaken == LockFree
ActorStillAdmin(q) == IsAdmin(q.actor)

\* The conditions of _guard_change, on rows read again under the lock.
Allowed(q) ==
  /\ users[q.target].there /\ users[q.actor].there
  /\ ActorStillAdmin(q)
  /\ ~(q.target = q.actor /\ Removes(q))
  /\ IsAdmin(q.target) /\ Removes(q) => Cardinality(ActiveAdmins) > 1

GuardPasses(r) ==
  /\ pc[r] = "loaded" /\ LockTaken
  /\ Allowed(req[r])
  /\ writer' = r
  /\ pc' = [pc EXCEPT ![r] = "checked"]
  /\ UNCHANGED <<database, booted, req, births>>

\* An HTTPException, a vanished row, a lock not granted in time, or a target that
\* was not found: the session rolls back and closes.
Refused(r) ==
  /\ \/ pc[r] = "authenticated"
     \/ pc[r] = "loaded" /\ (~LockTaken \/ ~Allowed(req[r]))
  /\ pc' = [pc EXCEPT ![r] = "idle"]
  /\ req' = [req EXCEPT ![r] = NoValues]
  /\ UNCHANGED <<database, writer, booted, births>>

Changed(a, q) ==
  CASE q.op = "delete" -> NoAccount
    [] q.op = "update" ->
         [a EXCEPT !.role = IF "role" \in q.asked THEN q.role ELSE @,
                   !.state = IF "state" \in q.asked THEN q.state ELSE @]

Release == NoRequest

\* The assignments and the commit of _update_user, the delete of _delete_user.
Commit(r) ==
  /\ pc[r] = "checked"
  /\ users' = [users EXCEPT ![req[r].target] = Changed(@, req[r])]
  /\ writer' = Release
  /\ pc' = [pc EXCEPT ![r] = "idle"]
  /\ req' = [req EXCEPT ![r] = NoValues]
  /\ UNCHANGED <<seq, booted, births>>

-----------------------------------------------------------------------------
(* Specification *)

Next ==
  \/ Start
  \/ \E r \in Requests :
       \/ \E a \in Ids : Authenticate(r, a)
       \/ \E role \in Roles, state \in States : CreateUser(r, role, state)
       \/ \E t \in Ids, op \in Ops, asked \in SUBSET {"role", "state"},
             role \in Roles, state \in States : Load(r, t, op, asked, role, state)
       \/ GuardPasses(r)
       \/ Refused(r)
       \/ Commit(r)

Spec == Init /\ [][Next]_vars

-----------------------------------------------------------------------------
(* Properties *)

\* Once the application has started, an active administrator remains, whatever
\* administrators do to each other at the same time: two who demote or delete
\* one another at once do not lock everybody out.
AdminRemains == booted => ActiveAdmins # {}

\* An account is changed or deleted only on behalf of somebody who is an active
\* administrator at that very moment, and not merely was one when the request
\* began.
ChangesByAdmins ==
  [][\A i \in Ids :
       users[i].there /\ users'[i] # users[i] =>
         \E r \in Requests : pc[r] = "checked" /\ req[r].target = i /\ IsAdmin(req[r].actor)]_vars

\* A request changes the account it loaded: an account created after its target
\* was deleted never takes the place of the target.
TargetKept ==
  \A r \in Requests : pc[r] = "checked" => users[req[r].target].born = req[r].born

=============================================================================
