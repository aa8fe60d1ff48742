---------------------------- MODULE RequestProofs ----------------------------
(***************************************************************************)
(* Requests that are handled in threads: the administration of accounts    *)
(* (UserAdmin), where the write lock of the database orders them, and the  *)
(* limiter in front of the JSON API (RateLimiter), where nothing does.     *)
(***************************************************************************)
EXTENDS UserAdmin, RateLimiter, FiniteSetTheorems, TLAPS

(***************************************************************************)
(* UserAdmin, for any number of requests, roles and accounts.              *)
(* The argument needs no counting: whoever holds the write lock acts for   *)
(* an active administrator, who cannot be the one the change removes.      *)
(***************************************************************************)

\* Ids above the sequence were never given out.
Unused == \A k \in Ids : k > seq => ~users[k].there

\* Before the first start there are no accounts and no requests.
Unbooted == ~booted => /\ \A k \in Ids : ~users[k].there
                       /\ \A r \in Requests : pc[r] = "idle"

\* What a request loaded is still that account, if it is there at all.
LoadedAt(r) ==
  pc[r] \in {"loaded", "checked"} =>
    /\ req[r].target \in 1 .. seq
    /\ users[req[r].target].there => users[req[r].target].born = req[r].born

\* What the guard established holds until the commit.
CheckedAt(r) ==
  pc[r] = "checked" =>
    /\ IsAdmin(req[r].actor)
    /\ users[req[r].target].there
    /\ req[r].target = req[r].actor => ~Removes(req[r])

IInv ==
  /\ TypeOK
  /\ Unused
  /\ Unbooted
  /\ \A r \in Requests : LoadedAt(r) /\ CheckedAt(r)
  /\ AdminRemains

-----------------------------------------------------------------------------
(* Lemmas about the operators *)

\* A changed row is a row, and an update keeps the account and who it is.
LEMMA ChangedFields ==
  ASSUME NEW a \in Account, NEW q \in Request
  PROVE  /\ Changed(a, q) \in Account
         /\ q.op = "update" => /\ Changed(a, q).there = a.there
                               /\ Changed(a, q).born = a.born
         /\ q.op = "delete" => ~Changed(a, q).there
         /\ ~Removes(q) /\ a.there /\ a.state = "active" /\ a.role = "admin" =>
              /\ Changed(a, q).there
              /\ Changed(a, q).state = "active"
              /\ Changed(a, q).role = "admin"
  <1>1. NoAccount \in Account
    BY RoleAssumption DEF NoAccount, Account, States
  <1>2. CASE q.op = "delete"
    <2>1. Changed(a, q) = NoAccount
      BY <1>2 DEF Changed
    <2>2. ~NoAccount.there
      BY DEF NoAccount
    <2> QED BY <1>1, <1>2, <2>1, <2>2 DEF Removes
  <1>3. CASE q.op = "update"
    <2> DEFINE role == IF "role" \in q.asked THEN q.role ELSE a.role
               state == IF "state" \in q.asked THEN q.state ELSE a.state
    <2>1. Changed(a, q) = [a EXCEPT !.role = role, !.state = state]
      BY <1>3 DEF Changed
    <2>2. role \in Roles /\ state \in States
      BY DEF Request, Account
    <2>3. ~Removes(q) => q.role = "admin" /\ q.state = "active"
      BY DEF Removes, Request, States
    <2> HIDE DEF role, state
    <2>4. Changed(a, q) \in Account
      BY <2>1, <2>2 DEF Account
    <2>5. /\ Changed(a, q).there = a.there /\ Changed(a, q).born = a.born
          /\ Changed(a, q).role = role /\ Changed(a, q).state = state
      BY <2>1 DEF Account
    <2> QED BY <1>3, <2>3, <2>4, <2>5 DEF role, state
  <1> QED BY <1>2, <1>3 DEF Request, Ops

\* A new account is a row with the values given to it.
LEMMA NewAccountFields ==
  ASSUME NEW role \in Roles, NEW state \in States, births \in Nat
  PROVE  /\ NewAccount(role, state) \in Account
         /\ NewAccount(role, state).there
         /\ NewAccount(role, state).role = role
         /\ NewAccount(role, state).state = state
  BY DEF NewAccount, Account

\* A request without values is one.
LEMMA NoValuesType == NoValues \in Request
  BY RoleAssumption, IdAssumption DEF NoValues, Request, Ids, Ops, States

\* Insert takes an id that no account has, and changes nothing else.
LEMMA InsertFields ==
  ASSUME TypeOK, Unused, NEW i \in Ids, NEW role \in Roles, NEW state \in States,
         Insert(i, role, state)
  PROVE  /\ users' \in [Ids -> Account]
         /\ seq' = i /\ i = seq + 1 /\ seq' \in 0 .. MaxId
         /\ births' \in Nat
         /\ ~users[i].there
         /\ users'[i].there /\ users'[i].role = role /\ users'[i].state = state
         /\ \A k \in Ids \ {i} : users'[k] = users[k]
         /\ Unused'
  <1>1. i = seq + 1 /\ seq \in Nat /\ MaxId \in Nat /\ i \in 1 .. MaxId
    BY IdAssumption DEF Insert, NextId, TypeOK, Ids
  <1>2. users \in [Ids -> Account] /\ births \in Nat
    BY DEF TypeOK
  <1>3. users' = [users EXCEPT ![i] = NewAccount(role, state)]
    BY DEF Insert
  <1>4. seq' = i
    BY <1>1 DEF Insert
  <1>5. ~users[i].there
    BY <1>1 DEF Unused
  <1>6. births' \in Nat
    BY <1>2 DEF Insert
  <1>7. /\ NewAccount(role, state) \in Account
        /\ NewAccount(role, state).there
        /\ NewAccount(role, state).role = role
        /\ NewAccount(role, state).state = state
    BY <1>2, NewAccountFields
  <1>8. users' \in [Ids -> Account] /\ users'[i] = NewAccount(role, state)
        /\ \A k \in Ids \ {i} : users'[k] = users[k]
    BY <1>2, <1>3, <1>7
  <1>9. Unused'
    <2> SUFFICES ASSUME NEW k \in Ids, k > seq'
                 PROVE  ~users'[k].there
      BY DEF Unused
    <2>1. k # i /\ k > seq
      BY <1>1, <1>4 DEF Ids
    <2> QED BY <2>1, <1>8 DEF Unused
  <1> QED BY <1>1, <1>4, <1>5, <1>6, <1>7, <1>8, <1>9

-----------------------------------------------------------------------------
(* The inductive invariant *)

LEMMA InitInv == Init => IInv
  <1> SUFFICES ASSUME Init PROVE IInv
    OBVIOUS
  <1>1. NoAccount \in Account /\ ~NoAccount.there
    BY RoleAssumption DEF NoAccount, Account, States
  <1>2. TypeOK
    <2>1. users \in [Ids -> Account] /\ seq \in 0 .. MaxId /\ births \in Nat
      BY <1>1, IdAssumption DEF Init
    <2>2. req \in [Requests -> Request]
      BY NoValuesType DEF Init
    <2>3. \A r \in Requests : pc[r] = "idle" /\ writer # r
      BY RequestAssumption DEF Init
    <2>4. pc \in [Requests -> {"idle", "authenticated", "loaded", "checked"}]
      BY DEF Init
    <2> QED BY <2>1, <2>2, <2>3, <2>4 DEF Init, TypeOK
  <1>3. Unused /\ Unbooted
    BY <1>1 DEF Init, Unused, Unbooted
  <1>4. \A r \in Requests : LoadedAt(r) /\ CheckedAt(r)
    BY DEF Init, LoadedAt, CheckedAt
  <1> QED BY <1>2, <1>3, <1>4 DEF IInv, AdminRemains, Init

\* Steps that leave the accounts alone keep everything but the requests' part.
LEMMA SameAccounts ==
  ASSUME IInv, UNCHANGED database, booted' = booted
  PROVE  /\ Unused' /\ AdminRemains'
         /\ \A k \in Ids : IsAdmin(k)' = IsAdmin(k)
         /\ ~booted' => \A k \in Ids : ~users'[k].there
  BY DEF IInv, Unused, Unbooted, AdminRemains, ActiveAdmins, IsAdmin, database

\* A request that does not move keeps its part over unchanged accounts.
LEMMA OtherRequests ==
  ASSUME IInv, UNCHANGED database, booted' = booted,
         NEW r \in Requests, pc'[r] = pc[r], req'[r] = req[r]
  PROVE  LoadedAt(r)' /\ CheckedAt(r)'
  <1>1. LoadedAt(r) /\ CheckedAt(r)
    BY DEF IInv
  <1>2. LoadedAt(r)'
    BY <1>1 DEF LoadedAt, database
  <1>3. CheckedAt(r)'
    BY <1>1 DEF CheckedAt, IsAdmin, Removes, database
  <1> QED BY <1>2, <1>3

\* A request that ends keeps its part trivially.
LEMMA IdleRequest ==
  ASSUME NEW r \in Requests, pc'[r] \notin {"loaded", "checked"}
  PROVE  LoadedAt(r)' /\ CheckedAt(r)'
  BY DEF LoadedAt, CheckedAt

\* A new account takes nothing away from the others.
LEMMA InsertKeepsAdmins ==
  ASSUME TypeOK, Unused, NEW i \in Ids, NEW role \in Roles, NEW state \in States,
         Insert(i, role, state)
  PROVE  \A k \in Ids : IsAdmin(k) => IsAdmin(k)'
  <1> SUFFICES ASSUME NEW k \in Ids, IsAdmin(k) PROVE IsAdmin(k)'
    OBVIOUS
  <1>1. ~users[i].there /\ \A j \in Ids \ {i} : users'[j] = users[j]
    BY InsertFields
  <1>2. k # i
    BY <1>1 DEF IsAdmin
  <1> QED BY <1>1, <1>2 DEF IsAdmin

\* Every step keeps the invariant.
LEMMA NextInv == IInv /\ [Next]_vars => IInv'
  <1> SUFFICES ASSUME IInv, [Next]_vars PROVE IInv'
    OBVIOUS
  <1> USE DEF IInv
  <1>Stutter. CASE UNCHANGED vars
    BY <1>Stutter DEF vars, TypeOK, Account, Request, Unused, Unbooted, LoadedAt, CheckedAt,
         AdminRemains, ActiveAdmins, IsAdmin, Removes
  <1>Start. CASE Start
    <2>1. /\ writer' = NoRequest /\ booted' = TRUE
          /\ \A r \in Requests : pc'[r] = "idle"
          /\ pc' \in [Requests -> {"idle", "authenticated", "loaded", "checked"}]
          /\ req' \in [Requests -> Request]
      BY <1>Start, NoValuesType DEF Start
    <2>2. \A r \in Requests : LoadedAt(r)' /\ CheckedAt(r)'
      BY <2>1, IdleRequest
    <2>3. CASE \E k \in Ids : users[k].there
      <3>1. UNCHANGED <<users, seq, births>> /\ booted
        BY <1>Start, <2>3 DEF Start, Unbooted
      <3>2. TypeOK'
        BY <2>1, <3>1, RequestAssumption DEF TypeOK
      <3>3. Unused' /\ Unbooted' /\ AdminRemains'
        BY <2>1, <3>1 DEF Unused, Unbooted, AdminRemains, ActiveAdmins, IsAdmin
      <3> QED BY <2>2, <3>2, <3>3
    <2>4. CASE ~\E k \in Ids : users[k].there
      <3>1. PICK i \in Ids : Insert(i, "admin", "active")
        BY <1>Start, <2>4 DEF Start
      <3>2. "admin" \in Roles /\ "active" \in States
        BY RoleAssumption DEF States
      <3>3. /\ users' \in [Ids -> Account] /\ seq' \in 0 .. MaxId /\ births' \in Nat
            /\ users'[i].there /\ users'[i].role = "admin" /\ users'[i].state = "active"
            /\ Unused'
        BY <3>1, <3>2, InsertFields
      <3>4. TypeOK'
        BY <2>1, <3>3, RequestAssumption DEF TypeOK
      <3>5. AdminRemains'
        BY <3>3 DEF AdminRemains, ActiveAdmins, IsAdmin
      <3> QED BY <2>1, <2>2, <3>3, <3>4, <3>5 DEF Unbooted
    <2> QED BY <2>3, <2>4
  <1>Authenticate. ASSUME NEW r \in Requests, NEW a \in Ids, Authenticate(r, a)
                   PROVE  IInv'
    <2>1. /\ UNCHANGED database /\ booted' = booted /\ booted
          /\ pc[r] = "idle" /\ pc'[r] = "authenticated"
          /\ \A o \in Requests \ {r} : pc'[o] = pc[o] /\ req'[o] = req[o]
      BY <1>Authenticate DEF Authenticate, TypeOK
    <2>2. [NoValues EXCEPT !.actor = a] \in Request
      BY NoValuesType DEF Request
    <2>3. TypeOK'
      BY <1>Authenticate, <2>2 DEF Authenticate, TypeOK, database
    <2>4. \A o \in Requests : LoadedAt(o)' /\ CheckedAt(o)'
      BY <2>1, OtherRequests, IdleRequest
    <2> QED BY <2>1, <2>3, <2>4, SameAccounts DEF Unbooted
  <1>CreateUser. ASSUME NEW r \in Requests, NEW role \in Roles, NEW state \in States,
                        CreateUser(r, role, state)
                 PROVE  IInv'
    <2>1. PICK i \in Ids : Insert(i, role, state)
      BY <1>CreateUser DEF CreateUser
    <2>2. /\ pc[r] = "authenticated" /\ writer = NoRequest /\ pc'[r] = "idle"
          /\ writer' = writer /\ booted' = booted
          /\ \A o \in Requests \ {r} : pc'[o] = pc[o] /\ req'[o] = req[o]
      BY <1>CreateUser DEF CreateUser, LockFree, TypeOK
    <2>3. /\ users' \in [Ids -> Account] /\ seq' \in 0 .. MaxId /\ births' \in Nat
          /\ i = seq + 1 /\ seq' = i /\ Unused'
          /\ \A k \in Ids \ {i} : users'[k] = users[k]
      BY <2>1, InsertFields
    <2>4. TypeOK'
      BY <1>CreateUser, <2>2, <2>3, NoValuesType, RequestAssumption DEF CreateUser, TypeOK
    <2>5. booted
      BY <2>2 DEF Unbooted
    <2>6. AdminRemains'
      BY <2>1, <2>2, <2>5, InsertKeepsAdmins DEF AdminRemains, ActiveAdmins
    <2>7. ASSUME NEW o \in Requests, o # r PROVE LoadedAt(o)' /\ CheckedAt(o)'
      <3>1. pc[o] # "checked"
        BY <2>2, RequestAssumption DEF TypeOK
      <3>2. pc'[o] = pc[o] /\ req'[o] = req[o] /\ LoadedAt(o)
        BY <2>2, <2>7
      <3>3. CASE pc[o] = "loaded"
        <4>1. seq \in Nat /\ req[o].target \in 1 .. seq /\ req[o].target \in Ids
          BY <3>2, <3>3 DEF LoadedAt, TypeOK, Request
        <4>2. req[o].target # i /\ req[o].target \in 1 .. seq'
          BY <2>3, <4>1
        <4>3. users'[req[o].target] = users[req[o].target]
          BY <2>3, <4>1, <4>2
        <4>4. users[req[o].target].there => users[req[o].target].born = req[o].born
          BY <3>2, <3>3 DEF LoadedAt
        <4> QED BY <3>2, <3>3, <4>2, <4>3, <4>4 DEF LoadedAt, CheckedAt
      <3> QED BY <3>1, <3>2, <3>3, IdleRequest
    <2>8. LoadedAt(r)' /\ CheckedAt(r)'
      BY <2>2, IdleRequest
    <2> QED BY <2>2, <2>3, <2>4, <2>5, <2>6, <2>7, <2>8 DEF Unbooted
  <1>Load. ASSUME NEW r \in Requests, NEW t \in Ids, NEW op \in Ops,
                  NEW asked \in SUBSET {"role", "state"},
                  NEW role \in Roles, NEW state \in States,
                  Load(r, t, op, asked, role, state)
           PROVE  IInv'
    <2> DEFINE q == [actor |-> req[r].actor, target |-> t, op |-> op, asked |-> asked,
                     role |-> role, state |-> state, born |-> users[t].born]
    <2>1. /\ UNCHANGED database /\ booted' = booted /\ writer' = writer /\ births' = births
          /\ pc[r] = "authenticated" /\ users[t].there
          /\ pc' = [pc EXCEPT ![r] = "loaded"] /\ req' = [req EXCEPT ![r] = q]
      BY <1>Load DEF Load
    <2>2. /\ pc'[r] = "loaded" /\ req'[r] = q
          /\ \A o \in Requests \ {r} : pc'[o] = pc[o] /\ req'[o] = req[o]
      BY <2>1 DEF TypeOK
    <2>3. q \in Request
      BY DEF TypeOK, Request, Account
    <2>4. TypeOK'
      BY <2>1, <2>3 DEF TypeOK, database
    <2>5. t \in 1 .. seq
      BY <2>1, IdAssumption DEF Unused, Ids, TypeOK
    <2>6. LoadedAt(r)' /\ CheckedAt(r)'
      BY <2>1, <2>2, <2>5 DEF LoadedAt, CheckedAt, database
    <2>7. \A o \in Requests : LoadedAt(o)' /\ CheckedAt(o)'
      BY <2>1, <2>2, <2>6, OtherRequests
    <2>8. booted
      BY <2>1 DEF Unbooted
    <2> QED BY <2>1, <2>4, <2>7, <2>8, SameAccounts DEF Unbooted
  <1>GuardPasses. ASSUME NEW r \in Requests, GuardPasses(r)
                  PROVE  IInv'
    <2>1. /\ UNCHANGED database /\ booted' = booted /\ births' = births /\ req' = req
          /\ pc[r] = "loaded" /\ writer = NoRequest /\ writer' = r
          /\ pc' = [pc EXCEPT ![r] = "checked"]
      BY <1>GuardPasses DEF GuardPasses, LockTaken, LockFree
    <2>2. pc'[r] = "checked" /\ \A o \in Requests \ {r} : pc'[o] = pc[o]
      BY <2>1 DEF TypeOK
    <2>3. TypeOK'
      BY <2>1, <2>2, RequestAssumption DEF TypeOK, database
    <2>4. /\ IsAdmin(req[r].actor)
          /\ users[req[r].target].there
          /\ req[r].target = req[r].actor => ~Removes(req[r])
      BY <1>GuardPasses DEF GuardPasses, Allowed, ActorStillAdmin
    <2>5. LoadedAt(r)'
      BY <2>1, <2>2 DEF LoadedAt, database
    <2>6. CheckedAt(r)'
      BY <2>1, <2>4 DEF CheckedAt, IsAdmin, Removes, database
    <2>7. \A o \in Requests : LoadedAt(o)' /\ CheckedAt(o)'
      BY <2>1, <2>2, <2>5, <2>6, OtherRequests
    <2>8. booted
      BY <2>1 DEF Unbooted
    <2> QED BY <2>1, <2>3, <2>7, <2>8, SameAccounts DEF Unbooted
  <1>Refused. ASSUME NEW r \in Requests, Refused(r)
              PROVE  IInv'
    <2>1. /\ UNCHANGED database /\ booted' = booted /\ writer' = writer /\ births' = births
          /\ pc[r] \in {"authenticated", "loaded"}
          /\ pc' = [pc EXCEPT ![r] = "idle"] /\ req' = [req EXCEPT ![r] = NoValues]
      BY <1>Refused DEF Refused
    <2>2. pc'[r] = "idle" /\ \A o \in Requests \ {r} : pc'[o] = pc[o] /\ req'[o] = req[o]
      BY <2>1 DEF TypeOK
    <2>3. TypeOK'
      BY <2>1, <2>2, NoValuesType DEF TypeOK, database
    <2>4. \A o \in Requests : LoadedAt(o)' /\ CheckedAt(o)'
      BY <2>1, <2>2, OtherRequests, IdleRequest
    <2>5. booted
      BY <2>1 DEF Unbooted
    <2> QED BY <2>1, <2>3, <2>4, <2>5, SameAccounts DEF Unbooted
  <1>Commit. ASSUME NEW r \in Requests, Commit(r)
             PROVE  IInv'
    <2> DEFINE t == req[r].target
               new == Changed(users[t], req[r])
    <2>1. /\ seq' = seq /\ booted' = booted /\ births' = births /\ writer' = NoRequest
          /\ pc[r] = "checked"
          /\ pc' = [pc EXCEPT ![r] = "idle"] /\ req' = [req EXCEPT ![r] = NoValues]
          /\ users' = [users EXCEPT ![t] = new]
      BY <1>Commit DEF Commit, Release
    <2>2. /\ t \in Ids /\ req[r].actor \in Ids /\ req[r] \in Request /\ users[t] \in Account
          /\ pc'[r] = "idle" /\ \A o \in Requests \ {r} : pc'[o] = pc[o] /\ req'[o] = req[o]
      BY <2>1 DEF TypeOK, Request
    <2>3. /\ new \in Account
          /\ req[r].op = "update" => new.there = users[t].there /\ new.born = users[t].born
          /\ req[r].op = "delete" => ~new.there
          /\ ~Removes(req[r]) /\ users[t].there /\ users[t].state = "active" /\ users[t].role = "admin" =>
               new.there /\ new.state = "active" /\ new.role = "admin"
      BY <2>2, ChangedFields
    <2> HIDE DEF new
    <2>4. users'[t] = new /\ \A k \in Ids \ {t} : users'[k] = users[k]
      BY <2>1, <2>2 DEF TypeOK
    <2>5. users' \in [Ids -> Account]
      BY <2>1, <2>3 DEF TypeOK
    <2>6. /\ writer = r
          /\ \A o \in Requests \ {r} : pc[o] # "checked"
          /\ booted /\ users[t].there /\ IsAdmin(req[r].actor)
          /\ t = req[r].actor => ~Removes(req[r])
      BY <2>1 DEF TypeOK, Unbooted, CheckedAt
    <2>7. TypeOK'
      BY <2>1, <2>2, <2>5, <2>6, NoValuesType, RequestAssumption DEF TypeOK
    <2>8. Unused'
      <3>1. t <= seq
        BY <2>1 DEF LoadedAt
      <3>2. seq \in Nat /\ t \in Nat
        BY <2>2 DEF TypeOK, Ids
      <3> QED BY <2>1, <2>4, <3>1, <3>2 DEF Unused, Ids
    <2>9. AdminRemains'
      <3>1. CASE t = req[r].actor
        BY <2>2, <2>3, <2>4, <2>6, <3>1 DEF AdminRemains, ActiveAdmins, IsAdmin
      <3>2. CASE t # req[r].actor
        BY <2>2, <2>4, <2>6, <3>2 DEF AdminRemains, ActiveAdmins, IsAdmin
      <3> QED BY <3>1, <3>2
    <2>10. ASSUME NEW o \in Requests, o # r PROVE LoadedAt(o)' /\ CheckedAt(o)'
      <3>1. pc'[o] = pc[o] /\ req'[o] = req[o] /\ pc[o] # "checked" /\ LoadedAt(o)
        BY <2>2, <2>6, <2>10
      <3>2. CASE pc[o] = "loaded"
        <4>1. req[o].target \in Ids /\ req[o].target \in 1 .. seq
          BY <3>1, <3>2 DEF LoadedAt, TypeOK, Request
        <4>2. users'[req[o].target].there =>
                /\ users[req[o].target].there
                /\ users'[req[o].target].born = users[req[o].target].born
          BY <2>2, <2>3, <2>4, <4>1 DEF Request, Ops
        <4> QED BY <2>1, <3>1, <3>2, <4>1, <4>2 DEF LoadedAt, CheckedAt
      <3> QED BY <3>1, <3>2, IdleRequest
    <2>11. LoadedAt(r)' /\ CheckedAt(r)'
      BY <2>2, IdleRequest
    <2> QED BY <2>1, <2>6, <2>7, <2>8, <2>9, <2>10, <2>11 DEF Unbooted
  <1> QED BY <1>Stutter, <1>Start, <1>Authenticate, <1>CreateUser, <1>Load, <1>GuardPasses,
             <1>Refused, <1>Commit DEF Next

\* The invariant holds in every reachable state.
LEMMA Invariant == Spec => []IInv
  BY InitInv, NextInv, PTL DEF Spec

-----------------------------------------------------------------------------
(* Theorems *)

\* Every variable keeps its type, and exactly the request between its guard and
\* its commit holds SQLite's write lock.
THEOREM TypeCorrect == Spec => []TypeOK
  <1>1. IInv => TypeOK
    BY DEF IInv
  <1> QED BY <1>1, Invariant, PTL

\* However many administrators change or delete each other at once, an active
\* administrator remains from the first start on (_guard_change).
THEOREM AdminAlwaysRemains == Spec => []AdminRemains
  <1>1. IInv => AdminRemains
    BY DEF IInv
  <1> QED BY <1>1, Invariant, PTL

\* A request that changes or deletes an account writes to the account it loaded.
THEOREM TargetIsKept == Spec => []TargetKept
  <1>1. IInv => TargetKept
    BY DEF IInv, TargetKept, LoadedAt, CheckedAt
  <1> QED BY <1>1, Invariant, PTL

\* Only somebody who is an active administrator at the moment of the commit
\* changes or deletes an account.
THEOREM OnlyAdminsChange == Spec => ChangesByAdmins
  <1>1. ASSUME IInv, [Next]_vars, NEW i \in Ids, users[i].there, users'[i] # users[i]
        PROVE  \E r \in Requests : pc[r] = "checked" /\ req[r].target = i /\ IsAdmin(req[r].actor)
    <2> USE DEF IInv
    <2>1. CASE UNCHANGED users
      BY <1>1, <2>1
    <2>2. ASSUME NEW k \in Ids, NEW role \in Roles, NEW state \in States, Insert(k, role, state)
          PROVE  FALSE
      <3>1. ~users[k].there /\ \A j \in Ids \ {k} : users'[j] = users[j]
        BY <1>1, <2>2, InsertFields
      <3> QED BY <1>1, <3>1
    <2>3. ~Start
      <3>1. "admin" \in Roles /\ "active" \in States
        BY RoleAssumption DEF States
      <3> QED BY <1>1, <2>2, <3>1 DEF Start
    <2>4. \A r \in Requests, role \in Roles, state \in States : ~CreateUser(r, role, state)
      BY <2>2 DEF CreateUser
    <2>5. ASSUME NEW r \in Requests, Commit(r)
          PROVE  pc[r] = "checked" /\ req[r].target = i /\ IsAdmin(req[r].actor)
      <3>1. pc[r] = "checked" /\ users' = [users EXCEPT ![req[r].target] = Changed(@, req[r])]
        BY <2>5 DEF Commit
      <3>2. req[r].target = i
        BY <1>1, <3>1 DEF TypeOK
      <3> QED BY <1>1, <3>1, <3>2 DEF CheckedAt
    <2> QED BY <1>1, <2>1, <2>3, <2>4, <2>5
            DEF Next, vars, database, Authenticate, Load, GuardPasses, Refused
  <1>2. IInv /\ [Next]_vars =>
          [\A i \in Ids :
             users[i].there /\ users'[i] # users[i] =>
               \E r \in Requests : pc[r] = "checked" /\ req[r].target = i /\ IsAdmin(req[r].actor)]_vars
    BY <1>1
  <1> QED BY <1>2, Invariant, PTL DEF Spec, ChangesByAdmins

-----------------------------------------------------------------------------
(***************************************************************************)
(* RateLimiter: what the window promises, for any number of requests and   *)
(* threads, any limit and any window.                                      *)
(*                                                                         *)
(* Nothing can be said of a list that threads overwrite for each other.    *)
(* The invariant is about entries made after the last moment at which two  *)
(* requests were at work: of those the list holds every one that is still  *)
(* in the window (Sync), and none is older than the window of the request  *)
(* that looks at it (Fresh).  Two open requests put that moment to now     *)
(* (Alone), so that every clause about an open request speaks of one that  *)
(* nobody else can disturb.                                                *)
(***************************************************************************)

\* Requests have arrived after the clock began, and were told after they arrived.
Times == \A r \in Calls :
  /\ step[r] # "new" => at[r] >= 1
  /\ step[r] = "refused" => told[r] >= at[r]

Alone == \A r, q \in Open : r = q \/ disturbed = clock

\* Who is done arrived before those who are at work, or before the disturbance.
Past == \A r \in Open : \A q \in Calls :
  step[q] \in Done => at[q] <= at[r] \/ at[q] <= disturbed

Known == hits \subseteq Admitted /\ \A r \in Calls : keep[r] \subseteq Admitted

Kept == \A r \in Calls : step[r] = "store" =>
  /\ \A q \in keep[r] : at[q] > at[r] - Window
  /\ \A q \in Admitted : at[q] > disturbed /\ at[q] > at[r] - Window => q \in keep[r]

Sync == \A q \in Admitted : at[q] > disturbed =>
  /\ at[q] > clock - Window => q \in hits
  /\ \A r \in Open : at[q] > at[r] - Window => q \in hits

Looking == {"check", "append", "refuse", "oldest"}
Fresh == \A r \in Calls : step[r] \in Looking /\ at[r] > disturbed =>
  \A q \in hits : at[q] > at[r] - Window

Room == \A r \in Calls : step[r] = "append" /\ at[r] > disturbed => Cardinality(hits) < Max
Full == \A r \in Calls : step[r] \in {"refuse", "oldest"} /\ at[r] > disturbed => Cardinality(hits) >= Max

Cause == \A r \in Calls :
  /\ step[r] = "refused" /\ Calm(r) => Cardinality(InWindow(at[r] - Window)) >= Max
  /\ step[r] = "error" => at[r] <= disturbed

\* The answer names a moment less than a second before an entry of the window expires.
Near(r, o) ==
  /\ at[r] - Window < at[o] /\ at[o] <= at[r]
  /\ told[r] + (after[r] + 1) * Second > at[o] + Window
Answer == \A r \in Calls : step[r] = "refused" /\ Calm(r) => \E o \in Admitted : Near(r, o)

State == Times /\ Alone /\ Past /\ Known /\ Kept /\ Sync /\ Fresh
LInv == LTypeOK /\ State /\ Room /\ Full /\ WindowHolds /\ Cause /\ Answer

-----------------------------------------------------------------------------
(* Types *)

\* Requests that are open or done.
LEMMA InitIsTyped == LInit => LTypeOK
BY LimitAssumption DEF LInit, LTypeOK, Status

\* A set of natural numbers that is not empty has a least one.
LEMMA HasLeast ==
  ASSUME NEW T, T \subseteq Nat, T # {}
  PROVE  \E t \in T : \A u \in T : t <= u
<1> DEFINE I == {0 .. t : t \in T}
<1>1. I \subseteq FiniteSubsetsOf(Nat) /\ I # {}
  <2>1. \A t \in T : 0 .. t \subseteq Nat /\ IsFiniteSet(0 .. t)
    BY FS_Interval
  <2> QED BY <2>1 DEF FiniteSubsetsOf
<1>2. PICK X \in I : \A Y \in I : <<Y, X>> \notin StrictSubsetOrdering(Nat)
  <2> HIDE DEF I
  <2> QED BY <1>1, FS_StrictSubsetOrderingWellFounded, WFMin, Zenon
<1>3. PICK t \in T : X = 0 .. t
  OBVIOUS
<1>4. ASSUME NEW u \in T, u < t PROVE FALSE
  <2>1. 0 .. u \subseteq X /\ 0 .. u # X /\ X \subseteq Nat /\ 0 .. u \in I
    BY <1>3, <1>4
  <2>2. <<0 .. u, X>> \in StrictSubsetOrdering(Nat)
    BY <2>1 DEF StrictSubsetOrdering
  <2> QED BY <1>2, <2>1, <2>2
<1> QED BY <1>4

\* Rounding down loses less than the divisor.
LEMMA DivBounds ==
  ASSUME NEW a \in Nat, NEW b \in Nat \ {0}
  PROVE  a \div b \in Nat /\ (a \div b + 1) * b > a
<1> DEFINE n == a \div b
           m == a % b
<1>1. n \in Int /\ m \in 0 .. b - 1 /\ a = b * n + m
  OBVIOUS
<1> HIDE DEF n, m
<1>2. n >= 0
  <2>1. SUFFICES ASSUME n <= -1 PROVE FALSE
    BY <1>1
  <2>2. b * n <= b * (-1)
    BY <1>1, <2>1
  <2> QED BY <1>1, <2>2
<1>3. (n + 1) * b = b * n + b
  BY <1>1
<1> QED BY <1>1, <1>2, <1>3 DEF n

\* The time left is a number of whole seconds, less than one second short of the moment
\* at which the oldest entry is a window old.
LEMMA LeftIsNat ==
  ASSUME LTypeOK, hits # {}
  PROVE  /\ Left \in Nat /\ OldestHit \in {at[q] : q \in hits}
         /\ (Left + 1) * Second > OldestHit + Window - clock
<1> USE LimitAssumption
<1> DEFINE T == {at[q] : q \in hits}
           left == Window - (clock - OldestHit)
<1>1. T \subseteq Nat /\ T # {}
  BY DEF LTypeOK
<1>2. \E t \in T : \A u \in T : t <= u
  <2> HIDE DEF T
  <2> QED BY <1>1, HasLeast
<1>3. OldestHit \in T
  <2>1. \E t \in T : \A q \in hits : t <= at[q]
    BY <1>2
  <2> QED BY <2>1 DEF OldestHit
<1>4. left \in Int
  BY <1>1, <1>3 DEF LTypeOK
<1>5. CASE left < 0
  BY <1>1, <1>3, <1>4, <1>5 DEF Left, LTypeOK
<1>6. CASE ~(left < 0)
  <2>1. left \in Nat /\ left = OldestHit + Window - clock
    BY <1>1, <1>3, <1>4, <1>6 DEF LTypeOK
  <2>2. Left = left \div Second
    BY <1>6 DEF Left
  <2> HIDE DEF left
  <2>3. left \div Second \in Nat /\ (left \div Second + 1) * Second > left
    <3> HIDE DEF left
    <3> QED BY <2>1, DivBounds
  <2> QED BY <1>3, <2>1, <2>2, <2>3
<1> QED BY <1>5, <1>6

-----------------------------------------------------------------------------
(* Initial states and types *)

\* The invariant holds when the application starts.
LEMMA InitHolds == LInit => LInv
<1> SUFFICES ASSUME LInit PROVE LInv
  OBVIOUS
<1> USE LimitAssumption DEF LInit
<1>1. LTypeOK
  BY DEF LTypeOK, Status
<1>2. Open = {} /\ Admitted = {}
  BY DEF Open, Admitted, Done
<1>3. State
  BY <1>2 DEF State, Times, Alone, Past, Known, Kept, Sync, Fresh, Looking
<1>4. Room /\ Full /\ Cause /\ Answer
  BY DEF Room, Full, Cause, Answer
<1>5. WindowHolds
  <2>1. \A t : InWindow(t) = {}
    BY <1>2 DEF InWindow
  <2> QED BY <2>1, FS_EmptySet DEF WindowHolds
<1> QED BY <1>1, <1>3, <1>4, <1>5 DEF LInv

\* A set with two elements has more than one.
LEMMA TwoElements ==
  ASSUME NEW S, IsFiniteSet(S), NEW a \in S, NEW b \in S, a # b
  PROVE  Cardinality(S) > 1
<1>1. IsFiniteSet({a}) /\ Cardinality({a}) = 1
  BY FS_Singleton
<1>2. Cardinality({a} \cup {b}) = Cardinality({a}) + 1
  BY <1>1, FS_AddElement, Zenon
<1>3. {a} \cup {b} \in SUBSET S
  OBVIOUS
<1>4. Cardinality({a} \cup {b}) <= Cardinality(S)
  BY <1>3, FS_Subset, Zenon
<1>5. Cardinality(S) \in Nat
  BY FS_CardinalityType
<1> HIDE <1>3
<1> QED BY <1>1, <1>2, <1>4, <1>5

\* Types are preserved.
LEMMA TypeStep ==
  ASSUME LTypeOK, LNext
  PROVE  LTypeOK'
<1> USE DEF LTypeOK, Status, Goto
<1>1. CASE Tick
  BY <1>1 DEF Tick
<1>2. ASSUME NEW r \in Calls, Arrive(r) PROVE LTypeOK'
  BY <1>2 DEF Arrive
<1>3. ASSUME NEW r \in Calls, Filter(r) PROVE LTypeOK'
  BY <1>3 DEF Filter, Recent
<1>4. ASSUME NEW r \in Calls, Store(r) PROVE LTypeOK'
  BY <1>4 DEF Store
<1>5. ASSUME NEW r \in Calls, Check(r) PROVE LTypeOK'
  BY <1>5 DEF Check
<1>6. ASSUME NEW r \in Calls, AppendHit(r) PROVE LTypeOK'
  BY <1>6 DEF AppendHit
<1>7. ASSUME NEW r \in Calls, LooksAgain(r) PROVE LTypeOK'
  BY <1>7 DEF LooksAgain
<1>8. ASSUME NEW r \in Calls, Oldest(r) PROVE LTypeOK'
  <2>1. hits # {} => Left \in Nat
    BY LeftIsNat
  <2> HIDE DEF Left
  <2> QED BY <1>8, <2>1 DEF Oldest
<1> QED BY <1>1, <1>2, <1>3, <1>4, <1>5, <1>6, <1>7, <1>8 DEF LNext

-----------------------------------------------------------------------------
(* The list, step by step *)

\* Time passes: two that are at work together are disturbed until now.
LEMMA TickKeeps ==
  ASSUME LTypeOK, State, Tick
  PROVE  State'
<1> USE DEF LTypeOK, State, Tick
<1>1. Open' = Open /\ Admitted' = Admitted
  BY DEF Open, Admitted, Done
<1>2. disturbed' >= disturbed
  OBVIOUS
<1>3. Alone'
  <2>1. SUFFICES ASSUME NEW r \in Open, NEW q \in Open, r # q PROVE Cardinality(Open) > 1
    BY <1>1 DEF Alone
  <2>2. IsFiniteSet(Open)
    BY BoundAssumption, FS_Subset DEF Open
  <2> QED BY <2>1, <2>2, TwoElements
<1>4. Times' /\ Past' /\ Known'
  BY <1>1, <1>2 DEF Times, Past, Known
<1>5. Kept' /\ Fresh'
  BY <1>1, <1>2 DEF Kept, Fresh, Admitted
<1>6. Sync'
  BY LimitAssumption, <1>1, <1>2 DEF Sync, Admitted
<1> QED BY <1>3, <1>4, <1>5, <1>6

\* A request that arrives finds the list of a calm window, or disturbs it.
LEMMA ArriveKeeps ==
  ASSUME LTypeOK, State, NEW p \in Calls, Arrive(p)
  PROVE  State'
<1> USE DEF LTypeOK, State, Arrive, Goto
<1>1. Open' = Open \union {p} /\ Admitted' = Admitted /\ p \notin Open /\ p \notin Admitted
  BY DEF Open, Admitted, Done, Status
<1>2. \A q \in Calls : q # p => at'[q] = at[q] /\ step'[q] = step[q]
  OBVIOUS
<1>3. at'[p] = clock /\ step'[p] = "filter" /\ disturbed' >= disturbed
  OBVIOUS
<1>4. Times' /\ Known'
  BY <1>1 DEF Times, Known
<1>5. Alone'
  BY <1>1 DEF Alone
<1>6. Past'
  BY <1>1, <1>2, <1>3 DEF Past, Done
<1>7. \A q \in Admitted : q # p /\ at'[q] = at[q]
  BY <1>1, <1>2 DEF Admitted
<1>8. Kept'
  <2> SUFFICES ASSUME NEW r \in Calls, step'[r] = "store"
               PROVE  /\ \A q \in keep'[r] : at'[q] > at'[r] - Window
                      /\ \A q \in Admitted' : at'[q] > disturbed' /\ at'[q] > at'[r] - Window
                                                => q \in keep'[r]
    BY DEF Kept
  <2>1. r # p /\ step[r] = "store" /\ at'[r] = at[r] /\ keep' = keep
    BY <1>2, <1>3
  <2>2. \A q \in keep[r] : q \in Admitted
    BY DEF Known
  <2>3. at[r] \in Int /\ disturbed \in Int /\ disturbed' \in Int /\ \A q \in Calls : at[q] \in Int
    OBVIOUS
  <2>4. \A q \in Admitted : q \in Calls
    BY DEF Admitted
  <2> QED BY <1>1, <1>3, <1>7, <2>1, <2>2, <2>3, <2>4 DEF Kept
<1>9. Fresh'
  BY <1>1, <1>2, <1>3, <1>7 DEF Fresh, Looking, Known
<1>10. Sync'
  <2> SUFFICES ASSUME NEW q \in Admitted, at[q] > disturbed'
               PROVE  /\ at[q] > clock - Window => q \in hits
                      /\ \A r \in Open \union {p} : at'[q] > at'[r] - Window => q \in hits
    BY <1>1, <1>7 DEF Sync
  <2>1. at[q] > disturbed
    BY <1>3 DEF Admitted
  <2>2. at[q] > clock - Window => q \in hits
    BY <2>1 DEF Sync
  <2>3. \A r \in Open : at'[r] = at[r]
    BY <1>1, <1>2 DEF Open
  <2>4. \A r \in Open : at[q] > at[r] - Window => q \in hits
    BY <2>1 DEF Sync
  <2> QED BY <1>3, <1>7, <2>2, <2>3, <2>4
<1> QED BY <1>4, <1>5, <1>6, <1>8, <1>9, <1>10

\* What a request filters is what the window holds.
LEMMA FilterKeeps ==
  ASSUME LTypeOK, State, NEW p \in Calls, Filter(p)
  PROVE  State'
<1> USE DEF LTypeOK, State, Filter, Goto
<1>1. Open' = Open /\ Admitted' = Admitted /\ p \in Open
  BY DEF Open, Admitted, Done, Status
<1>2. Times' /\ Known' /\ Alone' /\ Past'
  BY <1>1 DEF Times, Known, Recent, Alone, Past, Done
<1>3. Kept'
  BY <1>1 DEF Kept, Sync, Recent
<1>4. Sync' /\ Fresh'
  BY <1>1 DEF Sync, Fresh, Looking
<1> QED BY <1>2, <1>3, <1>4

\* A list that is stored while no one else is at work loses nothing.
LEMMA StoreKeeps ==
  ASSUME LTypeOK, State, NEW p \in Calls, Store(p)
  PROVE  State'
<1> USE DEF LTypeOK, State, Store, Goto
<1>1. Open' = Open /\ Admitted' = Admitted /\ p \in Open
  BY DEF Open, Admitted, Done, Status
<1>2. Times' /\ Known' /\ Alone' /\ Past'
  BY <1>1 DEF Times, Known, Alone, Past, Done
<1>3. Kept'
  BY <1>1 DEF Kept
<1>4. Sync'
  <2> SUFFICES ASSUME NEW q \in Admitted, at[q] > disturbed
               PROVE  /\ at[q] > clock - Window => q \in keep[p]
                      /\ \A r \in Open : at[q] > at[r] - Window => q \in keep[p]
    BY <1>1 DEF Sync
  <2>1. q \in Calls /\ at[q] \in Nat /\ at[q] <= clock /\ at[p] \in Nat /\ at[p] <= clock
    BY DEF Admitted
  <2>2. at[q] > at[p] - Window => q \in keep[p]
    BY DEF Kept
  <2>3. \A r \in Open : r = p
    BY <1>1, <2>1 DEF Alone
  <2> QED BY LimitAssumption, <2>1, <2>2, <2>3
<1>5. Fresh'
  BY <1>1 DEF Fresh, Looking, Kept, Alone, Open, Done
<1> QED BY <1>2, <1>3, <1>4, <1>5

\* A step that changes neither the list nor who was let in.
LEMMA LookKeeps ==
  ASSUME LTypeOK, State, LTypeOK', NEW p \in Calls, step[p] \in Looking,
         NEW s \in {"append", "refuse", "oldest", "refused", "error"}, Goto(p, s),
         UNCHANGED <<clock, hits, at, keep, disturbed>>,
         s = "refused" => told' = [told EXCEPT ![p] = clock],
         s # "refused" => told' = told
  PROVE  State'
<1> USE DEF LTypeOK, State, Goto, Looking
<1>1. Open' \subseteq Open /\ p \in Open
  BY DEF Open, Done, Status
<1>2. Admitted' = Admitted
  BY DEF Admitted
<1>3. Times' /\ Known' /\ Alone'
  BY <1>1, <1>2 DEF Times, Known, Alone
<1>4. Past'
  BY <1>1 DEF Past, Alone, Done
<1>5. Kept' /\ Sync' /\ Fresh'
  BY <1>1, <1>2 DEF Kept, Sync, Fresh
<1> QED BY <1>3, <1>4, <1>5

\* A request that is let in is in the list.
LEMMA AppendKeeps ==
  ASSUME LTypeOK, State, NEW p \in Calls, AppendHit(p)
  PROVE  State'
<1> USE DEF LTypeOK, State, AppendHit, Goto
<1>1. Open' = Open \ {p} /\ p \in Open /\ Admitted' = Admitted \union {p}
  BY DEF Open, Admitted, Done, Status
<1>2. Times' /\ Known' /\ Alone'
  BY <1>1 DEF Times, Known, Alone
<1>3. Past'
  BY <1>1 DEF Past, Alone, Done
<1>4. Kept'
  BY <1>1 DEF Kept, Alone, Open, Done
<1>5. Sync'
  BY <1>1 DEF Sync
<1>6. Fresh'
  BY <1>1 DEF Fresh, Alone, Looking, Open, Done
<1> QED BY <1>2, <1>3, <1>4, <1>5, <1>6

-----------------------------------------------------------------------------
(* The window *)

\* There are finitely many requests in the list and in a window.
LEMMA Finite ==
  ASSUME LTypeOK
  PROVE  /\ IsFiniteSet(hits) /\ Cardinality(hits) \in Nat
         /\ \A t : IsFiniteSet(InWindow(t)) /\ Cardinality(InWindow(t)) \in Nat
<1>1. \A T : T \subseteq Calls => IsFiniteSet(T) /\ Cardinality(T) \in Nat
  BY BoundAssumption, FS_Subset, FS_CardinalityType
<1>2. hits \subseteq Calls /\ \A t : InWindow(t) \subseteq Calls
  BY DEF LTypeOK, InWindow, Admitted
<1> QED BY <1>1, <1>2

\* A request alone at work since it arrived: all the list is in the window that ends
\* with it, and everything in a window that it would be counted in is in the list.
LEMMA ListIsWindow ==
  ASSUME LTypeOK, State, NEW r \in Open, step[r] \in Looking, at[r] > disturbed
  PROVE  /\ hits \subseteq InWindow(at[r] - Window)
         /\ \A t \in Int : t >= disturbed /\ at[r] <= t + Window => InWindow(t) \subseteq hits
<1> USE DEF LTypeOK
<1>1. \A q \in hits : q \in Admitted /\ q \in Calls
  BY DEF State, Known, Admitted
<1>2. \A q \in Admitted : at[q] \in Nat /\ (at[q] <= at[r] \/ at[q] <= disturbed)
  BY DEF State, Past, Admitted, Done
<1>3. \A q \in hits : at[q] > at[r] - Window /\ at[q] <= at[r]
  BY <1>1, <1>2, LimitAssumption DEF State, Fresh, Open, Sync
<1>4. at[r] \in Int /\ at[r] <= at[r] - Window + Window
  BY LimitAssumption DEF Open
<1>5. hits \subseteq InWindow(at[r] - Window)
  <2>1. \A q \in hits : q \in Admitted /\ at[r] - Window < at[q] /\ at[q] <= at[r] - Window + Window
    <3>1. \A q \in hits : at[q] \in Int
      BY <1>1
    <3>2. \A x \in Int : x <= at[r] => x <= at[r] - Window + Window
      BY <1>4, LimitAssumption
    <3>3. \A x \in Int : x > at[r] - Window => at[r] - Window < x
      BY <1>4, LimitAssumption
    <3> QED BY <1>1, <1>3, <3>1, <3>2, <3>3
  <2> QED BY <2>1, Zenon DEF InWindow
<1>6. ASSUME NEW t \in Int, t >= disturbed, at[r] <= t + Window, NEW q \in InWindow(t)
      PROVE  q \in hits
  <2>1. q \in Admitted /\ at[q] > t /\ at[q] \in Int
    BY DEF InWindow, Admitted
  <2>2. at[q] > disturbed /\ at[q] > at[r] - Window
    BY <1>4, <1>6, <2>1, LimitAssumption
  <2> QED BY <2>1, <2>2 DEF State, Sync
<1> QED BY <1>5, <1>6

\* A window that begins before the first request holds no more than the one from 0.
LEMMA CalmWindow ==
  ASSUME LTypeOK, State, WindowHolds, NEW r \in Calls, step[r] \in Done, Calm(r)
  PROVE  Cardinality(InWindow(at[r] - Window)) <= Max
<1> USE LimitAssumption DEF LTypeOK
<1>1. CASE at[r] - Window >= disturbed
  BY <1>1 DEF WindowHolds
<1>2. CASE ~(at[r] - Window >= disturbed)
  <2>1. disturbed = 0 /\ at[r] - Window < 0
    BY <1>2 DEF Calm
  <2>2. InWindow(at[r] - Window) \subseteq InWindow(0)
    <3>1. \A q \in Admitted : at[q] >= 1 /\ at[q] \in Int
      BY DEF State, Times, Admitted
    <3> QED BY <2>1, <3>1 DEF InWindow
  <2>3. Cardinality(InWindow(0)) <= Max
    BY <2>1 DEF WindowHolds
  <2> QED BY <2>2, <2>3, Finite, FS_Subset
<1> QED BY <1>1, <1>2

\* The windows of steps that let nobody in stay what they are.
LEMMA SameWindows ==
  ASSUME Admitted' = Admitted, \A q \in Admitted : at'[q] = at[q]
  PROVE  \A t : InWindow(t)' = InWindow(t)
BY DEF InWindow

\* Nothing that was said of a window is taken back while nobody is let in or refused.
LEMMA WindowsKept ==
  ASSUME LInv, LTypeOK', Admitted' = Admitted, \A q \in Admitted : at'[q] = at[q],
         disturbed' >= disturbed, clock' >= clock,
         \A q \in Calls : step'[q] \in Done =>
           step[q] = step'[q] /\ at'[q] = at[q] /\ told'[q] = told[q] /\ after'[q] = after[q]
  PROVE  WindowHolds' /\ Cause' /\ Answer'
<1> USE DEF LInv, LTypeOK
<1>1. \A t : InWindow(t)' = InWindow(t)
  BY SameWindows
<1>2. ASSUME NEW t \in disturbed' .. clock' PROVE Cardinality(InWindow(t)) <= Max
  <2>1. CASE t <= clock
    BY <2>1 DEF WindowHolds
  <2>2. CASE t > clock
    <3>1. \A q \in Admitted : at[q] \in Nat /\ at[q] <= clock
      BY DEF Admitted
    <3>2. InWindow(t) = {}
      BY <2>2, <3>1 DEF InWindow
    <3> QED BY <3>2, FS_EmptySet, LimitAssumption
  <2> QED BY <2>1, <2>2
<1>3. WindowHolds'
  BY <1>1, <1>2 DEF WindowHolds
<1>4. \A r \in Calls : at'[r] = at[r] /\ Calm(r)' => Calm(r)
  BY LimitAssumption DEF Calm
<1>5. Cause'
  BY <1>1, <1>4 DEF Cause, Done
<1>6. Answer'
  <2> SUFFICES ASSUME NEW r \in Calls, step'[r] = "refused", Calm(r)'
               PROVE  \E o \in Admitted' : Near(r, o)'
    BY DEF Answer
  <2>1. step[r] = "refused" /\ Calm(r) /\ at'[r] = at[r] /\ told'[r] = told[r] /\ after'[r] = after[r]
    BY <1>4 DEF Done
  <2>2. PICK o \in Admitted : Near(r, o)
    BY <2>1 DEF Answer
  <2>3. at'[o] = at[o]
    OBVIOUS
  <2> QED BY <2>1, <2>2, <2>3 DEF Near
<1> QED BY <1>3, <1>5, <1>6

\* Two that are at work: nothing is claimed about the one that looks at the list.
LEMMA Disturbs ==
  ASSUME LTypeOK, State, NEW p \in Open, NEW r \in Open, r # p
  PROVE  ~(at[r] > disturbed)
<1>1. disturbed = clock /\ at[r] \in Int /\ at[r] <= clock /\ clock \in Int
  BY DEF State, Alone, LTypeOK, Open
<1> QED BY <1>1

\* A request that was disturbed may get any answer: nothing is claimed of it.
LEMMA DisturbedAnswer ==
  ASSUME LInv, LTypeOK', NEW p \in Calls, step[p] \in Looking, ~(at[p] > disturbed),
         UNCHANGED <<at, disturbed, clock>>, Admitted' = Admitted,
         NEW s \in {"refused", "error"}, step' = [step EXCEPT ![p] = s],
         \A q \in Calls : q # p => told'[q] = told[q] /\ after'[q] = after[q]
  PROVE  WindowHolds' /\ Cause' /\ Answer'
<1> USE DEF LInv
<1>1. \A t : InWindow(t)' = InWindow(t)
  BY SameWindows
<1>2. \A r \in Calls : Calm(r)' <=> Calm(r)
  BY DEF Calm
<1>3. ~Calm(p)
  BY LimitAssumption DEF Calm, LTypeOK, State, Times, Looking
<1>4. WindowHolds'
  BY <1>1 DEF WindowHolds
<1>5. Cause'
  BY <1>1, <1>2, <1>3 DEF Cause, LTypeOK
<1>6. \A r, q \in Calls : r # p => (Near(r, q)' <=> Near(r, q))
  BY DEF Near
<1>7. Answer'
  BY <1>2, <1>3, <1>6 DEF Answer, LTypeOK, Admitted
<1> QED BY <1>4, <1>5, <1>7

-----------------------------------------------------------------------------
(* The steps *)

\* Time passes.
LEMMA TickStep ==
  ASSUME LInv, LTypeOK', Tick
  PROVE  LInv'
<1> USE DEF LInv
<1>1. State'
  BY TickKeeps
<1>2. Admitted' = Admitted /\ disturbed' >= disturbed /\ clock' >= clock
  BY DEF Tick, LTypeOK, Admitted
<1>3. Room' /\ Full'
  BY <1>2 DEF Room, Full, Tick, LTypeOK
<1>4. WindowHolds' /\ Cause' /\ Answer'
  BY <1>2, WindowsKept DEF Tick
<1> QED BY <1>1, <1>3, <1>4

\* A request arrives.
LEMMA ArriveStep ==
  ASSUME LInv, LTypeOK', NEW p \in Calls, Arrive(p)
  PROVE  LInv'
<1> USE DEF LInv
<1>1. State'
  BY ArriveKeeps
<1>2. Admitted' = Admitted /\ disturbed' >= disturbed /\ clock' >= clock
      /\ \A q \in Admitted : at'[q] = at[q]
  BY DEF Arrive, Goto, LTypeOK, Admitted
<1>3. \A r \in Calls : step'[r] \in Looking => ~(at'[r] > disturbed')
  BY DEF Arrive, Goto, LTypeOK, Looking, Open, Done
<1>4. Room' /\ Full'
  BY <1>3 DEF Room, Full, Looking
<1>5. WindowHolds' /\ Cause' /\ Answer'
  BY <1>2, WindowsKept DEF Arrive, Goto, LTypeOK, Done
<1> QED BY <1>1, <1>4, <1>5

\* A request filters the list.
LEMMA FilterStep ==
  ASSUME LInv, LTypeOK', NEW p \in Calls, Filter(p)
  PROVE  LInv'
<1> USE DEF LInv
<1>1. State'
  BY FilterKeeps
<1>2. Admitted' = Admitted /\ disturbed' >= disturbed /\ clock' >= clock
  BY DEF Filter, Goto, LTypeOK, Admitted
<1>3. Room' /\ Full'
  BY DEF Room, Full, Filter, Goto, LTypeOK
<1>4. WindowHolds' /\ Cause' /\ Answer'
  BY <1>2, WindowsKept DEF Filter, Goto, LTypeOK, Done
<1> QED BY <1>1, <1>3, <1>4

\* A request stores the filtered list.
LEMMA StoreStep ==
  ASSUME LInv, LTypeOK', NEW p \in Calls, Store(p)
  PROVE  LInv'
<1> USE DEF LInv
<1>1. State'
  BY StoreKeeps
<1>2. Admitted' = Admitted /\ disturbed' >= disturbed /\ clock' >= clock
  BY DEF Store, Goto, LTypeOK, Admitted
<1>3. \A r \in Calls : step'[r] \in Looking \ {"check"} => ~(at'[r] > disturbed')
  BY Disturbs DEF Store, Goto, LTypeOK, Looking, Open, Done
<1>4. Room' /\ Full'
  BY <1>3 DEF Room, Full, Looking
<1>5. WindowHolds' /\ Cause' /\ Answer'
  BY <1>2, WindowsKept DEF Store, Goto, LTypeOK, Done
<1> QED BY <1>1, <1>4, <1>5

\* A request sees whether there is room.
LEMMA CheckStep ==
  ASSUME LInv, LTypeOK', NEW p \in Calls, Check(p)
  PROVE  LInv'
<1> USE DEF LInv
<1>1. State'
  <2>1. PICK s \in {"append", "refuse"} : Goto(p, s)
    BY DEF Check
  <2> QED BY <2>1, LookKeeps DEF Check, Looking
<1>2. Admitted' = Admitted /\ disturbed' >= disturbed /\ clock' >= clock
  BY DEF Check, Goto, LTypeOK, Admitted
<1>3. Room' /\ Full'
  BY Finite, LimitAssumption DEF Room, Full, Check, Goto, LTypeOK, HasRoom
<1>4. WindowHolds' /\ Cause' /\ Answer'
  BY <1>2, WindowsKept DEF Check, Goto, LTypeOK, Done
<1> QED BY <1>1, <1>3, <1>4

\* A request is let in.
LEMMA AppendStep ==
  ASSUME LInv, LTypeOK', NEW p \in Calls, AppendHit(p)
  PROVE  LInv'
<1> USE DEF LInv
<1>1. State'
  BY AppendKeeps
<1>2. Admitted' = Admitted \union {p} /\ p \notin Admitted /\ p \in Open /\ p \in Calls
  BY DEF AppendHit, Goto, LTypeOK, Admitted, Open, Done
<1>3. at' = at /\ disturbed' = disturbed /\ clock' = clock /\ told' = told /\ after' = after
  BY DEF AppendHit
<1>4. \A r \in Calls : step'[r] \in Looking => ~(at'[r] > disturbed')
  BY <1>2, Disturbs DEF AppendHit, Goto, LTypeOK, Looking, Open, Done
<1>5. Room' /\ Full'
  BY <1>4 DEF Room, Full, Looking
<1>6. \A t : InWindow(t) \subseteq InWindow(t)' /\ InWindow(t)' \subseteq InWindow(t) \union {p}
  BY <1>2, <1>3 DEF InWindow
<1>7. ASSUME NEW t \in disturbed .. clock PROVE Cardinality(InWindow(t)') <= Max
  <2>1. CASE p \notin InWindow(t)'
    <3>1. InWindow(t)' = InWindow(t)
      BY <1>6, <2>1
    <3> QED BY <1>7, <3>1 DEF WindowHolds
  <2>2. CASE p \in InWindow(t)'
    <3>1. at[p] > t /\ at[p] <= t + Window /\ t \in Int /\ t >= disturbed /\ at[p] > disturbed
      BY <1>3, <1>7, <2>2 DEF InWindow, LTypeOK
    <3>2. step[p] = "append" /\ step[p] \in Looking
      BY DEF AppendHit, Looking
    <3>3. InWindow(t) \subseteq hits
      BY <1>2, <3>1, <3>2, ListIsWindow
    <3>4. Cardinality(hits) < Max
      BY <3>1, <3>2 DEF Room
    <3>5. Cardinality(InWindow(t)) <= Cardinality(hits)
      BY <3>3, Finite, FS_Subset
    <3>6. InWindow(t)' = InWindow(t) \cup {p}
      BY <1>6, <2>2
    <3>7. IsFiniteSet(InWindow(t)) /\ Cardinality(InWindow(t)) \in Nat /\ Cardinality(hits) \in Nat
      BY Finite
    <3>8. p \notin InWindow(t)
      BY <1>2 DEF InWindow
    <3>9. Cardinality(InWindow(t) \cup {p}) = Cardinality(InWindow(t)) + 1
      BY <3>7, <3>8, FS_AddElement, Zenon
    <3>10. Cardinality(InWindow(t)') = Cardinality(InWindow(t)) + 1
      BY <3>6, <3>9, Zenon
    <3> HIDE <3>6, <3>9
    <3> QED BY <3>4, <3>5, <3>7, <3>10, LimitAssumption
  <2> QED BY <2>1, <2>2
<1>8. WindowHolds'
  BY <1>3, <1>7 DEF WindowHolds
<1>9. \A r \in Calls : step'[r] \in {"refused", "error"} => step[r] = step'[r]
  BY DEF AppendHit, Goto, LTypeOK
<1>10. Cause'
  <2>1. \A t : Cardinality(InWindow(t)) <= Cardinality(InWindow(t)') /\ Cardinality(InWindow(t)') \in Nat
    <3>1. \A t : IsFiniteSet(InWindow(t)')
      BY <1>6, Finite, FS_AddElement, FS_Subset
    <3> QED BY <1>6, <3>1, FS_Subset, FS_CardinalityType
  <2>2. \A r \in Calls : Calm(r)' <=> Calm(r)
    BY <1>3 DEF Calm
  <2> QED BY <1>3, <1>9, <2>1, <2>2, Finite, LimitAssumption DEF Cause
<1>11. Answer'
  <2>1. \A r \in Calls : Calm(r)' <=> Calm(r)
    BY <1>3 DEF Calm
  <2>2. \A r, o \in Calls : Near(r, o)' <=> Near(r, o)
    BY <1>3 DEF Near
  <2> QED BY <1>2, <1>9, <2>1, <2>2 DEF Answer, Admitted
<1> QED BY <1>1, <1>5, <1>8, <1>10, <1>11

\* A request without room looks at the list again.
LEMMA LooksAgainStep ==
  ASSUME LInv, LTypeOK', NEW p \in Calls, LooksAgain(p)
  PROVE  LInv'
<1> USE DEF LInv
<1>1. State'
  BY LookKeeps DEF LooksAgain, Looking
<1>2. p \in Open /\ step[p] \in Looking /\ at' = at /\ disturbed' = disturbed /\ clock' = clock
      /\ hits' = hits /\ after' = after
  BY DEF LooksAgain, Open, Done, Looking
<1>3. Admitted' = Admitted
  BY DEF LooksAgain, Goto, LTypeOK, Admitted
<1>4. Room' /\ Full'
  BY DEF LooksAgain, Goto, LTypeOK, Room, Full
<1>5. CASE hits = {}
  <2>1. ~(at[p] > disturbed)
    BY <1>2, <1>5, FS_EmptySet, LimitAssumption DEF Full, LooksAgain
  <2>2. step' = [step EXCEPT ![p] = "refused"] /\ told' = [told EXCEPT ![p] = clock]
    BY <1>5 DEF LooksAgain, Goto
  <2>3. \A q \in Calls : q # p => told'[q] = told[q] /\ after'[q] = after[q]
    BY <1>2, <2>2 DEF LTypeOK
  <2>4. WindowHolds' /\ Cause' /\ Answer'
    BY <1>2, <1>3, <2>1, <2>2, <2>3, DisturbedAnswer
  <2> QED BY <1>1, <1>4, <2>4
<1>6. CASE hits # {}
  <2>1. WindowHolds' /\ Cause' /\ Answer'
    BY <1>3, <1>6, WindowsKept DEF LooksAgain, Goto, LTypeOK, Done
  <2> QED BY <1>1, <1>4, <2>1
<1> QED BY <1>5, <1>6

\* A request is refused, with a time to wait.
LEMMA OldestStep ==
  ASSUME LInv, LTypeOK', NEW p \in Calls, Oldest(p)
  PROVE  LInv'
<1> USE DEF LInv
<1>1. step[p] = "oldest" /\ p \in Open /\ step[p] \in Looking /\ at' = at /\ disturbed' = disturbed
      /\ clock' = clock /\ hits' = hits
  BY DEF Oldest, Open, Done, Looking
<1>2. State'
  BY LookKeeps DEF Oldest, Looking
<1>3. Admitted' = Admitted
  BY DEF Oldest, Goto, LTypeOK, Admitted
<1>4. Room' /\ Full'
  BY <1>1 DEF Oldest, Goto, LTypeOK, Room, Full
<1>5. CASE ~(at[p] > disturbed)
  BY <1>1, <1>2, <1>3, <1>4, <1>5, DisturbedAnswer DEF Oldest, Goto, LTypeOK
<1>6. CASE at[p] > disturbed
  <2>1. Cardinality(hits) >= Max /\ hits # {}
    BY <1>1, <1>6, FS_EmptySet, LimitAssumption DEF Full
  <2>2. hits \subseteq InWindow(at[p] - Window)
    BY <1>1, <1>6, ListIsWindow
  <2>3. Cardinality(InWindow(at[p] - Window)) >= Max
    BY <2>1, <2>2, Finite, FS_Subset, LimitAssumption
  <2>4. \A t : InWindow(t)' = InWindow(t)
    BY <1>1, <1>3, SameWindows
  <2>5. WindowHolds'
    BY <1>1, <2>4 DEF WindowHolds
  <2>6. \A r \in Calls : Calm(r)' <=> Calm(r)
    BY <1>1 DEF Calm
  <2>7. /\ step' = [step EXCEPT ![p] = "refused"]
        /\ after' = [after EXCEPT ![p] = Left] /\ told' = [told EXCEPT ![p] = clock]
    BY <2>1 DEF Oldest, Goto
  <2>8. Cause'
    BY <1>1, <2>3, <2>4, <2>6, <2>7 DEF Cause, LTypeOK
  <2>9. PICK o \in hits : OldestHit = at[o]
    BY <2>1, LeftIsNat
  <2>10. Near(p, o)'
    <3>1. (Left + 1) * Second > at[o] + Window - clock /\ Left \in Nat
      BY <2>1, <2>9, LeftIsNat
    <3>2. (Left + 1) * Second \in Int
      BY <3>1, LimitAssumption
    <3>3. o \in Calls /\ at[o] \in Int /\ clock \in Int
      BY DEF LTypeOK
    <3>4. clock + (Left + 1) * Second > at[o] + Window
      BY <3>1, <3>2, <3>3, LimitAssumption
    <3>5. at[p] - Window < at[o] /\ at[o] <= at[p] - Window + Window
      BY <2>2 DEF InWindow
    <3>6. at[o] <= at[p]
      BY <3>3, <3>5, LimitAssumption DEF LTypeOK
    <3>7. told'[p] = clock /\ after'[p] = Left
      BY <2>7 DEF LTypeOK
    <3> QED BY <1>1, <3>4, <3>5, <3>6, <3>7 DEF Near
  <2>11. \A r, q \in Calls : r # p => (Near(r, q)' <=> Near(r, q))
    BY <1>1, <2>7 DEF Near, LTypeOK
  <2>12. o \in Admitted
    BY DEF State, Known
  <2>13. Answer'
    BY <1>3, <2>6, <2>7, <2>10, <2>11, <2>12 DEF Answer, LTypeOK, Admitted
  <2> QED BY <1>2, <1>4, <2>5, <2>8, <2>13
<1> QED BY <1>5, <1>6

-----------------------------------------------------------------------------
(* Theorems *)

LEMMA StepHolds == LInv /\ [LNext]_lVars => LInv'
<1> SUFFICES ASSUME LInv, [LNext]_lVars PROVE LInv'
  OBVIOUS
<1>1. CASE LNext
  <2>1. LTypeOK'
    BY <1>1, TypeStep DEF LInv
  <2> QED BY <1>1, <2>1, TickStep, ArriveStep, FilterStep, StoreStep, CheckStep, AppendStep,
             LooksAgainStep, OldestStep DEF LNext
<1>2. CASE UNCHANGED lVars
  <2>1. \A t : InWindow(t)' = InWindow(t)
    BY <1>2 DEF lVars, InWindow, Admitted
  <2>2. LTypeOK' /\ State'
    BY <1>2 DEF lVars, LInv, LTypeOK, State, Times, Alone, Past, Known, Kept, Sync, Fresh, Open, Admitted
  <2>3. Room' /\ Full' /\ WindowHolds' /\ Cause' /\ Answer'
    BY <1>2, <2>1 DEF lVars, LInv, Room, Full, WindowHolds, Cause, Answer, Near, Calm, Admitted
  <2> QED BY <2>2, <2>3 DEF LInv
<1> QED BY <1>1, <1>2

LEMMA InvariantHolds == LSpec => []LInv
BY InitHolds, StepHolds, PTL DEF LSpec

\* The types, for any number of requests and any limits.
THEOREM LimiterTypes == LSpec => []LTypeOK
<1>1. LInv => LTypeOK
  BY DEF LInv
<1> QED BY <1>1, InvariantHolds, PTL

\* No window after the last disturbance holds more than the limit.
THEOREM LimitKept == LSpec => []WindowHolds
<1>1. LInv => WindowHolds
  BY DEF LInv
<1> QED BY <1>1, InvariantHolds, PTL

\* A calm request is refused only when the window that ends with it is full.
THEOREM RefusalsJust == LSpec => []RefusedForCause
<1>1. LInv => RefusedForCause
  <2> SUFFICES ASSUME LInv, NEW r \in Calls
               PROVE  /\ step[r] = "refused" /\ Calm(r) => Cardinality(InWindow(at[r] - Window)) = Max
                      /\ step[r] = "error" => ~Calm(r)
    BY DEF RefusedForCause
  <2>1. step[r] = "error" => ~Calm(r)
    BY LimitAssumption DEF LInv, LTypeOK, State, Times, Cause, Calm
  <2>2. ASSUME step[r] = "refused", Calm(r) PROVE Cardinality(InWindow(at[r] - Window)) = Max
    <3>1. Cardinality(InWindow(at[r] - Window)) <= Max
      BY <2>2, CalmWindow DEF LInv, Done
    <3>2. Cardinality(InWindow(at[r] - Window)) >= Max
      BY <2>2 DEF LInv, Cause
    <3> QED BY <3>1, <3>2, Finite, LimitAssumption DEF LInv
  <2> QED BY <2>1, <2>2
<1> QED BY <1>1, InvariantHolds, PTL

\* Who waits one second longer than Retry-After says is refused only because another
\* request was let in.
THEOREM WaitingSuffices == LSpec => []WaitSuffices
<1>1. LInv /\ RefusedForCause => WaitSuffices
  <2> SUFFICES ASSUME LInv, RefusedForCause, NEW r \in Calls, NEW q \in Calls,
                      step[r] = "refused", Calm(r), step[q] = "refused", Calm(q),
                      at[q] >= told[r] + (after[r] + 1) * Second,
                      \A p \in Admitted : ~(at[r] <= at[p] /\ at[p] <= at[q])
               PROVE  FALSE
    BY DEF WaitSuffices
  <2> USE DEF LInv
  <2> DEFINE R == InWindow(at[r] - Window)
             Q == InWindow(at[q] - Window)
  <2>1. at[r] \in Nat /\ at[q] \in Nat /\ told[r] \in Nat /\ Window \in Nat /\ told[r] >= at[r]
        /\ after[r] \in Nat /\ Second \in Nat
    BY LimitAssumption DEF LTypeOK, State, Times
  <2>2. PICK o \in Admitted : Near(r, o)
    BY DEF Answer
  <2>3. (after[r] + 1) * Second \in Nat
    BY <2>1
  <2>4. at[o] \in Nat /\ \A p \in Admitted : at[p] \in Nat
    BY DEF LTypeOK, Admitted
  <2>5. at[o] + Window < at[q] /\ at[r] <= at[q]
    BY <2>1, <2>2, <2>3, <2>4 DEF Near
  <2>6. o \in R /\ o \notin Q
    BY <2>1, <2>2, <2>4, <2>5 DEF InWindow, Near
  <2>7. \A p \in Q : p \in R
    BY <2>1, <2>4, <2>5 DEF InWindow
  <2>8. Q \in SUBSET R /\ Q # R
    BY <2>6, <2>7
  <2>9. IsFiniteSet(R) /\ Cardinality(R) = Max /\ Cardinality(Q) = Max
    BY Finite DEF RefusedForCause
  <2> HIDE DEF R, Q
  <2> QED BY <2>8, <2>9, FS_Subset
<1> QED BY <1>1, InvariantHolds, RefusalsJust, PTL
=============================================================================
