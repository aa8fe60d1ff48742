----------------------------- MODULE RateLimiter -----------------------------
(***************************************************************************)
(* The sliding window in front of the JSON API: is_allowed and             *)
(* get_retry_after (app/rate_limiter.py), called by check_rate_limit for   *)
(* every request to /api/v1 (app/routers/api.py).                          *)
(*                                                                         *)
(* check_rate_limit is a plain function, so each request runs it in a      *)
(* thread of its own, and nothing guards the list of timestamps: it is     *)
(* read, filtered and stored in separate steps.  A key has a list of its   *)
(* own; these are the requests of one client.  An entry of the list is     *)
(* named by the request it was made for, its timestamp is at[r].           *)
(***************************************************************************)
EXTENDS Integers, FiniteSets

CONSTANTS
  Calls,     \* requests of one client
  Max,       \* max_requests
  Window,    \* window_seconds, in ticks
  Second,    \* ticks in a second
  Threads,   \* requests handled at once, a bound
  LastTick   \* a bound of the clock

ASSUME LimitAssumption == Max \in Nat \ {0} /\ Window \in Nat \ {0} /\ Second \in Nat \ {0}
ASSUME BoundAssumption == IsFiniteSet(Calls) /\ Threads \in Nat /\ LastTick \in Nat

VARIABLES
  clock,
  hits,       \* requests[key]: the requests whose timestamps are in the list
  step,
  at,         \* now, as the request read it
  keep,       \* the filtered list, not yet stored
  after,      \* Retry-After
  told,       \* when Retry-After was computed
  disturbed   \* observer: the last tick at which two requests were at work, 0 if none

lVars == <<clock, hits, step, at, keep, after, told, disturbed>>

Status == {"new", "filter", "store", "check", "append", "refuse", "oldest",
           "admitted", "refused", "error"}

LTypeOK ==
  /\ clock \in Nat \ {0} /\ disturbed \in 0 .. clock
  /\ hits \subseteq Calls
  /\ step \in [Calls -> Status]
  /\ at \in [Calls -> 0 .. clock] /\ told \in [Calls -> 0 .. clock]
  /\ keep \in [Calls -> SUBSET Calls]
  /\ after \in [Calls -> Nat]

Done == {"admitted", "refused", "error"}
Open == {r \in Calls : step[r] \notin Done \union {"new"}}

LInit ==
  /\ clock = 1 /\ hits = {} /\ disturbed = 0
  /\ step = [r \in Calls |-> "new"]
  /\ at = [r \in Calls |-> 0] /\ told = at /\ after = at
  /\ keep = [r \in Calls |-> {}]

Goto(r, s) == step' = [step EXCEPT ![r] = s]

-----------------------------------------------------------------------------
(* is_allowed *)

\* now = time.time()
Arrive(r) ==
  /\ step[r] = "new" /\ Cardinality(Open) < Threads
  /\ at' = [at EXCEPT ![r] = clock] /\ Goto(r, "filter")
  /\ disturbed' = IF Open = {} THEN disturbed ELSE clock
  /\ UNCHANGED <<clock, hits, keep, after, told>>

\* Seeded fault: a timestamp exactly one window old still counts.
RecentInclusive(r) == {q \in hits : at[q] >= at[r] - Window}

\* The list comprehension.
Recent(r) == {q \in hits : at[q] > at[r] - Window}

Filter(r) ==
  /\ step[r] = "filter" /\ keep' = [keep EXCEPT ![r] = Recent(r)] /\ Goto(r, "store")
  /\ UNCHANGED <<clock, hits, at, after, told, disturbed>>

\* The assignment: what others appended since is gone.
Store(r) ==
  /\ step[r] = "store" /\ hits' = keep[r] /\ keep' = [keep EXCEPT ![r] = {}] /\ Goto(r, "check")
  /\ UNCHANGED <<clock, at, after, told, disturbed>>

\* Seeded fault: one request too many.
RoomForOneMore == Cardinality(hits) <= Max

HasRoom == Cardinality(hits) < Max

Check(r) ==
  /\ step[r] = "check" /\ Goto(r, IF HasRoom THEN "append" ELSE "refuse")
  /\ UNCHANGED <<clock, hits, at, keep, after, told, disturbed>>

AppendHit(r) ==
  /\ step[r] = "append" /\ hits' = hits \union {r} /\ Goto(r, "admitted")
  /\ UNCHANGED <<clock, at, keep, after, told, disturbed>>

-----------------------------------------------------------------------------
(* get_retry_after, for the answer 429 *)

\* The list is looked at twice: here, and for its minimum.
LooksAgain(r) ==
  /\ step[r] = "refuse"
  /\ IF hits = {} THEN told' = [told EXCEPT ![r] = clock] /\ Goto(r, "refused")
                  ELSE Goto(r, "oldest") /\ UNCHANGED told
  /\ UNCHANGED <<clock, hits, at, keep, after, disturbed>>

OldestHit == CHOOSE t \in {at[q] : q \in hits} : \A q \in hits : t <= at[q]

\* Seeded fault: the age of the oldest entry.
AgeOfOldest == (clock - OldestHit) \div Second

\* int(): whole seconds, towards zero; not less than zero.
Left == LET left == Window - (clock - OldestHit) IN IF left < 0 THEN 0 ELSE left \div Second

\* The minimum of an empty list is a ValueError, which the client sees as an error 500.
Oldest(r) ==
  /\ step[r] = "oldest"
  /\ IF hits = {} THEN Goto(r, "error") /\ UNCHANGED <<after, told>>
                  ELSE /\ after' = [after EXCEPT ![r] = Left]
                       /\ told' = [told EXCEPT ![r] = clock]
                       /\ Goto(r, "refused")
  /\ UNCHANGED <<clock, hits, at, keep, disturbed>>

-----------------------------------------------------------------------------

Tick ==
  /\ clock < LastTick /\ clock' = clock + 1
  /\ disturbed' = IF Cardinality(Open) > 1 THEN clock + 1 ELSE disturbed
  /\ UNCHANGED <<hits, step, at, keep, after, told>>

LNext ==
  \/ Tick
  \/ \E r \in Calls :
       \/ Arrive(r) \/ Filter(r) \/ Store(r) \/ Check(r) \/ AppendHit(r)
       \/ LooksAgain(r) \/ Oldest(r)

LSpec == LInit /\ [][LNext]_lVars

-----------------------------------------------------------------------------
(* Properties *)

Admitted == {r \in Calls : step[r] = "admitted"}
InWindow(s) == {q \in Admitted : s < at[q] /\ at[q] <= s + Window}

\* A request that ran alone, a whole window after any two that did not.
Calm(r) == IF disturbed = 0 THEN TRUE ELSE at[r] >= disturbed + Window

\* "30 requests/minute" (README.md:23): no window holds more, if it begins after the last
\* moment at which two requests were at work together.  Threads that overwrite each
\* other's list let any number through, but only until a window later.
WindowHolds == \A s \in disturbed .. clock : Cardinality(InWindow(s)) <= Max

\* The other half: a calm request is refused only when the window that ends with it is
\* full, and fails with an error never.
RefusedForCause ==
  \A r \in Calls :
    /\ step[r] = "refused" /\ Calm(r) => Cardinality(InWindow(at[r] - Window)) = Max
    /\ step[r] = "error" => ~Calm(r)

\* Retry-After is cut to whole seconds, so that it may be too short by a part of one.  A
\* client that waits one second more is refused only if another request was let in
\* since its first refusal.
WaitSuffices ==
  \A r, q \in Calls :
    /\ step[r] = "refused" /\ Calm(r) /\ step[q] = "refused" /\ Calm(q)
    /\ at[q] >= told[r] + (after[r] + 1) * Second
    => \E p \in Admitted : at[r] <= at[p] /\ at[p] <= at[q]
=============================================================================
