------------------------------- MODULE JobLedger -------------------------------
(***************************************************************************)
(* What the JobRun rows promise to whoever watches them, whatever the jobs *)
(* do meanwhile: a row is opened once, its counters only grow and never    *)
(* count a device too many, and it is closed once, when each device has    *)
(* been counted, with the verdict that the counters give.  It may stay     *)
(* open for ever: the process that would close it may die.                 *)
(***************************************************************************)
EXTENDS Naturals

CONSTANTS
  Jobs,
  Total   \* Total[w]: JobRun.devices_total

VARIABLE ledger

Entry(status, s, f) == [st |-> status, succ |-> s, fail |-> f]

Init == ledger = [w \in Jobs |-> Entry("none", 0, 0)]

Open(w) ==
  /\ ledger[w].st = "none"
  /\ ledger' = [ledger EXCEPT ![w] = Entry("running", 0, 0)]

\* A commit in the middle of the job.
Book(w, s, f) ==
  /\ ledger[w].st = "running"
  /\ ledger[w].succ <= s /\ ledger[w].fail <= f
  /\ s + f <= Total[w]
  /\ ledger' = [ledger EXCEPT ![w] = Entry("running", s, f)]

\* The last commit.
Close(w, s, f) ==
  /\ ledger[w].st = "running"
  /\ ledger[w].succ <= s /\ ledger[w].fail <= f
  /\ s + f = Total[w]
  /\ ledger' = [ledger EXCEPT ![w] = Entry(IF f = 0 THEN "completed" ELSE "failed", s, f)]

Next ==
  \E w \in Jobs :
    \/ Open(w)
    \/ \E s, f \in 0 .. Total[w] : Book(w, s, f) \/ Close(w, s, f)

Spec == Init /\ [][Next]_ledger
=============================================================================
