------------------------------ MODULE Diagnostics ------------------------------
(***************************************************************************)
(* The pipeline with the failures that are resolved: retry_device_backup   *)
(* and mark_resolved of app/routers/diagnostics.py.                        *)
(*                                                                         *)
(* A retry is a trigger of BackupRun: when it finds that its backup        *)
(* succeeded it resolves, before it awaits anything else, all failures of  *)
(* the device, those that jobs have recorded meanwhile among them.         *)
(***************************************************************************)
EXTENDS BackupRun

VARIABLE settled  \* the failures that are resolved, each with the worker that did, or "operator"

dVars == <<vars, settled>>

Who == Workers \union {"operator"}
Open == {f \in failures : \A by \in Who : <<f, by>> \notin settled}

\* The device of a failure.
DeviceOf(f) == Targets[f.slot[1]][f.slot[2]]

\* A retry reads that its backup succeeded.
Succeeded(w) == w \notin Jobs /\ pc[w] = "count" /\ ~Unreadable(w) /\ SeesSuccess(w)

ResolveAll(w) == {<<f, w>> : f \in {g \in Open : DeviceOf(g) = Device(w)}}

\* What stays resolved is the row of a failure, which may have lost its backup since.
Kept == {p \in settled : p[1] \in failures'}
  \union {<<Detached(p[1], p[1].bid), p[2]>> : p \in {q \in settled : q[1] \notin failures'}}

\* retry_device_backup: the call and what follows it; everything else as it is.
Step ==
  /\ Next
  /\ settled' = Kept \union UNION {ResolveAll(w) : w \in {v \in Workers : Succeeded(v) /\ pc'[v] = "device"}}

\* mark_resolved, which counts among the incidents.
MarkResolved(f) ==
  /\ incidents < MaxIncidents /\ f \in Open
  /\ settled' = settled \union {<<f, "operator">>}
  /\ incidents' = incidents + 1
  /\ UNCHANGED <<database, memory, observers>>

DInit == Init /\ settled = {}
DNext == Step \/ \E f \in failures : MarkResolved(f)
DSpec == DInit /\ [][DNext]_dVars

-----------------------------------------------------------------------------

\* A failure that a retry resolved is of a device that this retry has stored somewhere:
\* what backup.status reads after the awaits, while maintenance marks rows and jobs back
\* up the same device, is never the success of another.  Which destination failed is not
\* asked: a copy in another one, or the emergency copy, is enough.  A retry whose row
\* another backup wrote as well may have read the verdict of that one.
ResolvedByStored ==
  \A p \in settled : p[2] # "operator" =>
    \E n \in 1 .. Len(Targets[p[2]]) :
      /\ DeviceOf(p[1]) = Targets[p[2]][n]
      /\ stored[<<p[2], n>>] # {} \/ <<p[2], n>> \in shared
=============================================================================
