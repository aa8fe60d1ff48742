------------------------------- MODULE GitStore -------------------------------
(***************************************************************************)
(* GitDestination.save (app/modules/destinations/git_destination.py): the  *)
(* backups of all devices in one working tree, its index and its history,  *)
(* and a remote that may be out of reach.                                  *)
(*                                                                         *)
(* Every save is a thread of its own; those of two jobs that run at once   *)
(* meet in the repository, with no lock but those of GitPython.  A step is *)
(* one read or write of what they share.                                   *)
(***************************************************************************)
EXTENDS Naturals, Sequences, FiniteSets

CONSTANTS
  Saves,      \* calls of save
  Device,     \* Device[s]: its hostname, and so its file
  Texts,      \* what config_text may be, for all saves
  Readme, Nothing,
  Jobs,       \* bound: jobs that run at once, each with one save at a time
  MaxFaults   \* bound: crashes and pushes that fail

ASSUME SaveAssumption ==
  /\ DOMAIN Device = Saves /\ Readme \notin {Device[s] : s \in Saves}
  /\ \A t \in Texts : DOMAIN t = Saves /\ Nothing \notin {t[s] : s \in Saves}
ASSUME JobAssumption == Jobs \in Nat \ {0} /\ MaxFaults \in Nat

Names == {Device[s] : s \in Saves} \union {Readme}
NoFiles == [n \in Names |-> Nothing]

VARIABLES
  text,       \* text[s]: the config_text of a save
  repo,       \* .git exists
  work,       \* the working tree
  index,
  lock,       \* index.lock exists
  commits,    \* all commits, each with its tree and all commits it descends from
  head,       \* HEAD, 0 before the first commit
  remote,     \* the branch of the remote, 0 while there is none
  step,
  name,       \* the file that a save is at: README.md of a new repository, then its own
  staged, tree, parent,  \* what a save has read, until it is written
  faults,
  overlapped, \* observer: saves that ran while another did
  unpushed,   \* observer: saves whose push failed
  last        \* observer: the save that ended last, before a crash none

shared == <<repo, work, index, lock, commits, head, remote>>
locals == <<name, staged, tree, parent>>
gVars == <<text, shared, step, locals, faults, overlapped, unpushed, last>>

Ended == {"saved", "failed"}
Active == {s \in Saves : step[s] \notin Ended \union {"idle"}}

GInit ==
  /\ text \in Texts
  /\ repo = FALSE /\ work = NoFiles /\ index = NoFiles /\ lock = FALSE
  /\ commits = <<>> /\ head = 0 /\ remote = 0
  /\ step = [s \in Saves |-> "idle"]
  /\ name = [s \in Saves |-> Readme]
  /\ staged = [s \in Saves |-> NoFiles] /\ tree = [s \in Saves |-> NoFiles]
  /\ parent = [s \in Saves |-> 0]
  /\ faults = 0 /\ overlapped = {} /\ unpushed = {} /\ last = Nothing

Goto(s, to) == step' = [step EXCEPT ![s] = to]
Ends(s, how) == Goto(s, how) /\ last' = s
Quiet == UNCHANGED <<faults, overlapped, unpushed>>

History(c) == IF c = 0 THEN {} ELSE commits[c].past
TreeOf(c) == IF c = 0 THEN NoFiles ELSE commits[c].tree

-----------------------------------------------------------------------------
(* The steps of a save *)

\* It looks for .git.
Open(s) ==
  /\ step[s] = "idle" /\ Cardinality(Active) < Jobs
  /\ Goto(s, IF repo THEN "write" ELSE "init")
  /\ overlapped' = IF Active = {} THEN overlapped ELSE overlapped \union Active \union {s}
  /\ UNCHANGED <<shared, locals, faults, unpushed, last>>

\* Repo.init leaves a repository that is there as it is.
InitRepo(s) ==
  /\ step[s] = "init" /\ Goto(s, "readme") /\ repo' = TRUE
  /\ UNCHANGED <<work, index, lock, commits, head, remote, locals, last>> /\ Quiet

\* Only who finds no README.md writes and commits it.
WriteReadme(s) ==
  /\ step[s] = "readme"
  /\ \/ work[Readme] = Nothing /\ Goto(s, "stage") /\ work' = [work EXCEPT ![Readme] = Readme]
     \/ work[Readme] # Nothing /\ Goto(s, "write") /\ UNCHANGED work
  /\ UNCHANGED <<repo, index, lock, commits, head, remote, locals, last>> /\ Quiet

Write(s) ==
  /\ step[s] = "write" /\ Goto(s, "stage")
  /\ name' = [name EXCEPT ![s] = Device[s]]
  /\ work' = [work EXCEPT ![Device[s]] = text[s]]
  /\ UNCHANGED <<repo, index, lock, commits, head, remote, staged, tree, parent, last>> /\ Quiet

\* index.add reads the index before it takes the lock.
Stage(s) ==
  /\ step[s] = "stage" /\ Goto(s, "lock")
  /\ staged' = [staged EXCEPT ![s] = [index EXCEPT ![name[s]] = work[name[s]]]]
  /\ UNCHANGED <<shared, name, tree, parent, last>> /\ Quiet

\* It does not wait for the lock: it raises.
Lock(s) ==
  /\ step[s] = "lock"
  /\ \/ lock /\ Ends(s, "failed") /\ staged' = [staged EXCEPT ![s] = NoFiles] /\ UNCHANGED lock
     \/ ~lock /\ Goto(s, "index") /\ lock' = TRUE /\ UNCHANGED <<staged, last>>
  /\ UNCHANGED <<repo, work, index, commits, head, remote, name, tree, parent>> /\ Quiet

\* README.md is committed in any case.
WriteIndex(s) ==
  /\ step[s] = "index" /\ Goto(s, IF name[s] = Readme THEN "tree" ELSE "dirty")
  /\ index' = staged[s] /\ lock' = FALSE
  /\ staged' = [staged EXCEPT ![s] = NoFiles]
  /\ UNCHANGED <<repo, work, commits, head, remote, name, tree, parent, last>> /\ Quiet

\* Seeded fault: is_dirty(index=False).
TreeDiffers == \E n \in Names : index[n] # Nothing /\ work[n] # index[n]

\* is_dirty: the index and HEAD, or the working tree and the index.
Dirty == index # TreeOf(head) \/ \E n \in Names : index[n] # Nothing /\ work[n] # index[n]

\* Seeded fault: what was not committed is not pushed.
EndsUnchanged(s) == Ends(s, "saved")

Unchanged(s) == Goto(s, "push") /\ UNCHANGED last

Look(s) ==
  /\ step[s] = "dirty" /\ UNCHANGED <<shared, locals>> /\ Quiet
  /\ \/ Dirty /\ Goto(s, "tree") /\ UNCHANGED last
     \/ ~Dirty /\ Unchanged(s)

\* index.commit: the tree, the parent, and HEAD, each in its turn.
WriteTree(s) ==
  /\ step[s] = "tree" /\ Goto(s, "parent") /\ tree' = [tree EXCEPT ![s] = index]
  /\ UNCHANGED <<shared, name, staged, parent, last>> /\ Quiet

ReadHead(s) ==
  /\ step[s] = "parent" /\ Goto(s, "commit") /\ parent' = [parent EXCEPT ![s] = head]
  /\ UNCHANGED <<shared, name, staged, tree, last>> /\ Quiet

Commit(s) ==
  LET c == Len(commits) + 1
  IN  /\ step[s] = "commit" /\ Goto(s, IF name[s] = Readme THEN "write" ELSE "push")
      /\ commits' = Append(commits, [tree |-> tree[s], past |-> History(parent[s]) \union {c}])
      /\ head' = c
      /\ tree' = [tree EXCEPT ![s] = NoFiles] /\ parent' = [parent EXCEPT ![s] = 0]
      /\ UNCHANGED <<repo, work, index, lock, remote, name, staged, last>> /\ Quiet

\* A remote takes what its branch is an ancestor of.  Whatever goes wrong is a warning.
Push(s) ==
  /\ step[s] = "push" /\ Ends(s, "saved")
  /\ UNCHANGED <<repo, work, index, lock, commits, head, locals, overlapped>>
  /\ \/ remote' = (IF remote = 0 \/ remote \in History(head) THEN head ELSE remote)
        /\ UNCHANGED <<faults, unpushed>>
     \/ faults < MaxFaults /\ faults' = faults + 1
        /\ unpushed' = unpushed \union {s} /\ UNCHANGED remote

\* The process dies with all its threads; the files stay, index.lock among them.
ProcessDies ==
  /\ faults < MaxFaults /\ faults' = faults + 1 /\ Active # {}
  /\ step' = [s \in Saves |-> IF s \in Active THEN "failed" ELSE step[s]]
  /\ last' = Nothing
  /\ staged' = [s \in Saves |-> NoFiles] /\ tree' = [s \in Saves |-> NoFiles]
  /\ parent' = [s \in Saves |-> 0]
  /\ UNCHANGED <<shared, name, overlapped, unpushed>>

GNext ==
  /\ UNCHANGED text
  /\ \/ \E s \in Saves :
         \/ Open(s) \/ InitRepo(s) \/ WriteReadme(s) \/ Write(s) \/ Stage(s)
         \/ Lock(s) \/ WriteIndex(s) \/ Look(s) \/ WriteTree(s) \/ ReadHead(s) \/ Commit(s) \/ Push(s)
     \/ ProcessDies

GSpec == GInit /\ [][GNext]_gVars

-----------------------------------------------------------------------------
(* Properties *)

Alone(s) == s \notin overlapped
Holds(c, s) == \E d \in History(c) : commits[d].tree[Device[s]] = text[s]

\* What a save reported as stored is in the history of HEAD from then on, if no other
\* save ran while it did, whatever became of others before it and after it: saves that
\* ran into each other, lost an entry of the index or a commit, or died half-way.
SavedIsCommitted == \A s \in Saves : step[s] = "saved" /\ Alone(s) => Holds(head, s)

\* A push that failed is made up for by the next: while saves come one at a time, the
\* remote has all that was reported as stored once one has ended well whose push did not
\* fail, also one that found nothing new to commit.
PushCatchesUp ==
  /\ overlapped = {} /\ last # Nothing /\ step[last] = "saved" /\ last \notin unpushed
  /\ Active = {}
  => \A s \in Saves : step[s] = "saved" => Holds(remote, s)
=============================================================================
