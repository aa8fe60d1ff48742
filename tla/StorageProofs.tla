----------------------------- MODULE StorageProofs -----------------------------
(***************************************************************************)
(* What is stored is there, and what is gone is known to be gone: the      *)
(* upload to Telegram (Delivery), the commits of the git destination       *)
(* (GitStore), and what the sweeps and the deletions take away again       *)
(* (Retention).                                                            *)
(***************************************************************************)
EXTENDS Delivery, GitStore, Retention, TLAPS

(***************************************************************************)
(* Delivery: a returned path gives the whole file again, and the right     *)
(* faults are retried, for any limits, sizes and tokens.                   *)
(*                                                                         *)
(* PathReassembles: while an attempt goes on, the k-th message it has      *)
(* counted carries the k-th part (Placed), and it has counted fewer        *)
(* messages than there are parts (Counted); so when the save returns there *)
(* is one message for each part, and the parts join (PartsJoin).           *)
(* RetriesFollowCause needs the type of each fault (FaultsRetried), which  *)
(* the first rule that it satisfies decides (FirstRuleDecides).            *)
(***************************************************************************)

Placed == \A k \in 1 .. Len(ids) : ids[k] \in 1 .. Len(chat) /\ chat[ids[k]] = Part(k)
Counted == /\ state = "post" => Len(ids) < NumParts
           /\ state = "saved" => Len(ids) = NumParts
IInv == TypeOK /\ Placed /\ Counted

-----------------------------------------------------------------------------
(* Parts *)

\* Of the parts of a file all but the last are full, and the last is not empty.
LEMMA LastPart ==
  ASSUME size \in Nat
  PROVE  /\ NumParts \in Nat \ {0}
         /\ ~Fits => (NumParts - 1) * SplitSize < size /\ size <= NumParts * SplitSize
<1> USE SizeAssumption
<1>1. CASE Fits
  BY <1>1 DEF NumParts
<1>2. CASE ~Fits
  <2> DEFINE n == (size + SplitSize - 1) \div SplitSize
             r == (size + SplitSize - 1) % SplitSize
  <2>1. NumParts = n /\ size > 0
    BY <1>2 DEF NumParts, Fits
  <2>2. n \in Int /\ r \in 0 .. SplitSize - 1 /\ size + SplitSize - 1 = SplitSize * n + r
    OBVIOUS
  <2> HIDE DEF n, r
  <2>3. SplitSize * n \in Int /\ SplitSize * (n - 1) = SplitSize * n - SplitSize
        /\ SplitSize * n = n * SplitSize /\ SplitSize * (n - 1) = (n - 1) * SplitSize
    BY <2>2
  <2>4. size <= n * SplitSize /\ (n - 1) * SplitSize < size
    BY <2>2, <2>3
  <2>5. n > 0
    BY <2>1, <2>2, <2>4
  <2> QED BY <2>1, <2>2, <2>4, <2>5
<1> QED BY <1>1, <1>2

\* The first part begins at 0, each ends where the next begins, the last with the file.
LEMMA PartsJoin ==
  ASSUME size \in Nat
  PROVE  /\ Part(1).from = 0 /\ Part(NumParts).to = size
         /\ \A i \in 1 .. NumParts - 1 : Part(i).to = Part(i + 1).from
<1> USE SizeAssumption
<1>1. CASE Fits
  BY <1>1 DEF Part, NumParts
<1>2. CASE ~Fits
  <2>1. /\ NumParts \in Nat \ {0}
        /\ (NumParts - 1) * SplitSize < size /\ size <= NumParts * SplitSize
    BY <1>2, LastPart
  <2>2. Part(1).from = 0
    BY <1>2 DEF Part, Bounds
  <2>3. Part(NumParts).to = size
    BY <1>2, <2>1 DEF Part, Bounds
  <2>4. ASSUME NEW i \in 1 .. NumParts - 1 PROVE Part(i).to = Part(i + 1).from
    <3>1. i * SplitSize <= (NumParts - 1) * SplitSize
      BY <2>1
    <3>2. i * SplitSize <= size
      BY <2>1, <3>1
    <3>3. Part(i).to = i * SplitSize
      BY <1>2, <3>2 DEF Part, Bounds
    <3>4. Part(i + 1).from = (i + 1 - 1) * SplitSize
      BY <1>2 DEF Part, Bounds
    <3> QED BY <3>3, <3>4
  <2> QED BY <2>2, <2>3, <2>4
<1> QED BY <1>1, <1>2

\* A part is a document.
LEMMA PartIsDocument ==
  ASSUME size \in Nat, NEW i \in Nat \ {0}
  PROVE  Part(i) \in Document
BY SizeAssumption DEF Part, Bounds, Document

-----------------------------------------------------------------------------
(* The messages of an attempt *)

\* The parts do not change: nothing but size is in them.
LEMMA SamePart ==
  ASSUME size' = size
  PROVE  /\ NumParts' = NumParts
         /\ \A i : Part(i)' = Part(i)
BY DEF NumParts, Fits, Part, Bounds

\* One more document in the chat leaves those before it where they are.
LEMMA ChatGrows ==
  ASSUME TypeOK
  PROVE  /\ Sent \in Seq(Document) /\ Len(Sent) = Len(chat) + 1
         /\ Sent[Len(chat) + 1] = Part(Len(ids) + 1)
         /\ \A i \in 1 .. Len(chat) : Sent[i] = chat[i]
<1>1. size \in Nat /\ chat \in Seq(Document) /\ Len(ids) + 1 \in Nat \ {0}
  BY SizeAssumption DEF TypeOK
<1>2. Part(Len(ids) + 1) \in Document
  BY <1>1, PartIsDocument
<1> QED BY <1>1, <1>2 DEF Sent

\* A request without an answer leaves the chat well formed, and the messages that the
\* attempt has counted in it.
LEMMA UnansweredKeeps ==
  ASSUME TypeOK, Placed, NEW f \in Faults, Unanswered(f), size' = size
  PROVE  /\ chat' \in Seq(Document)
         /\ \A k \in 1 .. Len(ids) : ids[k] \in 1 .. Len(chat') /\ chat'[ids[k]] = Part(k)'
<1>1. chat' = chat \/ chat' = Sent
  BY DEF Unanswered
<1>2. CASE chat' = chat
  BY <1>2, SamePart DEF TypeOK, Placed
<1>3. CASE chat' = Sent
  <2>1. Len(chat) \in Nat
    BY DEF TypeOK
  <2> QED BY <1>3, <2>1, ChatGrows, SamePart DEF Placed
<1> QED BY <1>1, <1>2, <1>3

LEMMA InitInv == Init => IInv
<1> SUFFICES ASSUME Init PROVE IInv
  OBVIOUS
<1>1. TypeOK
  BY RetryAssumption DEF Init, TypeOK
<1>2. Placed
  BY DEF Init, Placed
<1>3. Counted
  <2>1. NumParts \in Nat \ {0}
    BY LastPart, SizeAssumption DEF Init
  <2> QED BY <2>1 DEF Init, Counted
<1> QED BY <1>1, <1>2, <1>3 DEF IInv

\* The fix of an attempt is one of the two, or the one before.
LEMMA FixedType ==
  ASSUME TypeOK, NEW f \in Faults
  PROVE  Fixed(f) \in {"none", "rate_limit_cooldown", "increase_timeout"}
BY DEF Fixed, TypeOK

LEMMA NextInv == IInv /\ [Next]_vars => IInv'
<1> SUFFICES ASSUME IInv, [Next]_vars PROVE IInv'
  OBVIOUS
<1> USE DEF IInv
<1>size. size \in Nat /\ NumParts \in Nat \ {0}
  BY LastPart, SizeAssumption DEF TypeOK
<1>Uploaded. CASE Uploaded
  <2>1. /\ chat' = Sent /\ ids' = Append(ids, Len(chat) + 1) /\ size' = size
        /\ Len(chat) \in Nat /\ ids \in Seq(Nat)
    BY <1>Uploaded DEF Uploaded, TypeOK
  <2>2. Len(ids') = Len(ids) + 1 /\ ids'[Len(ids) + 1] = Len(chat) + 1
        /\ (\A k \in 1 .. Len(ids) : ids'[k] = ids[k]) /\ ids' \in Seq(Nat)
        /\ Len(ids) \in Nat
    BY <2>1
  <2>3. TypeOK'
    BY <1>Uploaded, <2>1, <2>2, ChatGrows, RetryAssumption DEF Uploaded, TypeOK
  <2>4. Placed'
    <3>1. ASSUME NEW k \in 1 .. Len(ids)
          PROVE  ids'[k] \in 1 .. Len(chat') /\ chat'[ids'[k]] = Part(k)'
      BY <2>1, <2>2, ChatGrows, SamePart DEF Placed
    <3>2. ASSUME NEW k \in Nat, k = Len(ids) + 1
          PROVE  ids'[k] \in 1 .. Len(chat') /\ chat'[ids'[k]] = Part(k)'
      BY <2>1, <2>2, <3>2, ChatGrows, SamePart
    <3>3. ASSUME NEW k \in 1 .. Len(ids')
          PROVE  k \in 1 .. Len(ids) \/ (k \in Nat /\ k = Len(ids) + 1)
      BY <2>2
    <3> QED BY <3>1, <3>2, <3>3 DEF Placed
  <2>5. Counted'
    <3>1. NumParts' = NumParts
      BY <2>1, SamePart
    <3>2. Len(ids) < NumParts
      BY <1>Uploaded DEF Uploaded, Counted
    <3> QED BY <1>Uploaded, <1>size, <2>2, <3>1, <3>2 DEF Uploaded, Counted
  <2> QED BY <2>3, <2>4, <2>5
<1>TriesAgain. ASSUME NEW f \in Faults, TriesAgain(f) PROVE IInv'
  <2>1. Unanswered(f) /\ size' = size /\ ids' = ids
    BY <1>TriesAgain DEF TriesAgain
  <2>2. TypeOK'
    BY <1>TriesAgain, <2>1, UnansweredKeeps, RetryAssumption DEF TriesAgain, TypeOK
  <2>3. Placed'
    BY <2>1, UnansweredKeeps DEF Placed
  <2>4. Counted'
    BY <1>TriesAgain, <2>1, SamePart DEF TriesAgain, Counted
  <2> QED BY <2>2, <2>3, <2>4
<1>Retries. ASSUME NEW f \in Faults, Retries(f) PROVE IInv'
  <2>1. Unanswered(f) /\ size' = size /\ ids' = <<>> /\ state' = state /\ state = "post"
    BY <1>Retries DEF Retries, AttemptFails, Unanswered
  <2>2. TypeOK'
    BY <1>Retries, <2>1, UnansweredKeeps, FixedType, RetryAssumption
    DEF Retries, AttemptFails, TypeOK
  <2>3. Placed'
    BY <2>1 DEF Placed
  <2>4. Counted'
    BY <1>size, <2>1, SamePart DEF Counted
  <2> QED BY <2>2, <2>3, <2>4
<1>GivesUp. ASSUME NEW f \in Faults, GivesUp(f) PROVE IInv'
  <2>1. Unanswered(f) /\ size' = size /\ ids' = ids /\ state' = "failed"
    BY <1>GivesUp DEF GivesUp, AttemptFails
  <2>2. TypeOK'
    BY <1>GivesUp, <2>1, UnansweredKeeps DEF GivesUp, AttemptFails, TypeOK
  <2>3. Placed'
    BY <2>1, UnansweredKeeps DEF Placed
  <2>4. Counted'
    BY <2>1 DEF Counted
  <2> QED BY <2>2, <2>3, <2>4
<1>Stutter. CASE UNCHANGED vars
  <2>1. TypeOK'
    BY <1>Stutter DEF vars, TypeOK
  <2>2. size' = size /\ ids' = ids /\ chat' = chat /\ state' = state
    BY <1>Stutter DEF vars
  <2>3. Placed' /\ Counted'
    BY <2>2, SamePart DEF Placed, Counted
  <2> QED BY <2>1, <2>3
<1> QED BY <1>Uploaded, <1>TriesAgain, <1>Retries, <1>GivesUp, <1>Stutter DEF Next

-----------------------------------------------------------------------------
(* Which faults are retried *)

\* The first rule that an error satisfies gives its type.
LEMMA FirstRuleDecides ==
  ASSUME NEW S, NEW i \in DOMAIN Rules, Rules[i] \in S, \A k \in 1 .. i - 1 : Rules[k] \notin S
  PROVE  Classify(S) = Rules[i]
<1>1. DOMAIN Rules = 1 .. 10
  BY DEF Rules
<1> DEFINE First(j) == Rules[j] \in S /\ \A k \in 1 .. j - 1 : Rules[k] \notin S
<1>2. First(i) /\ FirstRule(S) \in DOMAIN Rules /\ First(FirstRule(S))
  BY DEF FirstRule
<1>3. ~(FirstRule(S) < i) /\ ~(i < FirstRule(S))
  BY <1>1, <1>2
<1>4. FirstRule(S) = i
  BY <1>1, <1>2, <1>3
<1> QED BY <1>4 DEF Classify

\* What each rule is called.
LEMMA RuleNames ==
  /\ DOMAIN Rules = 1 .. 10
  /\ Rules[1] = "rate_limit" /\ Rules[2] = "auth_failure" /\ Rules[3] = "permission_denied"
  /\ Rules[4] = "invalid_config" /\ Rules[5] = "disk_full" /\ Rules[6] = "invalid_params"
  /\ Rules[7] = "smb_temporary" /\ Rules[8] = "network_timeout"
  /\ Rules[9] = "network_connection" /\ Rules[10] = "temporary_unavailable"
BY DEF Rules

\* With a token that satisfies no rule, the faults that are retried are the documented ones,
\* but for those that are not recognized.
Promised == Documented \ Unrecognized

LEMMA PromisedAre ==
  Promised = {"ConnectError", "ConnectTimeout", "ReadTimeout", "502", "503", "504"}
BY DEF Promised, Documented, Unrecognized, Transport

LEMMA FaultsRetried ==
  ASSUME token = {}, NEW f \in Faults
  PROVE  Retryable(f) <=> f \in Promised
<1> USE RuleNames, PromisedAre
<1>1. CASE f \in {"502", "503"}
  <2>1. Text(f) = {"temporary_unavailable"}
    BY <1>1 DEF Text, StatusText, Statuses
  <2>2. Classify(Text(f)) = "temporary_unavailable"
    BY <2>1, FirstRuleDecides
  <2> QED BY <1>1, <2>2 DEF Retryable, Transient
<1>2. CASE f = "504"
  <2>1. Text(f) = {"network_timeout", "temporary_unavailable"}
    BY <1>2 DEF Text, StatusText, Statuses
  <2>2. Classify(Text(f)) = "network_timeout"
    BY <2>1, FirstRuleDecides
  <2> QED BY <1>2, <2>2 DEF Retryable, Transient
<1>3. CASE f = "ConnectError"
  <2>1. Text(f) = {"network_connection"}
    BY <1>3 DEF Text, Statuses
  <2>2. Classify(Text(f)) = "network_connection"
    BY <2>1, FirstRuleDecides
  <2> QED BY <1>3, <2>2 DEF Retryable, Transient
<1>4. CASE f \in {"ConnectTimeout", "ReadTimeout"}
  <2>1. Text(f) = {"network_timeout"}
    BY <1>4 DEF Text, Statuses
  <2>2. Classify(Text(f)) = "network_timeout"
    BY <2>1, FirstRuleDecides
  <2> QED BY <1>4, <2>2 DEF Retryable, Transient
<1>5. CASE f \notin Promised
  <2>1. Text(f) \subseteq {"auth_failure", "permission_denied", "invalid_config", "invalid_params"}
    BY <1>5 DEF Text, StatusText, Statuses, Transport, Faults
  <2>2. Classify(Text(f)) \notin Transient
    <3>1. CASE \E i \in DOMAIN Rules : Rules[i] \in Text(f)
      <4>1. PICK i \in 1 .. 10 : Rules[i] \in Text(f)
        BY <3>1
      <4>2. \E j \in 1 .. 10 : Rules[j] \in Text(f) /\ \A k \in 1 .. j - 1 : Rules[k] \notin Text(f)
        BY <2>1, <4>1
      <4>3. PICK j \in DOMAIN Rules :
              Rules[j] \in Text(f) /\ \A k \in 1 .. j - 1 : Rules[k] \notin Text(f)
        BY <4>2
      <4>4. Classify(Text(f)) = Rules[j]
        BY <4>3, FirstRuleDecides
      <4> QED BY <2>1, <4>3, <4>4 DEF Transient
    <3>2. CASE ~\E i \in DOMAIN Rules : Rules[i] \in Text(f)
      BY <3>2 DEF Classify, Transient
    <3> QED BY <3>1, <3>2
  <2> QED BY <1>5, <2>2 DEF Retryable
<1> QED BY <1>1, <1>2, <1>3, <1>4, <1>5

\* After a timeout that is retried the fix for it has been applied.
LEMMA TimeoutsFixed ==
  ASSUME NEW f \in {"ConnectTimeout", "ReadTimeout"}
  PROVE  Fixed(f) = "increase_timeout"
BY DEF Fixed, Text, Statuses

-----------------------------------------------------------------------------
(* Theorems *)

\* The types, for any limits, sizes and tokens: no attempt beyond the last, no message
\* that is not a document.
THEOREM TypeCorrect == Spec => []TypeOK
<1>1. IInv => TypeOK
  BY DEF IInv
<1> QED BY <1>1, InitInv, NextInv, PTL DEF Spec

\* The path that a save returns gives the whole file, for every size and every limit,
\* whatever was sent twice or given up halfway before.
THEOREM PathGivesFile == Spec => []PathReassembles
<1>1. IInv => PathReassembles
  <2> SUFFICES ASSUME IInv, state = "saved" PROVE PathReassembles
    BY DEF PathReassembles
  <2>1. size \in Nat /\ ids \in Seq(Nat) /\ chat \in Seq(Document)
    BY SizeAssumption DEF IInv, TypeOK
  <2>2. NumParts \in Nat \ {0} /\ Len(ids) = NumParts
    BY <2>1, LastPart DEF IInv, Counted
  <2>3. \A k \in 1 .. Len(ids) : ids[k] \in DOMAIN chat /\ chat[ids[k]] = Part(k)
    BY <2>1 DEF IInv, Placed
  <2>4. chat[ids[1]].from = 0 /\ chat[ids[Len(ids)]].to = size
    BY <2>1, <2>2, <2>3, PartsJoin
  <2>5. ASSUME NEW i \in 1 .. Len(ids) - 1
        PROVE  chat[ids[i]].to = chat[ids[i + 1]].from
    BY <2>1, <2>2, <2>3, PartsJoin
  <2> QED BY <2>2, <2>3, <2>4, <2>5 DEF PathReassembles
<1> QED BY <1>1, InitInv, NextInv, PTL DEF Spec

\* After faults that the document calls transient, and after no others, a save is begun anew,
\* but for the four that classify_error does not recognize, for any limits and any token
\* whose characters satisfy no rule.
THEOREM RightFaultsRetried == Spec => []RetriesFollowCause
<1> DEFINE Cause == /\ RetriesFollowCause
                    /\ state # "failed" /\ att = 1 => cause = "none"
<1>1. Init => Cause
  BY DEF Init, RetriesFollowCause
<1>2. TypeOK /\ Cause /\ [Next]_vars => Cause'
  <2> SUFFICES ASSUME TypeOK, Cause, [Next]_vars PROVE Cause'
    OBVIOUS
  <2>1. CASE Uploaded \/ UNCHANGED vars
    <3>1. /\ UNCHANGED <<token, att, cause, fix>> /\ (state' = "failed" <=> state = "failed")
      BY <2>1 DEF Uploaded, vars
    <3> QED BY <3>1 DEF RetriesFollowCause
  <2>2. ASSUME NEW f \in Faults, TriesAgain(f) PROVE Cause'
    BY <2>2 DEF TriesAgain, RetriesFollowCause
  <2>3. ASSUME NEW f \in Faults, Retries(f) PROVE Cause'
    <3>1. /\ Retryable(f) /\ att' = att + 1 /\ att \in Nat \ {0} /\ cause' = f
          /\ fix' = Fixed(f) /\ token' = token /\ state' = "post"
      BY <2>3, RetryAssumption DEF Retries, AttemptFails, Unanswered, TypeOK
    <3> QED BY <3>1, FaultsRetried, TimeoutsFixed DEF RetriesFollowCause, Promised
  <2>4. ASSUME NEW f \in Faults, GivesUp(f) PROVE Cause'
    <3>1. /\ att' = att /\ cause' = f /\ token' = token /\ state' = "failed"
          /\ ~Retryable(f) \/ ~(att < MaxAttempts)
      BY <2>4 DEF GivesUp, AttemptFails
    <3> QED BY <3>1, FaultsRetried DEF RetriesFollowCause, Promised
  <2> QED BY <2>1, <2>2, <2>3, <2>4 DEF Next
<1>3. Cause => RetriesFollowCause
  OBVIOUS
<1> QED BY <1>1, <1>2, <1>3, TypeCorrect, PTL DEF Spec

-----------------------------------------------------------------------------
(***************************************************************************)
(* GitStore: what a save that ran alone reported stays in the history of   *)
(* HEAD, and a push that gets through makes up for those that did not.     *)
(*                                                                         *)
(* An undisturbed save has its text where its next step looks for it       *)
(* (Carries): nobody else is at work (Apart).  Saves that run into each    *)
(* other may lose each other's commits, never an older one: the parent     *)
(* each has read descends from all that was reported before (Parents).     *)
(* While saves come one at a time the history is a line (Linear).          *)
(***************************************************************************)

\* What a file of the tree may hold.
Contents == {text[s] : s \in Saves} \union {Readme, Nothing}
Trees == [Names -> Contents]
Commits == [tree : Trees, past : SUBSET Nat]
Steps == Ended \union {"idle", "init", "readme", "write", "stage", "lock", "index", "dirty", "tree", "parent",
                       "commit", "push"}

GitTyped ==
  /\ text \in Texts
  /\ work \in Trees /\ index \in Trees
  /\ commits \in Seq(Commits)
  /\ head \in 0 .. Len(commits) /\ remote \in 0 .. Len(commits)
  /\ step \in [Saves -> Steps]
  /\ name \in [Saves -> Names]
  /\ staged \in [Saves -> Trees] /\ tree \in [Saves -> Trees]
  /\ parent \in [Saves -> 0 .. Len(commits)]
  /\ overlapped \subseteq Saves /\ unpushed \subseteq Saves
  /\ last \in Saves \union {Nothing}

\* A commit descends from itself and from earlier ones.
Histories == \A c \in 1 .. Len(commits) : c \in commits[c].past /\ commits[c].past \subseteq 1 .. c

\* Of two saves that are at work neither is alone.
Apart == \A s, t \in Active : s # t => ~Alone(s)

\* A save is at README.md first, if at all.
NameFits(s) ==
  /\ name[s] \in {Readme, Device[s]}
  /\ step[s] \in {"dirty", "push"} => name[s] = Device[s]
  /\ step[s] \in {"idle", "init", "readme"} => name[s] = Readme

\* Where a save that nobody disturbs has its text.
Carries(s) ==
  s \in Active /\ Alone(s) /\ name[s] = Device[s] =>
    /\ step[s] = "stage" => work[Device[s]] = text[s]
    /\ step[s] \in {"lock", "index"} => staged[s][Device[s]] = text[s]
    /\ step[s] \in {"dirty", "tree"} => index[Device[s]] = text[s]
    /\ step[s] \in {"parent", "commit"} => tree[s][Device[s]] = text[s]
    /\ step[s] = "push" => Holds(head, s)

\* No commit is about to be made beside one that holds what was reported as stored.
KeptBy(c) == \A s \in Saves : step[s] = "saved" /\ Alone(s) => Holds(c, s)
Parents == \A t \in Saves : step[t] = "commit" => KeptBy(parent[t])

\* As long as saves come one at a time the history is a line, and the remote is at its end
\* whenever the last push has not failed.
Linear ==
  overlapped = {} =>
    /\ head = Len(commits) /\ \A c \in 1 .. Len(commits) : commits[c].past = 1 .. c
    /\ \A s \in Saves : step[s] = "commit" => parent[s] = head
    /\ Active = {} /\ last # Nothing /\ step[last] = "saved" /\ last \notin unpushed
         => remote = head

GitInv ==
  /\ GitTyped /\ Histories /\ Apart
  /\ \A s \in Saves : NameFits(s) /\ Carries(s)
  /\ KeptBy(head) /\ Parents /\ Linear

LEMMA DevicesNamed == \A s \in Saves : Device[s] \in Names /\ Device[s] # Readme
BY SaveAssumption DEF Names

LEMMA NoFilesTree == NoFiles \in Trees
BY DEF NoFiles, Trees, Contents

LEMMA TreesKept == ASSUME text' = text PROVE Trees' = Trees /\ Commits' = Commits
BY DEF Trees, Contents, Commits

LEMMA TreeWith ==
  ASSUME NEW T \in Trees, NEW n \in Names, NEW x \in Contents
  PROVE  [T EXCEPT ![n] = x] \in Trees /\ T[n] \in Contents
BY DEF Trees

LEMMA GitStart == GInit => GitInv
<1> SUFFICES ASSUME GInit PROVE GitInv
  OBVIOUS
<1> USE DEF GInit
<1>1. NoFiles \in Trees
  BY NoFilesTree
<1>2. commits = <<>> /\ Len(commits) = 0
  OBVIOUS
<1>3. Active = {}
  BY DEF Active, Ended
<1>4. GitTyped
  BY <1>1, <1>2 DEF GitTyped, Steps, Names, Ended
<1> QED BY <1>2, <1>3, <1>4 DEF GitInv, Histories, Apart, NameFits, Carries, KeptBy, Parents, Linear

\* An append to the commits leaves the older ones as they are.
LEMMA HoldsStays ==
  ASSUME GitTyped, Histories, NEW r, commits' = Append(commits, r) \/ commits' = commits, text' = text,
         NEW c \in 0 .. Len(commits), NEW s \in Saves, Holds(c, s)
  PROVE  Holds(c, s)'
<1>1. c # 0
  BY DEF Holds, History
<1>2. c \in 1 .. Len(commits) /\ commits'[c] = commits[c]
  BY <1>1 DEF GitTyped
<1>3. PICK d \in commits[c].past : commits[d].tree[Device[s]] = text[s]
  BY <1>1 DEF Holds, History
<1>4. d \in 1 .. Len(commits)
  BY <1>2, <1>3 DEF Histories, GitTyped
<1>5. commits'[d] = commits[d]
  BY <1>4 DEF GitTyped
<1> QED BY <1>1, <1>2, <1>3, <1>5 DEF Holds, History

\* Who is alone stays so only if nobody else begins; and who saved alone was not
\* disturbed later.
LEMMA OthersNotAlone ==
  ASSUME GitInv, NEW s \in Active, NEW t \in Active, s # t
  PROVE  ~Alone(t)
BY DEF GitInv, Apart

\* A step of a save that reaches neither history nor remote and does not end it.
LEMMA LocalStep ==
  ASSUME GitInv, GitTyped', NEW s \in Saves, s \in Active, s \in Active',
         NEW to, step' = [step EXCEPT ![s] = to], to \notin Ended \union {"idle"},
         UNCHANGED <<text, commits, head, remote, overlapped, unpushed, last>>,
         \A t \in Saves \ {s} : name'[t] = name[t] /\ parent'[t] = parent[t],
         step'[s] = "commit" => parent'[s] = head,
         NameFits(s)', Carries(s)'
  PROVE  GitInv'
<1>1. /\ \A t \in Saves \ {s} : step'[t] = step[t]
      /\ Active' = Active
  BY DEF GitInv, GitTyped, Active
<1>2. Histories' /\ Apart'
  BY <1>1 DEF GitInv, Histories, Apart, Alone, GitTyped
<1>3. ASSUME NEW t \in Saves PROVE NameFits(t)' /\ Carries(t)'
  <2>1. CASE t = s
    BY <2>1
  <2>2. CASE t # s
    <3>1. t \in Active => ~Alone(t)
      BY <2>2, OthersNotAlone
    <3> QED BY <1>1, <2>2, <3>1 DEF GitInv, NameFits, Carries, Alone
  <2> QED BY <2>1, <2>2
<1>4. \A c : KeptBy(c) => \A t \in Saves : step'[t] = "saved" /\ Alone(t)' => Holds(c, t)'
  BY <1>1 DEF KeptBy, Alone, Holds, History, Ended, Active
<1>5. KeptBy(head)'
  BY <1>4 DEF GitInv, KeptBy
<1>6. Parents'
  <2> SUFFICES ASSUME NEW t \in Saves, step'[t] = "commit" PROVE KeptBy(parent[t])'
    BY DEF Parents
  <2>1. CASE t = s
    BY <1>5, <2>1 DEF KeptBy
  <2>2. CASE t # s
    BY <1>1, <1>4, <2>2 DEF GitInv, Parents, KeptBy
  <2> QED BY <2>1, <2>2
<1>7. Linear'
  <2> SUFFICES ASSUME overlapped = {} PROVE Linear'
    BY DEF Linear
  <2>1. Active' # {}
    BY DEF Active
  <2>2. \A t \in Saves : step'[t] = "commit" => parent'[t] = head
    BY <1>1 DEF GitInv, Linear
  <2> QED BY <2>1, <2>2 DEF GitInv, Linear
<1> QED BY <1>2, <1>3, <1>5, <1>6, <1>7 DEF GitInv

LEMMA OpenStep == ASSUME GitInv, NEW s \in Saves, Open(s), text' = text PROVE GitInv'
<1> USE DEF Open, Goto, locals, shared
<1>1. s \notin Active
  BY DEF Active
<1>2. /\ \A t \in Saves \ {s} : step'[t] = step[t]
      /\ step'[s] \in {"write", "init"} /\ Active' = Active \union {s}
  BY DEF GitInv, GitTyped, Active, Ended
<1>3. GitTyped'
  BY <1>2, TreesKept DEF GitInv, GitTyped, Steps, Active
<1>4. Apart'
  BY <1>2 DEF GitInv, Apart, Alone
<1>5. ASSUME NEW t \in Saves PROVE NameFits(t)' /\ Carries(t)'
  <2>1. CASE t = s
    <3>1. name'[s] = Readme /\ Readme # Device[s]
      BY DevicesNamed DEF GitInv, NameFits
    <3> QED BY <1>2, <2>1, <3>1 DEF NameFits, Carries
  <2>2. CASE t # s
    BY <1>2, <2>2 DEF GitInv, NameFits, Carries, Alone
  <2> QED BY <2>1, <2>2
<1>6. \A c : KeptBy(c) => KeptBy(c)'
  BY <1>2 DEF KeptBy, Alone, Holds, History
<1>7. KeptBy(head)' /\ Parents'
  BY <1>2, <1>6 DEF GitInv, Parents
<1>8. Linear'
  BY <1>2 DEF GitInv, Linear
<1> QED BY <1>3, <1>4, <1>5, <1>7, <1>8 DEF GitInv, Histories

LEMMA LocalSteps ==
  ASSUME GitInv, NEW s \in Saves, text' = text,
         \/ InitRepo(s) \/ WriteReadme(s) \/ Write(s) \/ Stage(s) \/ WriteIndex(s)
         \/ Look(s) \/ WriteTree(s) \/ ReadHead(s)
         \/ Lock(s) /\ ~lock
  PROVE  GitInv'
<1> USE DEF Goto, locals, shared, Quiet
<1>1. Device[s] \in Names /\ Device[s] # Readme
  BY DevicesNamed
<1>2. CASE Write(s)
  <2> USE DEF Write
  <2>1. text[s] \in Contents
    BY DEF Contents
  <2>2. GitTyped'
    <3>1. work' \in Trees
      BY <1>1, <1>2, <2>1, TreeWith DEF GitInv, GitTyped
    <3> QED BY <1>1, <1>2, <3>1, TreesKept DEF GitInv, GitTyped, Steps
  <2>3. NameFits(s)' /\ Carries(s)'
    BY <1>1, <1>2 DEF GitInv, GitTyped, NameFits, Carries, Trees
  <2> QED BY <1>2, <2>2, <2>3, LocalStep DEF Active, Ended, GitInv, GitTyped
<1>3. CASE Stage(s)
  <2> USE DEF Stage
  <2>1. GitTyped'
    <3>1. [index EXCEPT ![name[s]] = work[name[s]]] \in Trees
      BY TreeWith DEF GitInv, GitTyped, Trees
    <3> QED BY <1>3, <3>1, TreesKept DEF GitInv, GitTyped, Steps
  <2>2. NameFits(s)' /\ Carries(s)'
    BY <1>1, <1>3 DEF GitInv, GitTyped, NameFits, Carries, Trees, Active, Ended, Alone
  <2> QED BY <1>3, <2>1, <2>2, LocalStep DEF Active, Ended, GitInv, GitTyped
<1>4. CASE WriteIndex(s)
  <2> USE DEF WriteIndex
  <2>1. GitTyped'
    BY <1>1, <1>4, NoFilesTree, TreesKept, TreeWith DEF GitInv, GitTyped, Steps
  <2>2. NameFits(s)' /\ Carries(s)'
    BY <1>1, <1>4 DEF GitInv, GitTyped, NameFits, Carries, Trees, Active, Ended, Alone
  <2> QED BY <1>4, <2>1, <2>2, LocalStep DEF Active, Ended, GitInv, GitTyped
<1>5. CASE WriteTree(s)
  <2> USE DEF WriteTree
  <2>1. GitTyped'
    BY <1>5, TreesKept, TreeWith DEF GitInv, GitTyped, Steps
  <2>2. NameFits(s)' /\ Carries(s)'
    BY <1>1, <1>5 DEF GitInv, GitTyped, NameFits, Carries, Trees, Active, Ended, Alone
  <2> QED BY <1>5, <2>1, <2>2, LocalStep DEF Active, Ended, GitInv, GitTyped
<1>6. CASE ReadHead(s)
  <2> USE DEF ReadHead
  <2>1. GitTyped'
    BY <1>6, TreesKept, TreeWith DEF GitInv, GitTyped, Steps
  <2>2. NameFits(s)' /\ Carries(s)'
    BY <1>1, <1>6 DEF GitInv, GitTyped, NameFits, Carries, Trees, Active, Ended, Alone
  <2> QED BY <1>6, <2>1, <2>2, LocalStep DEF Active, Ended, GitInv, GitTyped
<1>7. CASE Lock(s) /\ ~lock
  <2> USE DEF Lock
  <2>1. GitTyped'
    BY <1>7, TreesKept, TreeWith DEF GitInv, GitTyped, Steps
  <2>2. NameFits(s)' /\ Carries(s)'
    BY <1>1, <1>7 DEF GitInv, GitTyped, NameFits, Carries, Trees, Active, Ended, Alone
  <2> QED BY <1>7, <2>1, <2>2, LocalStep DEF Active, Ended, GitInv, GitTyped
<1>8. CASE Look(s)
  <2> USE DEF Look
  <2>1. GitTyped'
    <3>1. step' = [step EXCEPT ![s] = "tree"] \/ step' = [step EXCEPT ![s] = "push"]
      BY <1>8 DEF Unchanged
    <3>2. last' = last
      BY <1>8 DEF Unchanged
    <3> QED BY <1>8, <3>1, <3>2, TreesKept DEF GitInv, GitTyped, Steps
  <2>2. CASE Dirty
    <3>1. NameFits(s)' /\ Carries(s)'
      BY <1>1, <1>8, <2>2 DEF GitInv, GitTyped, NameFits, Carries, Active, Ended, Alone
    <3> QED BY <1>8, <2>1, <2>2, <3>1, LocalStep DEF Active, Ended, GitInv, GitTyped
  \* The index is the tree of HEAD, which is a commit: an empty tree has no text.
  <2>3. CASE ~Dirty
    <3>1. step' = [step EXCEPT ![s] = "push"] /\ last' = last
      BY <1>8, <2>3 DEF Unchanged
    <3>2. index = TreeOf(head)
      BY <2>3 DEF Dirty
    <3>3. ASSUME index[Device[s]] = text[s] PROVE Holds(head, s)
      <4>1. text[s] # Nothing
        BY SaveAssumption DEF GitInv, GitTyped
      <4>2. head # 0
        BY <1>1, <3>2, <3>3, <4>1 DEF TreeOf, NoFiles
      <4>3. head \in commits[head].past
        BY <4>2 DEF GitInv, GitTyped, Histories
      <4> QED BY <3>2, <3>3, <4>2, <4>3 DEF Holds, History, TreeOf
    <3>4. NameFits(s)' /\ Carries(s)'
      BY <1>8, <3>1, <3>3 DEF GitInv, GitTyped, NameFits, Carries, Active, Ended, Alone, Holds, History
    <3> QED BY <1>8, <2>1, <3>1, <3>4, LocalStep DEF Active, Ended, GitInv, GitTyped
  <2> QED BY <2>2, <2>3
<1>9. CASE InitRepo(s)
  <2> USE DEF InitRepo
  <2>1. GitTyped'
    BY <1>9, TreesKept DEF GitInv, GitTyped, Steps
  <2>2. NameFits(s)' /\ Carries(s)'
    BY <1>1, <1>9 DEF GitInv, GitTyped, NameFits, Carries
  <2> QED BY <1>9, <2>1, <2>2, LocalStep DEF Active, Ended, GitInv, GitTyped
<1>10. CASE WriteReadme(s)
  <2> USE DEF WriteReadme
  <2>1. /\ step[s] = "readme"
        /\ \E to \in {"stage", "write"} : step' = [step EXCEPT ![s] = to]
        /\ work' \in {work, [work EXCEPT ![Readme] = Readme]}
        /\ UNCHANGED <<repo, index, lock, commits, head, remote, locals, last, faults, overlapped, unpushed>>
    BY <1>10
  <2>2. GitTyped'
    <3>1. Readme \in Names /\ Readme \in Contents
      BY DEF Names, Contents
    <3>2. work' \in Trees
      BY <2>1, <3>1, TreeWith DEF GitInv, GitTyped
    <3> QED BY <2>1, <3>2, TreesKept DEF GitInv, GitTyped, Steps
  <2>3. NameFits(s)' /\ Carries(s)'
    BY <1>1, <2>1 DEF GitInv, GitTyped, NameFits, Carries
  <2> QED BY <2>1, <2>2, <2>3, LocalStep DEF Active, Ended, GitInv, GitTyped
<1> QED BY <1>2, <1>3, <1>4, <1>5, <1>6, <1>7, <1>8, <1>9, <1>10

\* It finds the lock of another: the save fails.
LEMMA LockedOut == ASSUME GitInv, NEW s \in Saves, text' = text, Lock(s), lock PROVE GitInv'
<1> USE DEF Lock, Goto, Ends, Quiet
<1>1. /\ s \in Active /\ Active' = Active \ {s}
      /\ \A t \in Saves \ {s} : step'[t] = step[t]
      /\ step'[s] = "failed" /\ last' = s
  BY DEF GitInv, GitTyped, Active, Ended
<1>2. GitTyped'
  BY NoFilesTree, TreesKept DEF GitInv, GitTyped, Steps, Ended
<1>3. Apart'
  BY <1>1 DEF GitInv, Apart, Alone
<1>4. ASSUME NEW t \in Saves PROVE NameFits(t)' /\ Carries(t)'
  <2>1. CASE t = s
    BY <1>1, <2>1 DEF GitInv, NameFits, Carries
  <2>2. CASE t # s
    <3>1. t \in Active => ~Alone(t)
      BY <1>1, <2>2, OthersNotAlone
    <3> QED BY <1>1, <2>2, <3>1 DEF GitInv, NameFits, Carries, Alone
  <2> QED BY <2>1, <2>2
<1>5. \A c : KeptBy(c) => KeptBy(c)'
  BY <1>1 DEF KeptBy, Alone, Holds, History
<1>6. KeptBy(head)' /\ Parents'
  <2>1. \A t \in Saves : step'[t] = "commit" => step[t] = "commit"
    BY <1>1
  <2> QED BY <1>5, <2>1 DEF GitInv, Parents
<1>7. Linear'
  BY <1>1 DEF GitInv, Linear
<1> QED BY <1>2, <1>3, <1>4, <1>6, <1>7 DEF GitInv, Histories

LEMMA CommitStep == ASSUME GitInv, NEW s \in Saves, text' = text, Commit(s) PROVE GitInv'
<1> USE DEF Commit, Goto, Quiet
<1> DEFINE c == Len(commits) + 1
           r == [tree |-> tree[s], past |-> History(parent[s]) \union {c}]
<1>1. /\ s \in Active /\ Active' = Active /\ step[s] = "commit"
      /\ \A t \in Saves \ {s} : step'[t] = step[t]
      /\ step'[s] \in {"write", "push"}
      /\ step'[s] = "push" => name[s] # Readme
  BY DEF GitInv, GitTyped, Active, Ended
<1>2. /\ commits' = Append(commits, r) /\ head' = c /\ c \in Nat \ {0}
      /\ Len(commits') = c /\ c - 1 = Len(commits)
  BY DEF GitInv, GitTyped
<1>3. History(parent[s]) \subseteq 1 .. Len(commits)
  <2>1. parent[s] \in 0 .. Len(commits)
    BY DEF GitInv, GitTyped
  <2> QED BY <2>1 DEF GitInv, Histories, GitTyped, History
<1>4. r \in Commits
  BY <1>2, <1>3 DEF GitInv, GitTyped, Commits
<1>5. /\ commits'[c] = r /\ \A d \in 1 .. Len(commits) : commits'[d] = commits[d]
      /\ commits' \in Seq(Commits)
  BY <1>2, <1>4 DEF GitInv, GitTyped
<1>6. GitTyped'
  <2>1. tree' \in [Saves -> Trees] /\ parent' \in [Saves -> 0 .. c]
    BY <1>2, NoFilesTree DEF GitInv, GitTyped
  <2> QED BY <1>2, <1>5, <2>1, TreesKept DEF GitInv, GitTyped, Steps, Ended
<1>7. Histories'
  <2> SUFFICES ASSUME NEW d \in 1 .. c
               PROVE  d \in commits'[d].past /\ commits'[d].past \subseteq 1 .. d
    BY <1>2 DEF Histories
  <2>1. CASE d = c
    BY <1>2, <1>3, <1>5, <2>1
  <2>2. CASE d # c
    BY <1>2, <1>5, <2>2 DEF GitInv, Histories
  <2> QED BY <2>1, <2>2
<1>8. Apart'
  BY <1>1 DEF GitInv, Apart, Alone
<1>9. History(head)' = History(parent[s]) \union {c}
  BY <1>2, <1>5 DEF History
<1>10. ASSUME NEW t \in Saves PROVE NameFits(t)' /\ Carries(t)'
  <2>1. CASE t = s
    <3>1. NameFits(s)'
      BY <1>1 DEF GitInv, NameFits
    <3>2. ASSUME step'[s] = "push", Alone(s) PROVE Holds(head, s)'
      <4>1. name[s] = Device[s] /\ tree[s][Device[s]] = text[s]
        BY <1>1, <3>2 DEF GitInv, NameFits, Carries
      <4> QED BY <1>5, <1>9, <4>1 DEF Holds
    <3>3. Carries(s)'
      BY <1>1, <3>2 DEF Carries, Alone
    <3> QED BY <2>1, <3>1, <3>3
  <2>2. CASE t # s
    <3>1. t \in Active => ~Alone(t)
      BY <1>1, <2>2, OthersNotAlone
    <3> QED BY <1>1, <2>2, <3>1 DEF GitInv, NameFits, Carries, Alone
  <2> QED BY <2>1, <2>2
<1>11. ASSUME NEW d \in 0 .. Len(commits), KeptBy(d),
              NEW t \in Saves, step'[t] = "saved", Alone(t)'
       PROVE  Holds(d, t)'
  <2>1. t # s /\ Holds(d, t)
    BY <1>1, <1>11 DEF KeptBy, Alone
  <2> QED BY <1>2, <2>1, HoldsStays DEF GitInv
<1>12. KeptBy(head)'
  <2> SUFFICES ASSUME NEW t \in Saves, step'[t] = "saved", Alone(t)' PROVE Holds(head, t)'
    BY DEF KeptBy
  <2>2. parent[s] \in 0 .. Len(commits) /\ Holds(parent[s], t)
    BY <1>1 DEF GitInv, GitTyped, Parents, KeptBy, Alone
  <2>3. PICK d \in History(parent[s]) : commits[d].tree[Device[t]] = text[t]
    BY <2>2 DEF Holds
  <2>4. commits'[d].tree[Device[t]] = text'[t]
    BY <1>3, <1>5, <2>3
  <2> QED BY <1>9, <2>3, <2>4 DEF Holds
<1>13. Parents'
  <2> SUFFICES ASSUME NEW t \in Saves, step'[t] = "commit" PROVE KeptBy(parent[t])'
    BY DEF Parents
  <2>1. t # s /\ step[t] = "commit" /\ parent'[t] = parent[t]
    BY <1>1 DEF GitInv, GitTyped
  <2> QED BY <1>11, <2>1 DEF GitInv, GitTyped, Parents, KeptBy
<1>14. Linear'
  <2> SUFFICES ASSUME overlapped = {} PROVE Linear'
    BY DEF Linear
  <2>1. parent[s] = head /\ head = Len(commits) /\ \A d \in 1 .. Len(commits) : commits[d].past = 1 .. d
    BY <1>1 DEF GitInv, Linear
  <2>2. History(parent[s]) = 1 .. Len(commits)
    BY <2>1 DEF GitInv, GitTyped, History
  <2>3. commits'[c].past = 1 .. c
    <3>1. (1 .. Len(commits)) \union {c} = 1 .. c
      BY <1>2
    <3>2. r.past = 1 .. c
      BY <2>2, <3>1
    <3> QED BY <1>5, <3>2
  <2>4. \A d \in 1 .. c : commits'[d].past = 1 .. d
    BY <1>2, <1>5, <2>1, <2>3
  <2>5. \A t \in Saves : step'[t] # "commit"
    <3> SUFFICES ASSUME NEW t \in Saves, step'[t] = "commit" PROVE FALSE
      OBVIOUS
    <3>1. t # s /\ t \in Active
      BY <1>1 DEF Active, Ended
    <3> QED BY <1>1, <3>1, OthersNotAlone DEF Alone
  <2> QED BY <1>1, <1>2, <2>4, <2>5 DEF Linear
<1> QED BY <1>6, <1>7, <1>8, <1>10, <1>12, <1>13, <1>14 DEF GitInv

LEMMA PushStep == ASSUME GitInv, NEW s \in Saves, text' = text, Push(s) PROVE GitInv'
<1> USE DEF Push, Goto, Ends, locals
<1>1. /\ s \in Active /\ Active' = Active \ {s}
      /\ \A t \in Saves \ {s} : step'[t] = step[t]
      /\ step[s] = "push" /\ step'[s] = "saved" /\ last' = s
  BY DEF GitInv, GitTyped, Active, Ended
<1>2. GitTyped'
  BY TreesKept DEF GitInv, GitTyped, Steps, Ended
<1>3. Apart'
  BY <1>1 DEF GitInv, Apart, Alone
<1>4. ASSUME NEW t \in Saves PROVE NameFits(t)' /\ Carries(t)'
  <2>1. CASE t = s
    BY <1>1, <2>1 DEF GitInv, NameFits, Carries
  <2>2. CASE t # s
    <3>1. t \in Active => ~Alone(t)
      BY <1>1, <2>2, OthersNotAlone
    <3> QED BY <1>1, <2>2, <3>1 DEF GitInv, NameFits, Carries, Alone
  <2> QED BY <2>1, <2>2
<1>5. Alone(s) => Holds(head, s)
  BY <1>1 DEF GitInv, NameFits, Carries
<1>6. KeptBy(head)'
  BY <1>1, <1>5 DEF GitInv, KeptBy, Alone, Holds, History
<1>7. Parents'
  <2> SUFFICES ASSUME NEW t \in Saves, step'[t] = "commit" PROVE KeptBy(parent[t])'
    BY DEF Parents
  <2>1. t # s /\ step[t] = "commit" /\ t \in Active /\ parent' = parent
    BY <1>1 DEF Active, Ended
  \* Another save is about to commit: this one was not alone.
  <2>2. ~Alone(s)
    BY <1>1, <2>1, OthersNotAlone
  <2>3. KeptBy(parent[t])
    BY <2>1 DEF GitInv, Parents
  <2> QED BY <1>1, <2>1, <2>2, <2>3 DEF KeptBy, Alone, Holds, History
<1>8. Linear'
  <2> SUFFICES ASSUME overlapped = {} PROVE Linear'
    BY DEF Linear
  <2>1. head = Len(commits) /\ \A c \in 1 .. Len(commits) : commits[c].past = 1 .. c
    BY DEF GitInv, Linear
  <2>2. \A t \in Saves : step'[t] = "commit" => parent'[t] = head
    BY <1>1 DEF GitInv, Linear
  <2>3. remote = 0 \/ remote \in History(head)
    BY <2>1 DEF GitInv, GitTyped, History
  <2>4. s \notin unpushed' => remote' = head
    BY <2>3
  <2> QED BY <1>1, <2>1, <2>2, <2>4 DEF Linear
<1> QED BY <1>2, <1>3, <1>4, <1>6, <1>7, <1>8 DEF GitInv, Histories

LEMMA DieStep == ASSUME GitInv, text' = text, ProcessDies PROVE GitInv'
<1> USE DEF ProcessDies, shared
<1>1. \A t \in Saves : /\ step'[t] \notin {"commit", "dirty", "push"}
                       /\ step'[t] \in {"saved", "idle"} => step[t] = step'[t]
  BY DEF Active, Ended
<1>2. Active' = {}
  BY DEF Active, Ended, GitInv, GitTyped
<1>3. GitTyped'
  BY NoFilesTree, TreesKept DEF GitInv, GitTyped, Steps, Ended
<1>4. Apart' /\ Parents' /\ Histories'
  BY <1>1, <1>2 DEF GitInv, Apart, Parents, Histories
<1>5. \A t \in Saves : NameFits(t)' /\ Carries(t)'
  BY <1>1, <1>2 DEF GitInv, NameFits, Carries
<1>6. KeptBy(head)'
  BY <1>1 DEF GitInv, KeptBy, Alone, Holds, History
<1>7. Linear'
  BY <1>1 DEF GitInv, Linear
<1> QED BY <1>3, <1>4, <1>5, <1>6, <1>7 DEF GitInv

LEMMA GitStep == GitInv /\ [GNext]_gVars => GitInv'
<1> SUFFICES ASSUME GitInv, [GNext]_gVars PROVE GitInv'
  OBVIOUS
<1>1. CASE UNCHANGED gVars
  BY <1>1 DEF gVars, shared, locals, GitInv, GitTyped, Trees, Contents, Commits, Histories, Apart, Active,
       Alone, NameFits, Carries, KeptBy, Parents, Linear, Holds, History
<1>2. CASE GNext
  <2>1. text' = text
    BY <1>2 DEF GNext
  <2>2. ASSUME NEW s \in Saves, Open(s) PROVE GitInv'
    BY <2>1, <2>2, OpenStep
  <2>3. ASSUME NEW s \in Saves,
               \/ InitRepo(s) \/ WriteReadme(s) \/ Write(s) \/ Stage(s) \/ Lock(s)
               \/ WriteIndex(s) \/ Look(s) \/ WriteTree(s) \/ ReadHead(s)
        PROVE  GitInv'
    BY <2>1, <2>3, LocalSteps, LockedOut
  <2>4. ASSUME NEW s \in Saves, Commit(s) PROVE GitInv'
    BY <2>1, <2>4, CommitStep
  <2>5. ASSUME NEW s \in Saves, Push(s) PROVE GitInv'
    BY <2>1, <2>5, PushStep
  <2>6. CASE ProcessDies
    BY <2>1, <2>6, DieStep
  <2> QED BY <1>2, <2>2, <2>3, <2>4, <2>5, <2>6 DEF GNext
<1> QED BY <1>1, <1>2

\* What a save that ran alone reported as stored stays in the history of HEAD.
THEOREM SavesCommitted == GSpec => []SavedIsCommitted
<1>1. GitInv => SavedIsCommitted
  BY DEF GitInv, KeptBy, SavedIsCommitted
<1> QED BY <1>1, GitStart, GitStep, PTL DEF GSpec

\* While saves come one at a time, each push that gets through makes up for those that did not.
THEOREM PushesCatchUp == GSpec => []PushCatchesUp
<1>1. GitInv => PushCatchesUp
  BY DEF GitInv, KeptBy, Linear, PushCatchesUp, Alone
<1> QED BY <1>1, GitStart, GitStep, PTL DEF GSpec

-----------------------------------------------------------------------------
(***************************************************************************)
(* Retention: rows and files agree about what is gone, and nothing leaves  *)
(* that nobody decided to remove, for any number of sweeps, requests,      *)
(* destinations and backups.                                               *)
(*                                                                         *)
(* A sweep and a request hold objects of rows that others may delete: the  *)
(* backup of an object has no other row (Known), the row of a sweep's      *)
(* object is as it was loaded unless it is gone or another backup has got  *)
(* its id meanwhile (SweepsAs, Astray), and a sweep about to write a row   *)
(* holds the file it has deleted (DeletesFile).  What a step leaves to     *)
(* those who do not take it is Keeps.                                      *)
(***************************************************************************)

\* Backup b has, or had, the row i, and has no other.
Known(i, b) ==
  b \in 1 .. births /\ \A j \in Ids : There(j) /\ rows[j].born = b => j = i

BirthsKnown == \A i \in Ids : There(i) => Known(i, rows[i].born)
OpenRows ==
  \A i \in Ids :
    rows[i].st = "open" => rows[i].at = Fallback /\ (rows[i].pruned => rows[i].born \in reused)

\* Whoever holds the id i holds a row that is gone, or has found another backup there.
Astray(i) == There(i) => rows[i].born \in reused

\* The row that a sweep of destination d loaded as r is still of that backup, or astray.
SweepsAs(i, r, d) ==
  \/ Astray(i)
  \/ /\ rows[i].st = "success" /\ rows[i].label = {TypeOf[d]}
     /\ FileOf(rows[i]) = FileOf(r)

\* A candidate that the policy selected, or whose path will be read from another row.
Selected(p, o) ==
  o[2].born \in decided \/ ("rows" \in mem[p].expired /\ Astray(o[1]))

\* The objects that a sweep has loaded, and the file it is deleting or has deleted.
Candidates(p) ==
  /\ \A o \in mem[p].seen \union mem[p].chosen :
       Known(o[1], o[2].born) /\ SweepsAs(o[1], o[2], mem[p].dest)
  /\ \A o \in mem[p].chosen : Selected(p, o)
DeletesFile(p) ==
  /\ mem[p].cur \in Ids /\ Known(mem[p].cur, mem[p].file[1])
  /\ mem[p].file[1] \in decided \union reused
  /\ \/ Astray(mem[p].cur)
     \/ /\ rows[mem[p].cur].st = "success" /\ rows[mem[p].cur].label = {TypeOf[mem[p].dest]}
        /\ FileOf(rows[mem[p].cur]) = mem[p].file
SweepInv(p) ==
  /\ pc[p] \in {"idle", "dests", "devices", "prune", "pruning", "mark", "missed"}
  /\ pc[p] \in {"idle", "dests", "devices"} => mem[p].chosen = {}
  /\ Candidates(p)
  /\ pc[p] \in {"pruning", "mark"} => DeletesFile(p)
  /\ pc[p] = "mark" /\ TypeOf[mem[p].dest] = Local =>
       mem[p].file \notin files \/ mem[p].file[1] \in reused

\* The backups that an operator asked to delete.
EraseInv(p) ==
  /\ pc[p] \in {"idle", "erase", "erasing"}
  /\ pc[p] = "idle" => mem[p].seen = {}
  /\ mem[p].chosen \subseteq mem[p].seen
  /\ \A o \in mem[p].seen : Known(o[1], o[2].born) /\ o[2].born \in decided
  /\ pc[p] = "erasing" => \E o \in mem[p].seen : mem[p].file = FileOf(o[2])

FilesInv ==
  /\ RTypeOK /\ BirthsKnown /\ OpenRows
  /\ \A p \in Sweepers : SweepInv(p)
  /\ \A p \in Deleters : EraseInv(p)
  /\ PrunedMeansGone /\ RowReflectsFile

-----------------------------------------------------------------------------
(* Types *)

Places == Dests \union {Fallback}
Files == (Births \union {0}) \X Places
Where == {"idle"} \union Running \union Waiting

LEMMA RowTypes ==
  /\ AbsentRow \in Row
  /\ \A r \in Row : FileOf(r) \in Files /\ [r EXCEPT !.pruned = TRUE] \in Row
BY DestAssumption DEF AbsentRow, Row, FileOf, Files, Places

LEMMA NoMemoryTyped == NoMemory \in Memory
BY DEF NoMemory, Memory, Fallback

LEMMA LoadTyped == ASSUME RTypeOK, NEW I \in SUBSET Ids PROVE Load(I) \in SUBSET Object
BY DEF Load, Object, RTypeOK

LEMMA ReadsTyped ==
  ASSUME RTypeOK, NEW p \in Procs, NEW o \in Object
  PROVE  Reads(p, o) \in Row /\ o[1] \in Ids /\ o[2] \in Row
BY DEF Reads, Object, RTypeOK

\* A step of one coroutine.
Moves(p, l, m) == pc' = [pc EXCEPT ![p] = l] /\ mem' = [mem EXCEPT ![p] = m]

LEMMA Moved ==
  ASSUME RTypeOK, NEW p \in Procs, NEW l, NEW m, Moves(p, l, m)
  PROVE  /\ pc'[p] = l /\ mem'[p] = m
         /\ \A q \in Procs \ {p} : pc'[q] = pc[q] /\ mem'[q] = mem[q]
BY DEF RTypeOK, Moves

\* Where the coroutine that moves has the event loop, and where it gives it up.
Goes(p, l, m) ==
  /\ l \in Where /\ m \in Memory /\ Moves(p, l, m)
  /\ loop' = Nobody \/ (loop' = p /\ l \in Running)

LEMMA GoesTyped ==
  ASSUME RTypeOK, NEW p \in Procs, NEW l, NEW m, Goes(p, l, m)
  PROVE  /\ pc' \in [Procs -> Where] /\ mem' \in [Procs -> Memory]
         /\ loop' # Nobody => loop' \in Procs /\ pc'[loop'] \in Running
BY DEF RTypeOK, Goes, Moves, Where

LEMMA ContinueGoes == ASSUME NEW p, NEW l \in Running, NEW m \in Memory, Continue(p, l, m) PROVE Goes(p, l, m)
BY DEF Continue, Goes, Moves, Where
LEMMA AwaitGoes == ASSUME NEW p, NEW l \in Waiting, NEW m \in Memory, Await(p, l, m) PROVE Goes(p, l, m)
BY DEF Await, Goes, Moves, Where
LEMMA FinishGoes == ASSUME NEW p, Finish(p) PROVE Goes(p, "idle", NoMemory)
BY NoMemoryTyped DEF Finish, Goes, Moves, Where

\* The memory of a coroutine after a step of its sweep or of its request.
LEMMA SweepGoes ==
  ASSUME RTypeOK, NEW p \in Sweepers,
         StartSweep(p) \/ NextDest(p) \/ EndSweep(p) \/ NextDevice(p) \/ LastDevice(p)
           \/ GroupDone(p) \/ Candidate(p) \/ Mark(p) \/ Missed(p)
  PROVE  \E l, m : Goes(p, l, m)
<1> USE ContinueGoes, AwaitGoes, FinishGoes
<1>1. p \in Procs /\ mem[p] \in Memory
  BY DEF RTypeOK, Procs
<1>2. /\ mem[p].todo \in SUBSET Dests /\ mem[p].seen \in SUBSET Object
      /\ mem[p].chosen \in SUBSET Object
  BY <1>1 DEF Memory
<1>3. CASE StartSweep(p)
  <2>1. [NoMemory EXCEPT !.todo = dests] \in Memory /\ "dests" \in Running
    BY NoMemoryTyped DEF RTypeOK, Memory, Running
  <2> QED BY <1>3, <2>1 DEF StartSweep
<1>4. CASE NextDest(p)
  <2>1. PICK d \in mem[p].todo :
          \/ Finish(p)
          \/ Continue(p, "devices",
               [mem[p] EXCEPT !.todo = @ \ {d}, !.dest = d,
                  !.seen = Load({i \in Ids : Matches(i, d)}), !.expired = @ \ {"rows"}])
    BY <1>4 DEF NextDest
  <2>2. Load({i \in Ids : Matches(i, d)}) \in SUBSET Object
    BY LoadTyped
  <2>3. mem[p].todo \ {d} \in SUBSET Dests /\ d \in Dests
    BY <1>2
  <2>4. [mem[p] EXCEPT !.todo = mem[p].todo \ {d}, !.dest = d,
           !.seen = Load({i \in Ids : Matches(i, d)}), !.expired = @ \ {"rows"}] \in Memory
    BY <1>1, <2>2, <2>3 DEF Memory
  <2>5. "devices" \in Running
    BY DEF Running
  <2> QED BY <2>1, <2>4, <2>5
<1>5. CASE EndSweep(p)
  BY <1>5 DEF EndSweep
<1>6. CASE NextDevice(p)
  <2>1. PICK o \in mem[p].seen :
          LET group == {x \in mem[p].seen : x[2].dev = o[2].dev} IN
          \/ Finish(p)
          \/ \E selected \in SUBSET group :
               Continue(p, "prune", [mem[p] EXCEPT !.seen = @ \ group,
                                       !.chosen = ToPrune(group, selected)])
    BY <1>6 DEF NextDevice
  <2> DEFINE group == {x \in mem[p].seen : x[2].dev = o[2].dev}
  <2>2. CASE Finish(p)
    BY <2>2
  <2>3. ASSUME NEW selected \in SUBSET group,
               Continue(p, "prune", [mem[p] EXCEPT !.seen = mem[p].seen \ group, !.chosen = selected])
        PROVE  \E l, m : Goes(p, l, m)
    <3>1. mem[p].seen \ group \in SUBSET Object /\ selected \in SUBSET Object
      BY <1>2
    <3>2. [mem[p] EXCEPT !.seen = mem[p].seen \ group, !.chosen = selected] \in Memory
      BY <1>1, <3>1 DEF Memory
    <3>3. "prune" \in Running
      BY DEF Running
    <3> QED BY <2>3, <3>2, <3>3
  <2> QED BY <2>1, <2>2, <2>3 DEF ToPrune
<1>7. CASE LastDevice(p)
  BY <1>1, <1>7 DEF LastDevice, Running
<1>8. CASE GroupDone(p)
  BY <1>1, <1>8 DEF GroupDone, Running
<1>9. CASE Candidate(p)
  <2>1. PICK o \in mem[p].chosen :
          LET m == [mem[p] EXCEPT !.chosen = @ \ {o}, !.cur = o[1], !.file = FileOf(Reads(p, o))]
          IN \/ Finish(p) \/ Continue(p, "prune", Expire(m)) \/ Continue(p, "mark", m)
             \/ Await(p, "pruning", m)
    BY <1>9 DEF Candidate
  <2> DEFINE m == [mem[p] EXCEPT !.chosen = mem[p].chosen \ {o}, !.cur = o[1], !.file = FileOf(Reads(p, o))]
  <2>2. o[1] \in Ids /\ FileOf(Reads(p, o)) \in Files /\ mem[p].chosen \ {o} \in SUBSET Object
    BY <1>1, <1>2, ReadsTyped, RowTypes
  <2>3. m \in Memory
    BY <1>1, <2>2 DEF Memory, Files, Places
  <2>4. Expire(m) \in Memory
    BY <2>3 DEF Memory, Expire, NoMemory, Fallback
  <2>5. "prune" \in Running /\ "mark" \in Running /\ "pruning" \in Waiting
    BY DEF Running, Waiting
  <2> HIDE DEF m
  <2>6. Finish(p) \/ Continue(p, "prune", Expire(m)) \/ Continue(p, "mark", m) \/ Await(p, "pruning", m)
    BY <2>1 DEF m
  <2> QED BY <2>3, <2>4, <2>5, <2>6
<1>10. CASE Mark(p) \/ Missed(p)
  <2>1. Finish(p) \/ Continue(p, "prune", Expire(mem[p]))
    BY <1>10 DEF Mark, Missed
  <2>2. Expire(mem[p]) \in Memory
    BY <1>1 DEF Memory, Expire, NoMemory, Fallback
  <2>3. "prune" \in Running
    BY DEF Running
  <2> QED BY <2>1, <2>2, <2>3
<1> QED BY <1>3, <1>4, <1>5, <1>6, <1>7, <1>8, <1>9, <1>10

LEMMA DeletionGoes ==
  ASSUME RTypeOK, NEW p \in Deleters,
         \/ EraseFile(p) \/ CommitDelete(p) \/ \E I \in SUBSET Ids : AskDelete(p, I)
  PROVE  \E l, m : Goes(p, l, m)
<1> USE ContinueGoes, AwaitGoes, FinishGoes
<1>1. p \in Procs /\ mem[p] \in Memory
  BY DEF RTypeOK, Procs
<1>2. mem[p].chosen \in SUBSET Object
  BY <1>1 DEF Memory
<1>3. "erase" \in Running /\ "erasing" \in Waiting
  BY DEF Running, Waiting
<1>4. ASSUME NEW I \in SUBSET Ids, AskDelete(p, I) PROVE \E l, m : Goes(p, l, m)
  <2>1. Load(I) \in SUBSET Object
    BY LoadTyped
  <2>2. [NoMemory EXCEPT !.seen = Load(I), !.chosen = Load(I)] \in Memory
    BY <2>1, NoMemoryTyped DEF Memory
  <2> QED BY <1>3, <1>4, <2>2 DEF AskDelete
<1>5. CASE EraseFile(p)
  <2>1. PICK o \in mem[p].chosen :
          LET m == [mem[p] EXCEPT !.chosen = @ \ {o}, !.file = FileOf(o[2])]
          IN Await(p, "erasing", m) \/ Continue(p, "erase", m)
    BY <1>5 DEF EraseFile
  <2> DEFINE m == [mem[p] EXCEPT !.chosen = mem[p].chosen \ {o}, !.file = FileOf(o[2])]
  <2>2. FileOf(o[2]) \in Files /\ mem[p].chosen \ {o} \in SUBSET Object
    BY <1>2, RowTypes DEF Object
  <2>3. m \in Memory
    BY <1>1, <2>2 DEF Memory, Files, Places
  <2> HIDE DEF m
  <2>4. Await(p, "erasing", m) \/ Continue(p, "erase", m)
    BY <2>1 DEF m
  <2> QED BY <1>3, <2>3, <2>4
<1>6. CASE CommitDelete(p)
  BY <1>6 DEF CommitDelete
<1> QED BY <1>4, <1>5, <1>6

-----------------------------------------------------------------------------
(* What a step leaves to the coroutines that do not take it *)

KeepsRow(i) ==
  There(i)' =>
    \/ /\ There(i) /\ rows'[i].born = rows[i].born
       /\ rows[i].st = "success" =>
            rows'[i].st = "success" /\ rows'[i].label = rows[i].label /\ FileOf(rows'[i]) = FileOf(rows[i])
    \/ /\ ~There(i) /\ births' = births + 1 /\ rows'[i].born = births'
       /\ Held(i) => births' \in reused'
Keeps ==
  /\ births' \in {births, births + 1} /\ decided \subseteq decided' /\ reused \subseteq reused'
  /\ \A i \in Ids : KeepsRow(i)
  /\ \A f \in files' \ files : \E i \in Ids : rows[i].st = "open" /\ f[1] = rows[i].born

LEMMA KnownKept ==
  ASSUME RTypeOK, Keeps, NEW i, NEW b, Known(i, b)
  PROVE  Known(i, b)'
<1>1. births \in Nat /\ b \in 1 .. births
  BY BoundAssumption DEF RTypeOK, Known
<1>2. b \in 1 .. births' /\ b # births + 1
  BY <1>1 DEF Keeps
<1>3. ASSUME NEW j \in Ids, There(j)', rows'[j].born = b PROVE j = i
  BY <1>1, <1>2, <1>3 DEF Keeps, KeepsRow, Known
<1> QED BY <1>2, <1>3 DEF Known

LEMMA HeldObjects ==
  ASSUME NEW p \in Procs, NEW o, o \in mem[p].seen \union mem[p].chosen
  PROVE  Held(o[1])
BY DEF Held, IdsOf

LEMMA AstrayKept ==
  ASSUME Keeps, NEW i \in Ids, Held(i), Astray(i)
  PROVE  Astray(i)'
BY DEF Keeps, KeepsRow, Astray

LEMMA SweepKept ==
  ASSUME FilesInv, Keeps, NEW p \in Sweepers, pc'[p] = pc[p], mem'[p] = mem[p]
  PROVE  SweepInv(p)'
<1>1. SweepInv(p) /\ RTypeOK /\ p \in Procs
  BY DEF FilesInv, Procs
<1>2. Candidates(p)'
  <2>1. ASSUME NEW o \in mem[p].seen \union mem[p].chosen
        PROVE  Known(o[1], o[2].born)'
    BY <1>1, <2>1, KnownKept DEF SweepInv, Candidates
  <2>2. ASSUME NEW o \in mem[p].seen \union mem[p].chosen
        PROVE  SweepsAs(o[1], o[2], mem[p].dest)'
    <3>1. Held(o[1]) /\ SweepsAs(o[1], o[2], mem[p].dest) /\ o[1] \in Ids
      BY <1>1, HeldObjects DEF SweepInv, Candidates, RTypeOK, Memory, Object
    <3>2. CASE Astray(o[1])
      BY <3>1, <3>2, AstrayKept DEF SweepsAs
    <3>3. CASE ~Astray(o[1])
      BY <3>1, <3>3 DEF Keeps, KeepsRow, SweepsAs, Astray
    <3> QED BY <3>2, <3>3
  <2>3. ASSUME NEW o \in mem[p].chosen PROVE Selected(p, o)'
    <3>1. Held(o[1]) /\ Selected(p, o) /\ o[1] \in Ids
      BY <1>1, HeldObjects DEF SweepInv, Candidates, RTypeOK, Memory, Object
    <3> QED BY <3>1, AstrayKept DEF Selected, Keeps
  <2> QED BY <2>1, <2>2, <2>3 DEF Candidates
<1>3. ASSUME pc[p] \in {"pruning", "mark"} PROVE DeletesFile(p)'
  <2>1. DeletesFile(p)
    BY <1>1, <1>3 DEF SweepInv
  <2>2. mem[p].cur \in Ids /\ Held(mem[p].cur)
    BY <1>1, <2>1 DEF DeletesFile, Held
  <2>3. Known(mem[p].cur, mem[p].file[1])'
    BY <1>1, <2>1, KnownKept DEF DeletesFile
  <2>4. CASE Astray(mem[p].cur)
    BY <2>1, <2>2, <2>3, <2>4, AstrayKept DEF DeletesFile, Keeps
  <2>5. CASE ~Astray(mem[p].cur)
    BY <2>1, <2>2, <2>3, <2>5 DEF DeletesFile, Keeps, KeepsRow, Astray
  <2> QED BY <2>4, <2>5
<1>4. ASSUME pc[p] = "mark", TypeOf[mem[p].dest] = Local
      PROVE  mem[p].file \notin files' \/ mem[p].file[1] \in reused'
  <2>1. (mem[p].file \notin files \/ mem[p].file[1] \in reused) /\ DeletesFile(p)
    BY <1>1, <1>4 DEF SweepInv
  <2>2. CASE mem[p].file[1] \in reused
    BY <2>2 DEF Keeps
  <2>3. CASE mem[p].file[1] \notin reused
    <3>1. \A i \in Ids : rows[i].st = "open" => rows[i].born # mem[p].file[1]
      BY <2>1, <2>3 DEF DeletesFile, Known, There, Astray
    <3> QED BY <2>1, <2>3, <3>1 DEF Keeps
  <2> QED BY <2>2, <2>3
<1> QED BY <1>1, <1>2, <1>3, <1>4 DEF SweepInv

LEMMA EraseKept ==
  ASSUME FilesInv, Keeps, NEW p \in Deleters, pc'[p] = pc[p], mem'[p] = mem[p]
  PROVE  EraseInv(p)'
<1>1. EraseInv(p) /\ RTypeOK
  BY DEF FilesInv
<1>2. \A o \in mem[p].seen : Known(o[1], o[2].born)' /\ o[2].born \in decided'
  BY <1>1, KnownKept DEF EraseInv, Keeps
<1> QED BY <1>1, <1>2 DEF EraseInv

\* A step that touches neither rows nor files.
NoEffect ==
  UNCHANGED <<rows, files, births, torn, reused>> /\ decided \subseteq decided'

LEMMA NoEffectKeeps == ASSUME NoEffect PROVE Keeps
BY DEF NoEffect, Keeps, KeepsRow, There, FileOf

LEMMA NoEffectStep ==
  ASSUME FilesInv, RTypeOK', NoEffect, NEW p \in Procs, NEW l, NEW m, Moves(p, l, m),
         pc[p] # "mark", p \in Deleters => mem[p].seen \subseteq m.seen,
         p \in Sweepers => SweepInv(p)', p \in Deleters => EraseInv(p)'
  PROVE  FilesInv'
<1>1. /\ pc'[p] = l /\ mem'[p] = m
      /\ \A q \in Procs \ {p} : pc'[q] = pc[q] /\ mem'[q] = mem[q]
  BY Moved DEF FilesInv
<1>2. \A q \in Sweepers : SweepInv(q)'
  BY <1>1, NoEffectKeeps, SweepKept DEF Procs
<1>3. \A q \in Deleters : EraseInv(q)'
  BY <1>1, NoEffectKeeps, EraseKept DEF Procs
<1>4. BirthsKnown' /\ OpenRows' /\ PrunedMeansGone'
  BY DEF NoEffect, FilesInv, BirthsKnown, OpenRows, PrunedMeansGone, Known, There, FileOf
<1>5. RowReflectsFile'
  <2> SUFFICES ASSUME NEW i \in Ids, Lost(i)'
               PROVE  \/ rows'[i].born \in torn'
                      \/ \E q \in Sweepers : pc'[q] = "mark" /\ mem'[q].cur = i
                      \/ \E q \in Deleters : i \in IdsOf(mem'[q].seen)
    BY DEF RowReflectsFile, IdsOf
  <2>1. Lost(i) /\ rows' = rows /\ torn' = torn
    BY DEF NoEffect, Lost, FileOf
  <2>2. CASE rows[i].born \in torn
    BY <2>1, <2>2
  <2>3. ASSUME NEW q \in Sweepers, pc[q] = "mark", mem[q].cur = i
        PROVE  pc'[q] = "mark" /\ mem'[q].cur = i
    BY <1>1, <2>3 DEF Procs
  <2>4. ASSUME NEW q \in Deleters, i \in IdsOf(mem[q].seen)
        PROVE  i \in IdsOf(mem'[q].seen)
    BY <1>1, <2>4 DEF Procs, IdsOf
  <2> QED BY <2>1, <2>2, <2>3, <2>4 DEF FilesInv, RowReflectsFile
<1> QED BY <1>2, <1>3, <1>4, <1>5 DEF FilesInv

-----------------------------------------------------------------------------
(* Steps of a sweep *)

\* An object that reads without an exception is of the backup that was loaded, or
\* it is read again from the row of another backup.
LEMMA ReadsSame ==
  ASSUME FilesInv, NEW p \in Sweepers, NEW o \in mem[p].seen \union mem[p].chosen, ~Vanished(p, {o})
  PROVE  /\ Known(o[1], Reads(p, o).born)
         /\ "rows" \in mem[p].expired => There(o[1]) /\ Reads(p, o) = rows[o[1]]
         /\ \/ FileOf(Reads(p, o)) = FileOf(o[2]) /\ Reads(p, o).born = o[2].born
            \/ "rows" \in mem[p].expired /\ Astray(o[1])
<1>1. SweepsAs(o[1], o[2], mem[p].dest) /\ Known(o[1], o[2].born) /\ o[1] \in Ids
  BY DEF FilesInv, SweepInv, Candidates, RTypeOK, Memory, Object, Procs
<1>2. CASE "rows" \in mem[p].expired
  <2>1. There(o[1]) /\ Reads(p, o) = rows[o[1]]
    BY <1>2 DEF Vanished, Reads
  <2> QED BY <1>1, <1>2, <2>1 DEF SweepsAs, FileOf, FilesInv, BirthsKnown
<1>3. CASE "rows" \notin mem[p].expired
  BY <1>1, <1>3 DEF Reads
<1> QED BY <1>2, <1>3

LEMMA IdleSweep ==
  ASSUME NEW p \in Sweepers, pc'[p] = "idle", mem'[p] = NoMemory
  PROVE  SweepInv(p)'
BY DEF SweepInv, Candidates, NoMemory

\* The objects stay or become fewer, and no file is next.
LEMMA SameObjects ==
  ASSUME FilesInv, NoEffect, NEW p \in Sweepers,
         mem'[p].dest = mem[p].dest, mem'[p].seen \subseteq mem[p].seen,
         \A o \in mem'[p].chosen : o \in mem[p].seen \union mem[p].chosen /\ Selected(p, o)'
  PROVE  Candidates(p)'
<1>1. Candidates(p) /\ RTypeOK
  BY DEF FilesInv, SweepInv
<1>2. ASSUME NEW o \in mem'[p].seen \union mem'[p].chosen
      PROVE  Known(o[1], o[2].born)' /\ SweepsAs(o[1], o[2], mem[p].dest)'
  <2>1. Known(o[1], o[2].born) /\ SweepsAs(o[1], o[2], mem[p].dest)
    BY <1>1, <1>2 DEF Candidates
  <2>2. Known(o[1], o[2].born)'
    BY <1>1, <2>1, NoEffectKeeps, KnownKept
  <2> QED BY <2>1, <2>2 DEF SweepsAs, NoEffect, There, FileOf, Astray
<1> QED BY <1>2 DEF Candidates

LEMMA BirthsBounded == ASSUME RTypeOK PROVE births \in Nat /\ 1 .. births \subseteq Births
BY BoundAssumption DEF RTypeOK, Births

LEMMA NoEffectTyped ==
  ASSUME FilesInv, NEW p \in Procs, NEW l, NEW m, Goes(p, l, m), NoEffect, dests' = dests,
         incidents' = incidents, decided' \subseteq Births
  PROVE  RTypeOK'
BY GoesTyped DEF FilesInv, RTypeOK, NoEffect, Where

\* What is still to be deleted stays selected.
LEMMA StaysSelected ==
  ASSUME FilesInv, NoEffect, NEW p \in Sweepers, mem[p].expired \subseteq mem'[p].expired,
         NEW o \in mem[p].chosen
  PROVE  Selected(p, o)'
BY DEF FilesInv, SweepInv, Candidates, Selected, NoEffect, Astray, There

LEMMA StartSweepStep == ASSUME FilesInv, NEW p \in Sweepers, StartSweep(p) PROVE FilesInv'
<1> DEFINE m == [NoMemory EXCEPT !.todo = dests]
<1>1. p \in Procs /\ p \notin Deleters /\ RTypeOK
  BY ProcAssumption DEF FilesInv, Procs
<1>2. Moves(p, "dests", m) /\ NoEffect /\ pc[p] = "idle"
  BY DEF StartSweep, Continue, Moves, NoEffect
<1>3. RTypeOK'
  BY <1>1, <1>2, SweepGoes, NoEffectTyped DEF StartSweep, RTypeOK
<1>4. pc'[p] = "dests" /\ mem'[p].seen = {} /\ mem'[p].chosen = {}
  BY <1>1, <1>2, Moved DEF NoMemory
<1>5. SweepInv(p)'
  BY <1>4 DEF SweepInv, Candidates
<1> QED BY <1>1, <1>2, <1>3, <1>5, NoEffectStep

LEMMA NextDestStep == ASSUME FilesInv, NEW p \in Sweepers, NextDest(p) PROVE FilesInv'
<1>1. p \in Procs /\ p \notin Deleters /\ RTypeOK /\ mem[p] \in Memory
  BY ProcAssumption DEF FilesInv, Procs, RTypeOK
<1>2. NoEffect /\ pc[p] = "dests" /\ dests' = dests /\ incidents' = incidents /\ decided' = decided
  BY DEF NextDest, NoEffect
<1>3. RTypeOK'
  BY <1>1, <1>2, SweepGoes, NoEffectTyped DEF RTypeOK
<1>4. CASE Finish(p)
  <2>1. Moves(p, "idle", NoMemory)
    BY <1>4 DEF Finish, Moves
  <2>2. SweepInv(p)'
    BY <1>1, <2>1, Moved, IdleSweep
  <2> QED BY <1>1, <1>2, <1>3, <2>1, <2>2, NoEffectStep
<1>5. ASSUME NEW d \in mem[p].todo,
             Continue(p, "devices",
               [mem[p] EXCEPT !.todo = @ \ {d}, !.dest = d,
                  !.seen = Load({i \in Ids : Matches(i, d)}), !.expired = @ \ {"rows"}])
      PROVE  FilesInv'
  <2> DEFINE m == [mem[p] EXCEPT !.todo = @ \ {d}, !.dest = d,
                     !.seen = Load({i \in Ids : Matches(i, d)}), !.expired = @ \ {"rows"}]
  <2>1. Moves(p, "devices", m)
    BY <1>5 DEF Continue, Moves
  <2>2. m.chosen = mem[p].chosen /\ m.dest = d /\ m.seen = Load({i \in Ids : Matches(i, d)})
    BY <1>1 DEF Memory
  <2>3. pc'[p] = "devices" /\ mem'[p] = m
    BY <1>1, <2>1, Moved
  <2>4. mem[p].chosen = {}
    BY <1>2 DEF FilesInv, SweepInv
  <2>5. ASSUME NEW o \in mem'[p].seen
        PROVE  Known(o[1], o[2].born)' /\ SweepsAs(o[1], o[2], mem[p].dest)'
    <3>1. PICK i \in Ids : o = <<i, rows[i]>> /\ Matches(i, d)
      BY <2>2, <2>3, <2>5 DEF Load
    <3>2. There(i) /\ rows[i].st = "success" /\ rows[i].label = {TypeOf[d]} /\ o[1] = i /\ o[2] = rows[i]
      BY <3>1 DEF Matches, There
    <3>3. Known(i, rows[i].born)
      BY <3>2 DEF FilesInv, BirthsKnown
    <3>4. Known(o[1], o[2].born)'
      BY <1>1, <1>2, <3>2, <3>3, NoEffectKeeps, KnownKept
    <3>5. mem'[p].dest = d /\ rows' = rows
      BY <1>2, <2>2, <2>3 DEF NoEffect
    <3> QED BY <3>2, <3>4, <3>5 DEF SweepsAs, There, FileOf
  <2>6. SweepInv(p)'
    BY <2>2, <2>3, <2>4, <2>5 DEF SweepInv, Candidates
  <2> QED BY <1>1, <1>2, <1>3, <2>1, <2>6, NoEffectStep
<1> QED BY <1>4, <1>5 DEF NextDest

LEMMA NextDeviceStep == ASSUME FilesInv, NEW p \in Sweepers, NextDevice(p) PROVE FilesInv'
<1>1. p \in Procs /\ p \notin Deleters /\ RTypeOK /\ mem[p] \in Memory
  BY ProcAssumption DEF FilesInv, Procs, RTypeOK
<1>2. pc[p] = "devices" /\ mem[p].chosen = {}
  BY DEF NextDevice, FilesInv, SweepInv
<1>3. PICK o \in mem[p].seen :
        LET group == {x \in mem[p].seen : x[2].dev = o[2].dev} IN
        IF Vanished(p, group)
          THEN Finish(p) /\ UNCHANGED decided
          ELSE \E selected \in SUBSET group :
                 /\ Continue(p, "prune", [mem[p] EXCEPT !.seen = @ \ group,
                                            !.chosen = ToPrune(group, selected)])
                 /\ decided' = decided \union {Reads(p, x).born : x \in selected}
  BY DEF NextDevice
<1> DEFINE group == {x \in mem[p].seen : x[2].dev = o[2].dev}
<1>4. CASE Finish(p) /\ UNCHANGED decided
  <2>1. Moves(p, "idle", NoMemory) /\ NoEffect
    BY <1>4 DEF Finish, Moves, NextDevice, NoEffect
  <2>2. SweepInv(p)'
    BY <1>1, <2>1, Moved, IdleSweep
  <2>3. RTypeOK'
    BY <1>1, <1>4, <2>1, SweepGoes, NoEffectTyped DEF RTypeOK, NextDevice
  <2> QED BY <1>1, <1>2, <2>1, <2>2, <2>3, NoEffectStep
<1>5. ASSUME ~Vanished(p, group), NEW selected \in SUBSET group,
             Continue(p, "prune", [mem[p] EXCEPT !.seen = mem[p].seen \ group, !.chosen = selected]),
             decided' = decided \union {Reads(p, x).born : x \in selected}
      PROVE  FilesInv'
  <2> DEFINE m == [mem[p] EXCEPT !.seen = mem[p].seen \ group, !.chosen = selected]
  <2>1. Moves(p, "prune", m) /\ NoEffect
    BY <1>5 DEF Continue, Moves, NextDevice, NoEffect
  <2>2. /\ m.dest = mem[p].dest /\ m.seen \subseteq mem[p].seen /\ m.chosen = selected
        /\ m.expired = mem[p].expired
    BY <1>1 DEF Memory
  <2>3. pc'[p] = "prune" /\ mem'[p] = m
    BY <1>1, <2>1, Moved
  <2>4. ASSUME NEW x \in selected
        PROVE  /\ x \in mem[p].seen /\ Known(x[1], Reads(p, x).born)
               /\ \/ Reads(p, x).born = x[2].born
                  \/ "rows" \in mem[p].expired /\ Astray(x[1])
    <3>1. x \in mem[p].seen /\ ~Vanished(p, {x})
      BY <1>5, <2>4 DEF Vanished
    <3> QED BY <3>1, ReadsSame
  <2>5. ASSUME NEW x \in selected PROVE Selected(p, x)'
    <3>1. CASE Reads(p, x).born = x[2].born
      BY <1>5, <3>1 DEF Selected
    <3>2. CASE "rows" \in mem[p].expired /\ Astray(x[1])
      BY <2>1, <2>2, <2>3, <3>2 DEF Selected, NoEffect, Astray, There
    <3> QED BY <2>4, <3>1, <3>2
  <2>6. decided' \subseteq Births
    BY <1>1, <1>5, <2>4, BirthsBounded DEF Known, RTypeOK
  <2>7. Candidates(p)'
    BY <2>1, <2>2, <2>3, <2>4, <2>5, SameObjects
  <2>8. SweepInv(p)'
    BY <2>3, <2>7 DEF SweepInv
  <2>9. RTypeOK'
    BY <1>1, <2>1, <2>6, SweepGoes, NoEffectTyped DEF NextDevice
  <2> QED BY <1>1, <1>2, <2>1, <2>8, <2>9, NoEffectStep
<1> QED BY <1>3, <1>4, <1>5 DEF ToPrune

\* It goes on without a change, or ends.
LEMMA SweepTurns ==
  ASSUME FilesInv, NEW p \in Sweepers, EndSweep(p) \/ LastDevice(p) \/ GroupDone(p) \/ Missed(p)
  PROVE  FilesInv'
<1>1. p \in Procs /\ p \notin Deleters /\ RTypeOK /\ mem[p] \in Memory /\ SweepInv(p)
  BY ProcAssumption DEF FilesInv, Procs, RTypeOK
<1>2. NoEffect /\ dests' = dests /\ incidents' = incidents /\ decided' = decided /\ pc[p] # "mark"
  BY DEF EndSweep, LastDevice, GroupDone, Missed, NoEffect
<1>3. RTypeOK'
  BY <1>1, <1>2, SweepGoes, NoEffectTyped DEF RTypeOK
<1>4. ASSUME NEW l, NEW m, Moves(p, l, m),
             \/ m = NoMemory /\ l = "idle"
             \/ /\ l \in {"dests", "devices", "prune"}
                /\ m.dest = mem[p].dest /\ m.seen = mem[p].seen /\ m.chosen = mem[p].chosen
                /\ mem[p].expired \subseteq m.expired
                /\ l = "prune" \/ m.chosen = {}
      PROVE  FilesInv'
  <2>1. pc'[p] = l /\ mem'[p] = m
    BY <1>1, <1>4, Moved
  <2>2. CASE m = NoMemory /\ l = "idle"
    BY <1>1, <1>2, <1>3, <1>4, <2>1, <2>2, IdleSweep, NoEffectStep
  <2>3. CASE ~(m = NoMemory /\ l = "idle")
    <3>1. l \in {"dests", "devices", "prune"} /\ (l = "prune" \/ m.chosen = {})
      BY <1>4, <2>3
    <3>2. /\ mem'[p].dest = mem[p].dest /\ mem'[p].seen = mem[p].seen
          /\ mem'[p].chosen = mem[p].chosen /\ mem[p].expired \subseteq mem'[p].expired
      BY <1>4, <2>1, <2>3
    <3>3. \A o \in mem[p].chosen : Selected(p, o)'
      BY <1>2, <3>2, StaysSelected
    <3>4. Candidates(p)'
      BY <1>2, <3>2, <3>3, SameObjects
    <3>5. SweepInv(p)'
      BY <2>1, <3>1, <3>4 DEF SweepInv
    <3> QED BY <1>1, <1>2, <1>3, <1>4, <3>5, NoEffectStep
  <2> QED BY <2>2, <2>3
<1>5. CASE EndSweep(p)
  BY <1>4, <1>5 DEF EndSweep, Finish, Moves
<1>6. CASE LastDevice(p)
  <2>1. Moves(p, "dests", mem[p]) /\ mem[p].chosen = {}
    BY <1>1, <1>6 DEF LastDevice, Continue, Moves, SweepInv
  <2> QED BY <1>4, <2>1
<1>7. CASE GroupDone(p)
  <2>1. Moves(p, "devices", mem[p]) /\ mem[p].chosen = {}
    BY <1>7 DEF GroupDone, Continue, Moves
  <2> QED BY <1>4, <2>1
<1>8. CASE Missed(p)
  <2>1. Moves(p, "idle", NoMemory) \/ Moves(p, "prune", Expire(mem[p]))
    BY <1>8 DEF Missed, Continue, Finish, Moves
  <2>2. LET m == Expire(mem[p])
        IN  /\ m.dest = mem[p].dest /\ m.seen = mem[p].seen /\ m.chosen = mem[p].chosen
            /\ mem[p].expired \subseteq m.expired
    BY <1>1 DEF Expire, Memory
  <2> QED BY <1>4, <2>1, <2>2
<1> QED BY <1>5, <1>6, <1>7, <1>8

LEMMA CandidateStep == ASSUME FilesInv, NEW p \in Sweepers, Candidate(p) PROVE FilesInv'
<1>1. p \in Procs /\ p \notin Deleters /\ RTypeOK /\ mem[p] \in Memory /\ SweepInv(p)
  BY ProcAssumption DEF FilesInv, Procs, RTypeOK
<1>2. NoEffect /\ dests' = dests /\ incidents' = incidents /\ decided' = decided /\ pc[p] = "prune"
  BY DEF Candidate, NoEffect
<1>3. RTypeOK'
  BY <1>1, <1>2, SweepGoes, NoEffectTyped DEF RTypeOK
<1>4. PICK o \in mem[p].chosen :
        LET m == [mem[p] EXCEPT !.chosen = @ \ {o}, !.cur = o[1], !.file = FileOf(Reads(p, o))]
        IN \/ Finish(p)
           \/ /\ ~Vanished(p, {o})
              /\ \/ Continue(p, "prune", Expire(m))
                 \/ Continue(p, "mark", m) /\ m.file \notin files
                 \/ Await(p, "pruning", m)
  BY DEF Candidate
<1> DEFINE m == [mem[p] EXCEPT !.chosen = @ \ {o}, !.cur = o[1], !.file = FileOf(Reads(p, o))]
<1>5. /\ m.dest = mem[p].dest /\ m.seen = mem[p].seen /\ m.chosen = mem[p].chosen \ {o}
      /\ m.cur = o[1] /\ m.file = FileOf(Reads(p, o))
      /\ Expire(m).dest = mem[p].dest /\ Expire(m).seen = mem[p].seen /\ Expire(m).chosen = m.chosen
      /\ m.expired = mem[p].expired /\ mem[p].expired \subseteq Expire(m).expired
  BY <1>1 DEF Memory, Expire
<1> HIDE DEF m
<1>6. CASE Finish(p)
  <2>1. Moves(p, "idle", NoMemory)
    BY <1>6 DEF Finish, Moves
  <2> QED BY <1>1, <1>2, <1>3, <2>1, Moved, IdleSweep, NoEffectStep
<1>7. CASE Continue(p, "prune", Expire(m))
  <2>1. Moves(p, "prune", Expire(m))
    BY <1>7 DEF Continue, Moves
  <2>2. pc'[p] = "prune" /\ mem'[p] = Expire(m)
    BY <1>1, <2>1, Moved
  <2>3. Candidates(p)'
    BY <1>2, <1>5, <2>2, SameObjects, StaysSelected
  <2>4. SweepInv(p)'
    BY <2>2, <2>3 DEF SweepInv
  <2> QED BY <1>1, <1>2, <1>3, <2>1, <2>4, NoEffectStep
<1>8. ASSUME NEW l \in {"mark", "pruning"}, Moves(p, l, m), ~Vanished(p, {o}),
             l = "mark" => m.file \notin files
      PROVE  FilesInv'
  <2>1. pc'[p] = l /\ mem'[p] = m
    BY <1>1, <1>8, Moved
  <2>2. Candidates(p)'
    BY <1>2, <1>5, <2>1, SameObjects, StaysSelected
  <2>3. /\ SweepsAs(o[1], o[2], mem[p].dest) /\ Selected(p, o) /\ o[1] \in Ids
    BY <1>1 DEF SweepInv, Candidates, Memory, Object
  <2>4. /\ m.file[1] = Reads(p, o).born /\ Known(o[1], m.file[1])
        /\ "rows" \in mem[p].expired => There(o[1]) /\ m.file[1] = rows[o[1]].born
        /\ \/ m.file = FileOf(o[2]) /\ m.file[1] = o[2].born
           \/ "rows" \in mem[p].expired /\ Astray(o[1])
    BY <1>5, <1>8, ReadsSame DEF FileOf
  <2>5. \A b : b = m.file[1] => Known(o[1], b)'
    BY <1>1, <1>2, <2>4, NoEffectKeeps, KnownKept
  <2>9. m.file[1] \in decided' \union reused'
    BY <1>2, <2>3, <2>4 DEF Selected, Astray, NoEffect
  <2>10. \/ Astray(o[1])'
         \/ rows'[o[1]].st = "success" /\ rows'[o[1]].label = {TypeOf[mem[p].dest]}
            /\ FileOf(rows'[o[1]]) = m.file
    BY <1>2, <2>3, <2>4 DEF SweepsAs, Astray, NoEffect, There, FileOf
  <2>6. DeletesFile(p)'
    BY <1>5, <2>1, <2>3, <2>5, <2>9, <2>10 DEF DeletesFile
  <2>7. SweepInv(p)'
    BY <1>2, <1>8, <2>1, <2>2, <2>6 DEF SweepInv, NoEffect
  <2> QED BY <1>1, <1>2, <1>3, <1>8, <2>7, NoEffectStep
<1>9. CASE ~Vanished(p, {o}) /\ Continue(p, "mark", m) /\ m.file \notin files
  BY <1>8, <1>9 DEF Continue, Moves
<1>10. CASE ~Vanished(p, {o}) /\ Await(p, "pruning", m)
  BY <1>8, <1>10 DEF Await, Moves
<1> QED BY <1>4, <1>6, <1>7, <1>9, <1>10 DEF m

LEMMA PrunesStep == ASSUME FilesInv, NEW p \in Sweepers, Prunes(p) PROVE FilesInv'
<1>1. p \in Procs /\ p \notin Deleters /\ RTypeOK /\ SweepInv(p) /\ DeletesFile(p)
  BY ProcAssumption DEF FilesInv, Procs, SweepInv, Prunes
<1>2. /\ pc[p] = "pruning" /\ mem' = mem /\ loop' = loop
      /\ UNCHANGED <<rows, dests, births, decided, torn, reused, incidents>>
      /\ pc'[p] \in {"mark", "missed"} /\ \A q \in Procs \ {p} : pc'[q] = pc[q]
      /\ pc' \in [Procs -> Where]
  BY <1>1 DEF Prunes, RTypeOK, Where, Running
<1>3. /\ files' \subseteq files /\ \A f \in files \ files' : f = mem[p].file /\ pc'[p] = "mark"
      /\ pc'[p] = "mark" /\ TypeOf[mem[p].dest] = Local => mem[p].file \notin files'
  BY <1>1 DEF Prunes, Raises, RTypeOK
<1>4. RTypeOK'
  <2>1. loop # Nobody => loop \in Procs /\ pc'[loop] \in Running
    BY <1>2 DEF FilesInv, RTypeOK, Running
  <2> QED BY <1>1, <1>2, <1>3, <2>1 DEF RTypeOK, Where
<1>5. Keeps
  BY <1>2, <1>3 DEF Keeps, KeepsRow, There, FileOf
<1>6. ASSUME NEW q \in Sweepers PROVE SweepInv(q)'
  <2>1. CASE q # p
    BY <1>2, <1>5, <2>1, SweepKept DEF Procs
  <2>2. CASE q = p
    <3>1. Candidates(p)' /\ DeletesFile(p)'
      BY <1>1, <1>2 DEF SweepInv, Candidates, DeletesFile, Known, SweepsAs, Selected, Astray, There,
         FileOf
    <3> QED BY <1>2, <1>3, <2>2, <3>1 DEF SweepInv
  <2> QED BY <2>1, <2>2
<1>7. \A q \in Deleters : EraseInv(q)'
  BY <1>1, <1>2, <1>5, EraseKept DEF Procs
<1>8. BirthsKnown' /\ OpenRows' /\ PrunedMeansGone'
  BY <1>2, <1>3 DEF FilesInv, BirthsKnown, OpenRows, PrunedMeansGone, Known, There, FileOf
<1>9. RowReflectsFile'
  <2> SUFFICES ASSUME NEW i \in Ids, Lost(i)'
               PROVE  \/ rows[i].born \in torn
                      \/ \E q \in Sweepers : pc'[q] = "mark" /\ mem[q].cur = i
                      \/ \E q \in Deleters : i \in IdsOf(mem[q].seen)
    BY <1>2 DEF RowReflectsFile, IdsOf
  <2>1. CASE Lost(i)
    <3>1. \A q \in Sweepers : pc[q] = "mark" => pc'[q] = "mark"
      BY <1>2 DEF Procs
    <3> QED BY <2>1, <3>1 DEF FilesInv, RowReflectsFile
  \* The file has just gone: it was that of the row this sweep is at.
  <2>2. CASE ~Lost(i)
    <3>1. FileOf(rows[i]) \in files \ files' /\ There(i)
      BY <1>2, <2>2 DEF Lost, FileOf, There
    <3>2. rows[i].born = mem[p].file[1] /\ pc'[p] = "mark"
      BY <1>3, <3>1 DEF FileOf
    <3>3. mem[p].cur = i
      BY <1>1, <3>1, <3>2 DEF DeletesFile, Known
    <3> QED BY <3>2, <3>3
  <2> QED BY <2>1, <2>2
<1> QED BY <1>4, <1>6, <1>7, <1>8, <1>9 DEF FilesInv

LEMMA MarkStep == ASSUME FilesInv, NEW p \in Sweepers, Mark(p) PROVE FilesInv'
<1> DEFINE c == mem[p].cur
<1>1. p \in Procs /\ p \notin Deleters /\ RTypeOK /\ mem[p] \in Memory /\ SweepInv(p) /\ DeletesFile(p)
  BY ProcAssumption DEF FilesInv, Procs, SweepInv, Mark, RTypeOK
<1>2. /\ pc[p] = "mark" /\ UNCHANGED <<files, dests, births, decided, torn, reused, incidents>>
      /\ c \in Ids
  BY <1>1 DEF Mark, DeletesFile
<1>3. \A i \in Ids : \/ rows'[i] = rows[i]
                     \/ i = c /\ rows'[i] = [rows[i] EXCEPT !.pruned = TRUE]
  <2>1. rows' = rows \/ rows' = [rows EXCEPT ![c] = [rows[c] EXCEPT !.pruned = TRUE]]
    BY DEF Mark, Marked
  <2> QED BY <1>1, <2>1 DEF RTypeOK
<1>4. \A i \in Ids : /\ rows'[i].st = rows[i].st /\ rows'[i].born = rows[i].born
                     /\ rows'[i].label = rows[i].label /\ rows'[i].at = rows[i].at
                     /\ i # c => rows'[i].pruned = rows[i].pruned
  <2> SUFFICES ASSUME NEW i \in Ids
               PROVE  /\ rows'[i].st = rows[i].st /\ rows'[i].born = rows[i].born
                      /\ rows'[i].label = rows[i].label /\ rows'[i].at = rows[i].at
                      /\ i # c => rows'[i].pruned = rows[i].pruned
    OBVIOUS
  <2>1. rows[i] \in Row
    BY <1>1 DEF RTypeOK
  <2> QED BY <1>3, <2>1 DEF Row
<1>5. PICK l, m : /\ Goes(p, l, m) /\ l \in {"prune", "idle"}
                  /\ l = "idle" => m = NoMemory
                  /\ l = "prune" => m = Expire(mem[p])
                  /\ l = "idle" => rows' = rows /\ ~There(c)
                  /\ l = "prune" => There(c) /\ rows'[c].pruned
  <2>1. CASE There(c)
    <3>1. Goes(p, "prune", Expire(mem[p]))
      <4>1. Expire(mem[p]) \in Memory /\ "prune" \in Running
        BY <1>1 DEF Memory, Expire, NoMemory, Fallback, Running
      <4> QED BY <2>1, <4>1, ContinueGoes DEF Mark
    <3>2. rows'[c].pruned
      BY <1>1, <1>2, <2>1 DEF Mark, Marked, RTypeOK, Row
    <3> QED BY <2>1, <3>1, <3>2
  <2>2. CASE ~There(c)
    BY <2>2, FinishGoes DEF Mark
  <2> QED BY <2>1, <2>2
<1>6. /\ pc'[p] = l /\ mem'[p] = m
      /\ \A q \in Procs \ {p} : pc'[q] = pc[q] /\ mem'[q] = mem[q]
  BY <1>1, <1>5, Moved DEF Goes
<1>7. RTypeOK'
  <2>1. rows' \in [Ids -> Row]
    BY <1>1, RowTypes DEF Mark, Marked, RTypeOK
  <2> QED BY <1>1, <1>2, <1>5, <2>1, GoesTyped DEF RTypeOK, Where
<1>8. Keeps
  BY <1>2, <1>4 DEF Keeps, KeepsRow, There, FileOf
<1>9. ASSUME NEW q \in Sweepers PROVE SweepInv(q)'
  <2>1. CASE q # p
    BY <1>6, <1>8, <2>1, SweepKept DEF Procs
  <2>2. CASE q = p /\ l = "idle"
    BY <1>5, <1>6, <2>2, IdleSweep
  <2>3. CASE q = p /\ l = "prune"
    <3>1. /\ mem'[p].dest = mem[p].dest /\ mem'[p].seen = mem[p].seen
          /\ mem'[p].chosen = mem[p].chosen /\ mem[p].expired \subseteq mem'[p].expired
      <4>1. LET e == Expire(mem[p])
            IN  /\ e.dest = mem[p].dest /\ e.seen = mem[p].seen /\ e.chosen = mem[p].chosen
                /\ mem[p].expired \subseteq e.expired
        BY <1>1 DEF Expire, Memory
      <4> QED BY <1>5, <1>6, <2>3, <4>1
    <3>2. Candidates(p)
      BY <1>1 DEF SweepInv
    <3>3. ASSUME NEW o \in mem[p].seen \union mem[p].chosen
          PROVE  Known(o[1], o[2].born)' /\ SweepsAs(o[1], o[2], mem[p].dest)'
      <4>1. Known(o[1], o[2].born) /\ SweepsAs(o[1], o[2], mem[p].dest) /\ o[1] \in Ids
        BY <1>1, <3>2 DEF Candidates, Memory, Object
      <4>2. Known(o[1], o[2].born)'
        BY <1>1, <1>8, <4>1, KnownKept
      <4> QED BY <1>2, <1>4, <3>1, <4>1, <4>2 DEF SweepsAs, Astray, There, FileOf
    <3>5. ASSUME NEW o \in mem[p].chosen PROVE Selected(p, o)'
      <4>1. Selected(p, o) /\ o[1] \in Ids
        BY <1>1, <3>2 DEF Candidates, Memory, Object
      <4> QED BY <1>2, <1>4, <3>1, <4>1 DEF Selected, Astray, There
    <3>4. Candidates(p)'
      BY <3>1, <3>3, <3>5 DEF Candidates
    <3> QED BY <1>6, <2>3, <3>4 DEF SweepInv
  <2> QED BY <1>5, <2>1, <2>2, <2>3
<1>10. \A q \in Deleters : EraseInv(q)'
  BY <1>1, <1>6, <1>8, EraseKept DEF Procs
<1>11. BirthsKnown'
  <2> SUFFICES ASSUME NEW i \in Ids, There(i)' PROVE Known(i, rows[i].born)'
    BY DEF BirthsKnown
  <2>1. Known(i, rows[i].born) /\ rows'[i].born = rows[i].born
    BY <1>4 DEF FilesInv, BirthsKnown, There
  <2> QED BY <1>2, <1>4, <2>1 DEF Known, There
<1>12. OpenRows'
  <2>1. rows[c].st = "open" => rows[c].born \in reused
    BY <1>1 DEF DeletesFile, Astray, There
  <2> QED BY <1>2, <1>4, <2>1 DEF FilesInv, OpenRows
<1>13. PrunedMeansGone'
  <2> SUFFICES ASSUME NEW i \in Ids, There(i)', rows'[i].born \notin reused, rows'[i].pruned,
                      rows'[i].label = {Local}
               PROVE  FileOf(rows'[i]) \notin files
    BY <1>2 DEF PrunedMeansGone
  <2>1. /\ There(i) /\ rows[i].label = {Local} /\ FileOf(rows'[i]) = FileOf(rows[i])
        /\ rows[i].born \notin reused
    BY <1>4 DEF There, FileOf
  <2>2. CASE i = c
    <3>1. /\ TypeOf[mem[p].dest] = Local /\ FileOf(rows[i]) = mem[p].file
          /\ mem[p].file[1] = rows[i].born
      BY <1>1, <2>1, <2>2 DEF DeletesFile, Astray, FileOf
    <3> QED BY <1>1, <1>2, <2>1, <3>1 DEF SweepInv
  <2>3. CASE i # c
    BY <1>4, <2>1, <2>3 DEF FilesInv, PrunedMeansGone
  <2> QED BY <2>2, <2>3
<1>14. RowReflectsFile'
  <2> SUFFICES ASSUME NEW i \in Ids, Lost(i)'
               PROVE  \/ rows'[i].born \in torn
                      \/ \E q \in Sweepers : pc'[q] = "mark" /\ mem'[q].cur = i
                      \/ \E q \in Deleters : i \in IdsOf(mem'[q].seen)
    BY <1>2 DEF RowReflectsFile, IdsOf
  <2>1. i # c
    <3>1. CASE l = "prune"
      BY <1>5, <3>1 DEF Lost
    <3>2. CASE l = "idle"
      BY <1>5, <3>2 DEF Lost, There
    <3> QED BY <1>5, <3>1, <3>2
  <2>2. Lost(i) /\ rows'[i].born = rows[i].born
    BY <1>2, <1>4, <2>1 DEF Lost, FileOf
  <2>3. ASSUME NEW q \in Sweepers, pc[q] = "mark", mem[q].cur = i
        PROVE  pc'[q] = "mark" /\ mem'[q].cur = i
    BY <1>6, <2>1, <2>3 DEF Procs
  <2>4. ASSUME NEW q \in Deleters, i \in IdsOf(mem[q].seen) PROVE i \in IdsOf(mem'[q].seen)
    BY <1>1, <1>6, <2>4 DEF Procs, IdsOf
  <2> QED BY <2>2, <2>3, <2>4 DEF FilesInv, RowReflectsFile
<1> QED BY <1>7, <1>9, <1>10, <1>11, <1>12, <1>13, <1>14 DEF FilesInv

-----------------------------------------------------------------------------
(* Steps of a request that deletes *)

LEMMA AskDeleteStep ==
  ASSUME FilesInv, NEW p \in Deleters, NEW I \in SUBSET Ids, AskDelete(p, I)
  PROVE  FilesInv'
<1> DEFINE m == [NoMemory EXCEPT !.seen = Load(I), !.chosen = Load(I)]
<1>1. p \in Procs /\ p \notin Sweepers /\ RTypeOK /\ EraseInv(p)
  BY ProcAssumption DEF FilesInv, Procs
<1>2. /\ NoEffect /\ pc[p] = "idle" /\ Moves(p, "erase", m) /\ dests' = dests /\ incidents' = incidents
      /\ decided' = decided \union {rows[i].born : i \in I} /\ \A i \in I : There(i)
  BY DEF AskDelete, NoEffect, Continue, Moves
<1>3. mem[p].seen = {}
  BY <1>1, <1>2 DEF EraseInv
<1>4. m.seen = Load(I) /\ m.chosen = Load(I)
  BY DEF NoMemory
<1> HIDE DEF m
<1>5. \A i \in I : Known(i, rows[i].born)
  BY <1>2 DEF FilesInv, BirthsKnown
<1>6. RTypeOK'
  <2>1. decided' \subseteq Births
    BY <1>1, <1>2, <1>5, BirthsBounded DEF Known, RTypeOK
  <2> QED BY <1>1, <1>2, <2>1, DeletionGoes, NoEffectTyped
<1>7. EraseInv(p)'
  <2>1. pc'[p] = "erase" /\ mem'[p] = m
    BY <1>1, <1>2, Moved
  <2>2. ASSUME NEW o \in Load(I) PROVE Known(o[1], o[2].born)' /\ o[2].born \in decided'
    <3>1. PICK i \in I : o = <<i, rows[i]>>
      BY <2>2 DEF Load
    <3>2. Known(i, rows[i].born) /\ o[1] = i /\ o[2] = rows[i] /\ o[2].born \in decided'
      BY <1>2, <1>5, <3>1
    <3> QED BY <1>1, <1>2, <3>2, NoEffectKeeps, KnownKept
  <2> QED BY <1>4, <2>1, <2>2 DEF EraseInv
<1> QED BY <1>1, <1>2, <1>3, <1>6, <1>7, NoEffectStep

LEMMA EraseFileStep == ASSUME FilesInv, NEW p \in Deleters, EraseFile(p) PROVE FilesInv'
<1>1. p \in Procs /\ p \notin Sweepers /\ RTypeOK /\ EraseInv(p) /\ mem[p] \in Memory
  BY ProcAssumption DEF FilesInv, Procs, RTypeOK
<1>2. NoEffect /\ pc[p] = "erase" /\ dests' = dests /\ incidents' = incidents /\ decided' = decided
  BY DEF EraseFile, NoEffect
<1>3. RTypeOK'
  BY <1>1, <1>2, DeletionGoes, NoEffectTyped DEF RTypeOK
<1>4. PICK o \in mem[p].chosen :
        LET m == [mem[p] EXCEPT !.chosen = @ \ {o}, !.file = FileOf(o[2])]
        IN Await(p, "erasing", m) \/ Continue(p, "erase", m)
  BY DEF EraseFile
<1> DEFINE m == [mem[p] EXCEPT !.chosen = @ \ {o}, !.file = FileOf(o[2])]
<1>5. m.seen = mem[p].seen /\ m.chosen \subseteq mem[p].chosen /\ m.file = FileOf(o[2])
  BY <1>1 DEF Memory
<1> HIDE DEF m
<1>6. PICK l \in {"erase", "erasing"} : Moves(p, l, m)
  BY <1>4 DEF m, Await, Continue, Moves
<1>7. EraseInv(p)'
  <2>1. pc'[p] = l /\ mem'[p] = m
    BY <1>1, <1>6, Moved
  <2>2. \A x \in mem[p].seen : Known(x[1], x[2].born)'
    BY <1>1, <1>2, NoEffectKeeps, KnownKept DEF EraseInv
  <2>3. o \in mem[p].seen
    BY <1>1 DEF EraseInv
  <2> QED BY <1>1, <1>2, <1>5, <2>1, <2>2, <2>3 DEF EraseInv
<1> QED BY <1>1, <1>2, <1>3, <1>5, <1>6, <1>7, NoEffectStep

LEMMA ErasesStep == ASSUME FilesInv, NEW p \in Deleters, Erases(p) PROVE FilesInv'
<1>1. p \in Procs /\ p \notin Sweepers /\ RTypeOK /\ EraseInv(p)
  BY ProcAssumption DEF FilesInv, Procs
<1>2. /\ pc[p] = "erasing" /\ mem' = mem /\ loop' = loop
      /\ UNCHANGED <<rows, dests, births, decided, torn, reused, incidents>>
      /\ pc'[p] = "erase" /\ \A q \in Procs \ {p} : pc'[q] = pc[q]
      /\ pc' \in [Procs -> Where]
      /\ files' \subseteq files /\ \A f \in files \ files' : f = mem[p].file
  BY <1>1 DEF Erases, RTypeOK, Where, Running
<1>3. RTypeOK'
  <2>1. loop # Nobody => loop \in Procs /\ pc'[loop] \in Running
    BY <1>2 DEF FilesInv, RTypeOK, Running
  <2> QED BY <1>1, <1>2, <2>1 DEF RTypeOK, Where
<1>4. Keeps
  BY <1>2 DEF Keeps, KeepsRow, There, FileOf
<1>5. \A q \in Sweepers : SweepInv(q)'
  BY <1>1, <1>2, <1>4, SweepKept DEF Procs
<1>6. ASSUME NEW q \in Deleters PROVE EraseInv(q)'
  <2>1. CASE q # p
    BY <1>2, <1>4, <2>1, EraseKept DEF Procs
  <2>2. CASE q = p
    BY <1>1, <1>2, <2>2 DEF EraseInv, Known, There
  <2> QED BY <2>1, <2>2
<1>7. BirthsKnown' /\ OpenRows' /\ PrunedMeansGone'
  BY <1>2 DEF FilesInv, BirthsKnown, OpenRows, PrunedMeansGone, Known, There, FileOf
<1>8. RowReflectsFile'
  <2> SUFFICES ASSUME NEW i \in Ids, Lost(i)'
               PROVE  \/ rows[i].born \in torn
                      \/ \E q \in Sweepers : pc'[q] = "mark" /\ mem[q].cur = i
                      \/ \E q \in Deleters : i \in IdsOf(mem[q].seen)
    BY <1>2 DEF RowReflectsFile, IdsOf
  <2>1. CASE Lost(i)
    <3>1. \A q \in Sweepers : pc'[q] = pc[q]
      BY <1>1, <1>2 DEF Procs
    <3> QED BY <2>1, <3>1 DEF FilesInv, RowReflectsFile
  <2>2. CASE ~Lost(i)
    <3>1. FileOf(rows[i]) = mem[p].file /\ There(i)
      BY <1>2, <2>2 DEF Lost, FileOf, There
    <3>2. PICK o \in mem[p].seen : mem[p].file = FileOf(o[2]) /\ Known(o[1], o[2].born)
      BY <1>1, <1>2 DEF EraseInv
    <3>3. o[1] = i
      BY <3>1, <3>2 DEF FileOf, Known
    <3> QED BY <3>3 DEF IdsOf
  <2> QED BY <2>1, <2>2
<1> QED BY <1>3, <1>5, <1>6, <1>7, <1>8 DEF FilesInv

\* Rows that disappear, while no coroutine moves but one that ends.
LEMMA RowsGo ==
  ASSUME FilesInv, RTypeOK', NEW I, UNCHANGED <<files, births, decided, torn, reused>>,
         rows' = [i \in Ids |-> IF i \in I THEN AbsentRow ELSE rows[i]],
         \A p \in Sweepers : pc'[p] = pc[p] /\ mem'[p] = mem[p],
         \A p \in Deleters : \/ pc'[p] = pc[p] /\ mem'[p] = mem[p]
                             \/ pc'[p] = "idle" /\ mem'[p] = NoMemory /\ IdsOf(mem[p].seen) \subseteq I
  PROVE  FilesInv'
<1>1. \A i \in Ids : /\ i \notin I => rows'[i] = rows[i]
                     /\ i \in I => rows'[i].st = "absent"
  BY DEF AbsentRow
<1>2. Keeps
  BY <1>1 DEF Keeps, KeepsRow, There, FileOf
<1>3. \A p \in Sweepers : SweepInv(p)'
  BY <1>2, SweepKept
<1>4. ASSUME NEW p \in Deleters PROVE EraseInv(p)'
  <2>1. CASE pc'[p] = pc[p] /\ mem'[p] = mem[p]
    BY <1>2, <2>1, EraseKept
  <2>2. CASE pc'[p] = "idle" /\ mem'[p] = NoMemory
    BY <2>2 DEF EraseInv, NoMemory
  <2> QED BY <2>1, <2>2
<1>5. BirthsKnown'
  <2> SUFFICES ASSUME NEW i \in Ids, There(i)' PROVE Known(i, rows[i].born)'
    BY DEF BirthsKnown
  <2>1. Known(i, rows[i].born) /\ rows'[i] = rows[i]
    BY <1>1 DEF FilesInv, BirthsKnown, There
  <2> QED BY <1>1, <2>1 DEF Known, There
<1>6. OpenRows' /\ PrunedMeansGone'
  BY <1>1 DEF FilesInv, OpenRows, PrunedMeansGone, There, FileOf
<1>7. RowReflectsFile'
  <2> SUFFICES ASSUME NEW i \in Ids, Lost(i)'
               PROVE  \/ rows'[i].born \in torn
                      \/ \E q \in Sweepers : pc'[q] = "mark" /\ mem'[q].cur = i
                      \/ \E q \in Deleters : i \in IdsOf(mem'[q].seen)
    BY DEF RowReflectsFile, IdsOf
  <2>1. i \notin I /\ Lost(i) /\ rows'[i] = rows[i]
    BY <1>1 DEF Lost, FileOf
  <2>2. \A q \in Deleters : i \in IdsOf(mem[q].seen) => i \in IdsOf(mem'[q].seen)
    BY <2>1
  <2> QED BY <2>1, <2>2 DEF FilesInv, RowReflectsFile
<1> QED BY <1>3, <1>4, <1>5, <1>6, <1>7 DEF FilesInv

LEMMA CommitDeleteStep == ASSUME FilesInv, NEW p \in Deleters, CommitDelete(p) PROVE FilesInv'
<1>1. p \in Procs /\ p \notin Sweepers /\ RTypeOK
  BY ProcAssumption DEF FilesInv, Procs
<1>2. Goes(p, "idle", NoMemory) /\ UNCHANGED <<files, dests, births, decided, torn, reused, incidents>>
  BY FinishGoes DEF CommitDelete
<1>3. rows' = [i \in Ids |-> IF i \in IdsOf(mem[p].seen) THEN AbsentRow ELSE rows[i]]
  BY DEF CommitDelete
<1>4. RTypeOK'
  BY <1>1, <1>2, <1>3, GoesTyped, RowTypes DEF RTypeOK, Where
<1>5. /\ pc'[p] = "idle" /\ mem'[p] = NoMemory
      /\ \A q \in Procs \ {p} : pc'[q] = pc[q] /\ mem'[q] = mem[q]
  BY <1>1, <1>2, Moved DEF Goes
<1> DEFINE I == IdsOf(mem[p].seen)
<1>6. \A q \in Deleters : \/ pc'[q] = pc[q] /\ mem'[q] = mem[q]
                          \/ pc'[q] = "idle" /\ mem'[q] = NoMemory /\ IdsOf(mem[q].seen) \subseteq I
  BY <1>5 DEF Procs
<1>7. \A q \in Sweepers : pc'[q] = pc[q] /\ mem'[q] = mem[q]
  BY <1>1, <1>5 DEF Procs
<1> HIDE DEF I
<1> QED BY <1>2, <1>3, <1>4, <1>6, <1>7, RowsGo DEF I

-----------------------------------------------------------------------------
(* Backups, the purge, and what goes wrong *)

\* No coroutine moves.
LEMMA NobodyMoves ==
  ASSUME FilesInv, Keeps, pc' = pc, mem' = mem
  PROVE  (\A p \in Sweepers : SweepInv(p)') /\ (\A p \in Deleters : EraseInv(p)')
BY SweepKept, EraseKept

\* A loss that was there before is still accounted for.
LEMMA LossKept ==
  ASSUME FilesInv, NEW i \in Ids, Lost(i), rows'[i].born = rows[i].born, pc' = pc, mem' = mem, torn' = torn
  PROVE  \/ rows'[i].born \in torn'
         \/ \E q \in Sweepers : pc'[q] = "mark" /\ mem'[q].cur = i
         \/ \E q \in Deleters : i \in IdsOf(mem'[q].seen)
BY DEF FilesInv, RowReflectsFile

LEMMA NewBackupStep ==
  ASSUME FilesInv, NEW i \in Ids, NEW v \in Devices, NewBackup(i, v)
  PROVE  FilesInv'
<1> DEFINE r == [AbsentRow EXCEPT !.st = "open", !.dev = v, !.born = births + 1]
<1>1. /\ UNCHANGED <<files, dests, loop, pc, mem, decided, torn, incidents>>
      /\ births' = births + 1 /\ births' \in Births /\ births \in Nat /\ ~There(i)
      /\ rows' = [rows EXCEPT ![i] = r]
      /\ reused' = IF Held(i) THEN reused \union {births'} ELSE reused
  BY BoundAssumption, BirthsBounded DEF NewBackup, NextId, Births, FilesInv, RTypeOK, Ids
<1>2. /\ r \in Row /\ r.st = "open" /\ r.born = births + 1 /\ ~r.pruned /\ r.at = Fallback
  <2>1. AbsentRow \in Row /\ ~AbsentRow.pruned /\ AbsentRow.at = Fallback
    BY RowTypes DEF AbsentRow
  <2> QED BY <1>1, <2>1 DEF Row
<1> HIDE DEF r
<1>3. rows'[i] = r /\ \A j \in Ids \ {i} : rows'[j] = rows[j]
  BY <1>1 DEF FilesInv, RTypeOK
<1>4. RTypeOK'
  BY <1>1, <1>2 DEF FilesInv, RTypeOK, Births
<1>5. Keeps
  BY <1>1, <1>2, <1>3 DEF Keeps, KeepsRow, There, FileOf
<1>6. \A j \in Ids : There(j) => rows[j].born \in 1 .. births
  BY DEF FilesInv, BirthsKnown, Known
<1>7. BirthsKnown'
  <2> SUFFICES ASSUME NEW j \in Ids, There(j)' PROVE Known(j, rows[j].born)'
    BY DEF BirthsKnown
  <2>1. CASE j = i
    BY <1>1, <1>2, <1>3, <1>6, <2>1 DEF Known, There
  <2>2. CASE j # i
    <3>1. Known(j, rows[j].born) /\ rows'[j] = rows[j]
      BY <1>3, <2>2 DEF FilesInv, BirthsKnown, There
    <3>2. Known(j, rows[j].born)'
      BY <1>1, <1>2, <1>3, <3>1 DEF Known, There
    <3> QED BY <3>2
  <2> QED BY <2>1, <2>2
<1>8. OpenRows' /\ PrunedMeansGone'
  BY <1>1, <1>2, <1>3 DEF FilesInv, OpenRows, PrunedMeansGone, There, FileOf
<1>9. RowReflectsFile'
  <2> SUFFICES ASSUME NEW j \in Ids, Lost(j)'
               PROVE  \/ rows'[j].born \in torn'
                      \/ \E q \in Sweepers : pc'[q] = "mark" /\ mem'[q].cur = j
                      \/ \E q \in Deleters : j \in IdsOf(mem'[q].seen)
    BY DEF RowReflectsFile, IdsOf
  <2>1. Lost(j) /\ rows'[j] = rows[j]
    BY <1>1, <1>2, <1>3 DEF Lost, FileOf
  <2> QED BY <1>1, <2>1, LossKept
<1> QED BY <1>1, <1>4, <1>5, <1>7, <1>8, <1>9, NobodyMoves DEF FilesInv

LEMMA FinishBackupStep == ASSUME FilesInv, NEW i \in Ids, FinishBackup(i) PROVE FilesInv'
<1>1. /\ UNCHANGED <<dests, loop, pc, mem, births, decided, torn, reused, incidents>>
      /\ rows[i].st = "open" /\ There(i) /\ RTypeOK /\ rows[i] \in Row /\ dests \subseteq Dests
  BY DEF FinishBackup, There, FilesInv, RTypeOK
<1>2. /\ Known(i, rows[i].born) /\ rows[i].born \in Births /\ rows[i].at = Fallback
      /\ rows[i].pruned => rows[i].born \in reused
  BY <1>1, BirthsBounded DEF FilesInv, BirthsKnown, OpenRows, Known
<1>3. PICK r, F :
        /\ rows' = [rows EXCEPT ![i] = r] /\ files' = files \union F
        /\ r \in Row /\ r.st = "success" /\ r.born = rows[i].born /\ r.pruned = rows[i].pruned
        /\ FileOf(r) \in F /\ \A f \in F : f[1] = rows[i].born
        /\ F \subseteq Births \X (Dests \union {Fallback})
  <2>1. PICK S \in SUBSET dests :
          IF S = {}
            THEN /\ rows' = [rows EXCEPT ![i].st = "success"]
                 /\ files' = files \union {<<rows[i].born, Fallback>>}
            ELSE \E d \in S :
                 /\ Primary(S, d)
                 /\ rows' = [rows EXCEPT ![i].st = "success", ![i].at = d,
                                         ![i].label = {TypeOf[e] : e \in S}]
                 /\ files' = files \union {<<rows[i].born, e>> : e \in S}
    BY DEF FinishBackup
  <2>0. S \subseteq Dests
    BY <1>1
  <2>2. CASE S = {}
    <3> DEFINE r == [rows[i] EXCEPT !.st = "success"]
               F == {<<rows[i].born, Fallback>>}
    <3>1. rows' = [rows EXCEPT ![i] = r] /\ files' = files \union F
      BY <1>1, <2>1, <2>2 DEF RTypeOK
    <3>2. /\ r \in Row /\ r.st = "success" /\ r.born = rows[i].born /\ r.pruned = rows[i].pruned
          /\ r.at = Fallback
      BY <1>1, <1>2 DEF Row
    <3>3. FileOf(r) \in F
      BY <3>2 DEF FileOf
    <3>4. F \subseteq Births \X (Dests \union {Fallback}) /\ \A f \in F : f[1] = rows[i].born
      BY <1>2
    <3> HIDE DEF r, F
    <3> QED BY <3>1, <3>2, <3>3, <3>4
  <2>3. ASSUME NEW d \in S, rows' = [rows EXCEPT ![i].st = "success", ![i].at = d,
                                         ![i].label = {TypeOf[e] : e \in S}],
               files' = files \union {<<rows[i].born, e>> : e \in S}
        PROVE  \E r, F :
                 /\ rows' = [rows EXCEPT ![i] = r] /\ files' = files \union F
                 /\ r \in Row /\ r.st = "success" /\ r.born = rows[i].born
                 /\ r.pruned = rows[i].pruned
                 /\ FileOf(r) \in F /\ \A f \in F : f[1] = rows[i].born
                 /\ F \subseteq Births \X (Dests \union {Fallback})
    <3> DEFINE L == {TypeOf[e] : e \in S}
               r == [rows[i] EXCEPT !.st = "success", !.at = d, !.label = L]
               F == {<<rows[i].born, e>> : e \in S}
    <3>1. L \subseteq Types /\ d \in Dests /\ S \subseteq Dests
      BY <2>0, DestAssumption
    <3>2. rows' = [rows EXCEPT ![i] = r] /\ files' = files \union F
      BY <1>1, <2>3 DEF RTypeOK
    <3> HIDE DEF L
    <3>3. /\ r \in Row /\ r.st = "success" /\ r.born = rows[i].born /\ r.pruned = rows[i].pruned
          /\ r.at = d
      BY <1>1, <1>2, <3>1 DEF Row
    <3>4. FileOf(r) \in F
      BY <3>3 DEF FileOf
    <3>5. F \subseteq Births \X (Dests \union {Fallback}) /\ \A f \in F : f[1] = rows[i].born
      BY <1>2, <3>1
    <3> HIDE DEF r, F
    <3> QED BY <3>2, <3>3, <3>4, <3>5
  <2> QED BY <2>1, <2>2, <2>3
<1>4. rows'[i] = r /\ \A j \in Ids \ {i} : rows'[j] = rows[j]
  BY <1>1, <1>3 DEF RTypeOK
<1>5. RTypeOK'
  BY <1>1, <1>3 DEF RTypeOK
<1>6. Keeps
  BY <1>1, <1>3, <1>4 DEF Keeps, KeepsRow, There, FileOf
<1>7. BirthsKnown'
  BY <1>1, <1>2, <1>3, <1>4 DEF FilesInv, BirthsKnown, Known, There
<1>8. OpenRows'
  BY <1>1, <1>3, <1>4 DEF FilesInv, OpenRows
<1>9. PrunedMeansGone'
  <2> SUFFICES ASSUME NEW j \in Ids, There(j)', rows'[j].born \notin reused', rows'[j].pruned,
                      rows'[j].label = {Local}
               PROVE  FileOf(rows'[j]) \notin files'
    BY DEF PrunedMeansGone
  <2>1. j # i /\ There(j) /\ rows'[j] = rows[j] /\ rows[j].born \notin reused
    BY <1>1, <1>2, <1>3, <1>4 DEF There
  <2>2. FileOf(rows[j]) \notin files
    BY <2>1 DEF FilesInv, PrunedMeansGone
  <2>3. FileOf(rows[j]) \notin F
    BY <1>2, <1>3, <2>1 DEF FileOf, Known
  <2> QED BY <1>3, <2>1, <2>2, <2>3
<1>10. RowReflectsFile'
  <2> SUFFICES ASSUME NEW j \in Ids, Lost(j)'
               PROVE  \/ rows'[j].born \in torn'
                      \/ \E q \in Sweepers : pc'[q] = "mark" /\ mem'[q].cur = j
                      \/ \E q \in Deleters : j \in IdsOf(mem'[q].seen)
    BY DEF RowReflectsFile, IdsOf
  <2>1. j # i
    BY <1>3, <1>4 DEF Lost
  <2>2. Lost(j) /\ rows'[j] = rows[j]
    BY <1>3, <1>4, <2>1 DEF Lost, FileOf
  <2> QED BY <1>1, <2>2, LossKept
<1> QED BY <1>1, <1>5, <1>6, <1>7, <1>8, <1>9, <1>10, NobodyMoves DEF FilesInv

LEMMA PurgeStep == ASSUME FilesInv, NEW I \in SUBSET Ids, Purge(I) PROVE FilesInv'
<1>1. /\ UNCHANGED <<files, dests, loop, pc, mem, births, decided, torn, reused, incidents>>
      /\ rows' = [i \in Ids |-> IF i \in I THEN AbsentRow ELSE rows[i]]
  BY DEF Purge
<1>2. RTypeOK'
  BY <1>1, RowTypes DEF FilesInv, RTypeOK
<1> QED BY <1>1, <1>2, RowsGo

LEMMA DeleteDestStep == ASSUME FilesInv, NEW d \in Dests, DeleteDest(d) PROVE FilesInv'
<1>1. /\ UNCHANGED <<rows, files, loop, pc, mem, births, decided, torn, reused>>
      /\ RTypeOK'
  BY BoundAssumption DEF DeleteDest, FilesInv, RTypeOK
<1>2. NoEffect
  BY <1>1 DEF NoEffect
<1>3. BirthsKnown' /\ OpenRows' /\ PrunedMeansGone'
  BY <1>1 DEF FilesInv, BirthsKnown, OpenRows, PrunedMeansGone, Known, There, FileOf
<1>4. RowReflectsFile'
  BY <1>1 DEF FilesInv, RowReflectsFile, Lost, IdsOf, FileOf
<1> QED BY <1>1, <1>2, <1>3, <1>4, NoEffectKeeps, NobodyMoves DEF FilesInv

\* A crash takes the memory of every coroutine; what it cut in two is torn.
LEMMA CrashStep == ASSUME FilesInv, Crash PROVE FilesInv'
<1>1. /\ UNCHANGED <<rows, files, dests, births, decided, reused>>
      /\ torn' = torn \union {rows[i].born : i \in {k \in Ids : Lost(k)}}
      /\ \A p \in Procs : pc'[p] = "idle" /\ mem'[p] = NoMemory
  BY DEF Crash
<1>2. RTypeOK'
  <2>1. \A i \in Ids : Lost(i) => rows[i].born \in Births
    BY BirthsBounded DEF FilesInv, BirthsKnown, Known, Lost, There
  <2>2. torn' \subseteq Births
    BY <1>1, <2>1 DEF FilesInv, RTypeOK
  <2>3. mem' \in [Procs -> Memory]
    BY NoMemoryTyped DEF Crash
  <2> QED BY <1>1, <2>2, <2>3, BoundAssumption DEF Crash, FilesInv, RTypeOK
<1>3. BirthsKnown' /\ OpenRows' /\ PrunedMeansGone'
  BY <1>1 DEF FilesInv, BirthsKnown, OpenRows, PrunedMeansGone, Known, There, FileOf
<1>4. RowReflectsFile'
  BY <1>1 DEF RowReflectsFile, Lost, FileOf
<1>5. \A p \in Sweepers : SweepInv(p)'
  BY <1>1, IdleSweep DEF Procs
<1>6. \A p \in Deleters : EraseInv(p)'
  BY <1>1 DEF Procs, EraseInv, NoMemory
<1> QED BY <1>2, <1>3, <1>4, <1>5, <1>6 DEF FilesInv

LEMMA FilesInit == RInit => FilesInv
<1> SUFFICES ASSUME RInit PROVE FilesInv
  OBVIOUS
<1> USE DEF RInit
<1>1. \A i \in Ids : rows[i].st = "absent"
  BY DEF AbsentRow
<1>2. \A p \in Procs : pc[p] = "idle" /\ mem[p] = NoMemory
  OBVIOUS
<1>3. RTypeOK
  BY RowTypes, NoMemoryTyped, BoundAssumption, ProcAssumption DEF RTypeOK
<1>4. BirthsKnown /\ OpenRows /\ PrunedMeansGone /\ RowReflectsFile
  BY <1>1 DEF BirthsKnown, OpenRows, PrunedMeansGone, RowReflectsFile, Lost, There
<1>5. \A p \in Sweepers : SweepInv(p)
  BY <1>2 DEF Procs, SweepInv, Candidates, NoMemory
<1>6. \A p \in Deleters : EraseInv(p)
  BY <1>2 DEF Procs, EraseInv, NoMemory
<1> QED BY <1>3, <1>4, <1>5, <1>6 DEF FilesInv

LEMMA FilesStep ==
  ASSUME FilesInv, [RNext]_rVars
  PROVE  FilesInv'
<1>1. CASE UNCHANGED rVars
  <2>1. UNCHANGED <<rows, files, dests, loop, pc, mem, births, decided, torn, reused, incidents>>
    BY <1>1 DEF rVars
  <2>2. NoEffect /\ RTypeOK'
    BY <2>1 DEF NoEffect, FilesInv, RTypeOK
  <2>3. BirthsKnown' /\ OpenRows' /\ PrunedMeansGone'
    BY <2>1 DEF FilesInv, BirthsKnown, OpenRows, PrunedMeansGone, Known, There, FileOf
  <2>4. RowReflectsFile'
    BY <2>1 DEF FilesInv, RowReflectsFile, Lost, IdsOf, FileOf
  <2> QED BY <2>1, <2>2, <2>3, <2>4, NoEffectKeeps, NobodyMoves DEF FilesInv
<1>2. CASE RNext
  <2>1. ASSUME NEW p \in Sweepers, StartSweep(p) \/ Sweep(p) PROVE FilesInv'
    BY <2>1, StartSweepStep, NextDestStep, NextDeviceStep, SweepTurns, CandidateStep, PrunesStep,
       MarkStep DEF Sweep
  <2>2. ASSUME NEW p \in Deleters, Deletion(p) \/ \E I \in SUBSET Ids : AskDelete(p, I)
        PROVE  FilesInv'
    BY <2>2, EraseFileStep, ErasesStep, CommitDeleteStep, AskDeleteStep DEF Deletion
  <2>3. ASSUME NEW i \in Ids, FinishBackup(i) \/ \E v \in Devices : NewBackup(i, v)
        PROVE  FilesInv'
    BY <2>3, FinishBackupStep, NewBackupStep
  <2>4. ASSUME NEW I \in SUBSET Ids, Purge(I) PROVE FilesInv'
    BY <2>4, PurgeStep
  <2>5. ASSUME NEW d \in Dests, DeleteDest(d) PROVE FilesInv'
    BY <2>5, DeleteDestStep
  <2>6. CASE Crash
    BY <2>6, CrashStep
  <2> QED BY <1>2, <2>1, <2>2, <2>3, <2>4, <2>5, <2>6 DEF RNext
<1> QED BY <1>1, <1>2

\* Every variable of Retention keeps its type.
THEOREM RetentionTypes == RSpec => []RTypeOK
<1>1. FilesInv /\ [RNext]_rVars => FilesInv'
  BY FilesStep
<1>2. FilesInv => RTypeOK
  BY DEF FilesInv
<1> QED BY <1>1, <1>2, FilesInit, PTL DEF RSpec

\* A row marked as pruned has lost its local file, unless its backup took a held id.
THEOREM PrunedGone == RSpec => []PrunedMeansGone
<1>1. FilesInv /\ [RNext]_rVars => FilesInv'
  BY FilesStep
<1>2. FilesInv => PrunedMeansGone
  BY DEF FilesInv
<1> QED BY <1>1, <1>2, FilesInit, PTL DEF RSpec

\* A successful row that is not marked has its file, whatever ids are given out again.
THEOREM RowsReflectFiles == RSpec => []RowReflectsFile
<1>1. FilesInv /\ [RNext]_rVars => FilesInv'
  BY FilesStep
<1>2. FilesInv => RowReflectsFile
  BY DEF FilesInv
<1> QED BY <1>1, <1>2, FilesInit, PTL DEF RSpec

\* A file leaves only after somebody decided so.
LEMMA FilesLeave ==
  ASSUME FilesInv, [RNext]_rVars, NEW f \in files \ files'
  PROVE  f[1] \in decided \union reused
<1>1. CASE UNCHANGED rVars
  BY <1>1 DEF rVars
<1>2. ASSUME NEW p \in Sweepers, StartSweep(p) \/ Sweep(p) PROVE f[1] \in decided \union reused
  <2>1. Prunes(p)
    BY <1>2 DEF StartSweep, Sweep, NextDest, EndSweep, NextDevice, LastDevice, GroupDone, Candidate,
         Mark, Missed
  <2>2. f = mem[p].file /\ pc[p] = "pruning"
    BY <2>1 DEF Prunes
  <2> QED BY <2>2 DEF FilesInv, SweepInv, DeletesFile
<1>3. ASSUME NEW p \in Deleters, Deletion(p) \/ \E I \in SUBSET Ids : AskDelete(p, I)
      PROVE  f[1] \in decided
  <2>1. Erases(p)
    BY <1>3 DEF Deletion, EraseFile, CommitDelete, AskDelete
  <2>2. f = mem[p].file /\ pc[p] = "erasing"
    BY <2>1 DEF Erases
  <2> QED BY <2>2 DEF FilesInv, EraseInv, FileOf
<1>4. ASSUME NEW i \in Ids, FinishBackup(i) \/ \E v \in Devices : NewBackup(i, v) PROVE FALSE
  BY <1>4 DEF FinishBackup, NewBackup
<1>5. ASSUME (\E I \in SUBSET Ids : Purge(I)) \/ (\E d \in Dests : DeleteDest(d)) \/ Crash PROVE FALSE
  BY <1>5 DEF Purge, DeleteDest, Crash
<1> QED BY <1>1, <1>2, <1>3, <1>4, <1>5 DEF RNext

\* No file leaves that no policy selected and nobody asked to delete, but that of a
\* backup which took a held id.
THEOREM LeaveByDecision == RSpec => FilesLeaveByDecision
<1>1. /\ FilesInv /\ [RNext]_rVars =>
           FilesInv' /\ [\A f \in files \ files' : f[1] \in decided \union reused]_rVars
  BY FilesStep, FilesLeave
<1> QED BY <1>1, FilesInit, PTL DEF RSpec, FilesLeaveByDecision
=============================================================================
