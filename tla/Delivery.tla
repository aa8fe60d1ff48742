------------------------------- MODULE Delivery -------------------------------
(***************************************************************************)
(* A file on its way to a Telegram chat: TelegramDestination.save and      *)
(* save_binary (app/modules/destinations/telegram.py), which send it in    *)
(* parts and repeat a failed request, inside the loop of                   *)
(* app/modules/backup_service.py, which repeats the whole save when        *)
(* classify_error (app/modules/retry_service.py) finds the error transient.*)
(*                                                                         *)
(* A step is one request with its answer, or with what came instead.  A    *)
(* document may have reached the chat although no answer did: the next     *)
(* request then sends it again.                                            *)
(***************************************************************************)
EXTENDS Integers, Sequences

CONSTANTS
  MaxAttempts,  \* BACKUP_RETRY_MAX_ATTEMPTS
  Tries,        \* retry_count of _upload_file_to_telegram
  MaxFile,      \* max_file_size_mb
  SplitSize,    \* split_size_mb
  Sizes,        \* sizes of the file
  Tokens        \* bot tokens, each as the rules its characters satisfy; see Text

ASSUME RetryAssumption == MaxAttempts \in Nat \ {0} /\ Tries \in Nat \ {0}
ASSUME SizeAssumption == MaxFile \in Nat /\ SplitSize \in Nat \ {0} /\ Sizes \subseteq Nat

VARIABLES
  size,   \* of the file, compressed or not
  token,  \* the bot token
  state,
  att,    \* attempt, the loop variable of the pipeline
  try,    \* attempt, the loop variable of one upload
  ids,    \* message_ids
  chat,   \* the documents in the chat; a message_id is a position
  cause,  \* last_error: what ended the last attempt that failed
  fix     \* auto_fix_applied_info

vars == <<size, token, state, att, try, ids, chat, cause, fix>>

-----------------------------------------------------------------------------
(* Parts *)

\* A file that is small enough goes as it is.
Fits == size <= MaxFile

\* Seeded fault: whole parts only.
WholeParts == IF Fits THEN 1 ELSE size \div SplitSize

\* math.ceil(total_size / chunk_size)
NumParts == IF Fits THEN 1 ELSE (size + SplitSize - 1) \div SplitSize

Bounds(i) == [from |-> (i - 1) * SplitSize,
              to |-> IF i * SplitSize <= size THEN i * SplitSize ELSE size]
Part(i) == IF Fits THEN [from |-> 0, to |-> size] ELSE Bounds(i)

Document == [from : Nat, to : Nat]

-----------------------------------------------------------------------------
(* Errors *)

\* The rules of classify_error in their order, each named for the type it gives.
Rules == <<"rate_limit", "auth_failure", "permission_denied", "invalid_config",
           "disk_full", "invalid_params", "smb_temporary", "network_timeout",
           "network_connection", "temporary_unavailable">>
Transient == {"rate_limit", "smb_temporary", "network_timeout", "network_connection",
              "temporary_unavailable"}

\* classify_error: an error is the set of rules that its text and class satisfy.
FirstRule(S) == CHOOSE i \in DOMAIN Rules : Rules[i] \in S /\ \A k \in 1 .. i - 1 : Rules[k] \notin S
Classify(S) == IF \E i \in DOMAIN Rules : Rules[i] \in S THEN Rules[FirstRule(S)] ELSE "unknown"

\* What can come instead of an answer.  "500" is any other status, "ReadError" also a
\* broken connection or answer, "429 dated" a Retry-After that is no number.
Statuses == {"403", "500", "502", "503", "504"}
Transport == {"ConnectError", "ConnectTimeout", "ReadTimeout", "WriteTimeout", "ReadError"}
Faults == Statuses \union Transport \union {"400", "401", "429", "429 dated", "not ok"}

\* Faults after which the document may be in the chat.
Lossy == {"ReadTimeout", "ReadError", "500", "502", "504"}
\* Exceptions raised by the handler itself leave the loop of the upload.
AtOnce == {"400", "401", "429 dated"}

\* The words of a status.
StatusText(f) ==
  CASE f = "403" -> {"permission_denied"}
    [] f = "500" -> {}
    [] f \in {"502", "503"} -> {"temporary_unavailable"}
    [] OTHER -> {"network_timeout", "temporary_unavailable"}

\* Seeded fault: the last try falls out of the loop, as it does for 429.
TextGeneric(f) == IF f \in AtOnce THEN {"invalid_config"} ELSE {}

\* The error that the pipeline sees when f has ended an attempt.  The text of an
\* HTTPStatusError has the address of the request in it, and so the bot token.  After a
\* last 429 it is "Upload failed after maximum retries".
Text(f) ==
  CASE f \in Statuses -> StatusText(f) \union token
    [] f = "400" -> {"invalid_config"}
    [] f = "401" -> {"auth_failure"}
    [] f = "429 dated" -> {"invalid_params"}
    [] f = "ConnectError" -> {"network_connection"}
    [] f \in {"ConnectTimeout", "ReadTimeout"} -> {"network_timeout"}
    [] OTHER -> {}

Retryable(f) == Classify(Text(f)) \in Transient

\* apply_auto_fix, as far as it goes for Telegram.
Fixed(f) ==
  IF "rate_limit" \in Text(f) THEN "rate_limit_cooldown"
  ELSE IF "network_timeout" \in Text(f) THEN "increase_timeout" ELSE fix

-----------------------------------------------------------------------------
(* Requests *)

TypeOK ==
  /\ size \in Sizes /\ token \in Tokens
  /\ state \in {"post", "saved", "failed"}
  /\ att \in 1 .. MaxAttempts /\ try \in 1 .. Tries
  /\ ids \in Seq(Nat) /\ chat \in Seq(Document)
  /\ cause \in Faults \union {"none"}
  /\ fix \in {"none", "rate_limit_cooldown", "increase_timeout"}

Init ==
  /\ size \in Sizes /\ token \in Tokens
  /\ state = "post" /\ att = 1 /\ try = 1
  /\ ids = <<>> /\ chat = <<>>
  /\ cause = "none" /\ fix = "none"

Sent == Append(chat, Part(Len(ids) + 1))

\* The answer has come; the save returns after the last part.
Uploaded ==
  /\ state = "post"
  /\ chat' = Sent
  /\ ids' = Append(ids, Len(chat) + 1)
  /\ try' = 1
  /\ state' = IF Len(ids) + 1 = NumParts THEN "saved" ELSE "post"
  /\ UNCHANGED <<size, token, att, cause, fix>>

Unanswered(f) ==
  /\ state = "post"
  /\ \/ UNCHANGED chat
     \/ f \in Lossy /\ chat' = Sent

\* The upload sleeps and sends the part again.
TriesAgain(f) ==
  /\ f \notin AtOnce /\ try < Tries /\ Unanswered(f)
  /\ try' = try + 1
  /\ UNCHANGED <<size, token, state, att, ids, cause, fix>>

\* The exception of f leaves the save.
AttemptFails(f) ==
  /\ f \in AtOnce \/ try = Tries
  /\ Unanswered(f)
  /\ cause' = f

\* Seeded fault: an attempt for which a fix was found does not count.
RetriesUncounted(f) ==
  /\ AttemptFails(f) /\ Retryable(f) /\ att < MaxAttempts
  /\ att' = (IF Fixed(f) = fix THEN att + 1 ELSE att)
  /\ try' = 1 /\ ids' = <<>> /\ fix' = (IF Fixed(f) = fix THEN fix ELSE "none")
  /\ UNCHANGED <<size, token, state>>

\* The pipeline applies a fix, sleeps, and begins the save anew.
Retries(f) ==
  /\ AttemptFails(f) /\ Retryable(f) /\ att < MaxAttempts
  /\ att' = att + 1 /\ try' = 1 /\ ids' = <<>> /\ fix' = Fixed(f)
  /\ UNCHANGED <<size, token, state>>

GivesUp(f) ==
  /\ AttemptFails(f) /\ ~(Retryable(f) /\ att < MaxAttempts)
  /\ state' = "failed"
  /\ UNCHANGED <<size, token, att, try, ids, fix>>

Next ==
  \/ Uploaded
  \/ \E f \in Faults : TriesAgain(f) \/ Retries(f) \/ GivesUp(f)

Spec == Init /\ [][Next]_vars

\* A request ends with an answer or after its timeout of 300 seconds, a sleep with its time.
FairSpec == Spec /\ WF_vars(Next)

-----------------------------------------------------------------------------
(* Properties *)

\* "download all parts and concatenate" (docs/TELEGRAM_DESTINATION.md:368): the messages
\* that a returned path names are in the chat and, one after the other, give the whole
\* file, however often parts were sent twice and attempts given up halfway.
PathReassembles ==
  state = "saved" =>
    /\ \A i \in 1 .. Len(ids) : ids[i] \in DOMAIN chat
    /\ Len(ids) > 0
    /\ chat[ids[1]].from = 0 /\ chat[ids[Len(ids)]].to = size
    /\ \A i \in 1 .. Len(ids) - 1 : chat[ids[i]].to = chat[ids[i + 1]].from

\* The faults that README.md:484-489 lists under "Retry Allowed": timeouts of the socket,
\* a connection refused or reset, rate limits, errors of a gateway.
Documented == Transport \union {"429", "429 dated", "502", "503", "504"}

\* Of these the errors in which classify_error does not recognize what the document calls
\* transient: a reset and a slow upload are exceptions of httpx without words and of a class
\* that no rule names; a rate limit that outlasts the tries of the upload no longer says
\* that it is one; and of a date in Retry-After only a ValueError is left.
Unrecognized == {"ReadError", "WriteTimeout", "429", "429 dated"}

\* Which faults are retried, through the two loops and the text of the exception between
\* them: the save begins anew only after one that the document calls transient, never after
\* one that it calls permanent or does not name; and it is given up before the last attempt
\* only after another one, or after one of the four that are not recognized, of which
\* nothing is demanded here: README.md:485-487 says of them too that they are retried, and
\* the code does not retry them.  For a token whose characters satisfy no rule.  A retry
\* after a timeout follows the fix for it.
RetriesFollowCause ==
  /\ token = {} /\ state # "failed" /\ att > 1 => cause \in Documented
  /\ token = {} /\ state = "failed" /\ att < MaxAttempts => cause \notin Documented \ Unrecognized
  /\ token = {} /\ state # "failed" /\ cause \in {"ConnectTimeout", "ReadTimeout"}
       => fix = "increase_timeout"

\* Whatever the server does, the save returns or fails: the tries inside and the attempts
\* outside come to an end.
Settles == <>(state # "post")
=============================================================================
