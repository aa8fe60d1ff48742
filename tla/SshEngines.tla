------------------------------ MODULE SshEngines ------------------------------
(***************************************************************************)
(* The engines that log in over SSH: NetmikoEngine, SCPEngine and          *)
(* ProxmoxEngine (app/modules/engines/), with the jump host that the first *)
(* two may go through and the credentials of ssh_auth.py.                  *)
(*                                                                         *)
(* A step is one call of a library.  A connection may break, which the     *)
(* next call notices, or fall silent.                                      *)
(***************************************************************************)
EXTENDS EngineCall, FiniteSets

CONSTANTS
  Commands,  \* number of commands of the device type
  Paths,     \* PROXMOX_BACKUP_PATHS, a sequence
  Entries    \* directory -> the sequence of its entries; what is not here is a file or a link

ASSUME CommandAssumption == Commands \in Nat \ {0}

VARIABLES
  open,   \* connections that were opened and not closed again; what a connect that
          \* raises leaves behind is its library's
  line,   \* the connection to the device: "up", "lost" or "silent"
  idx,    \* commands that were answered, paths that were begun
  todo,   \* Proxmox: what is left of the path, in the order of the walk
  got     \* Proxmox: collected

sshVars == <<open, line, idx, todo, got>>

SshKinds == {"netmiko", "scp", "proxmox"}

Nodes == {Paths[i] : i \in DOMAIN Paths} \union UNION {{Entries[d][i] : i \in DOMAIN Entries[d]} : d \in DOMAIN Entries}
IsDir(n) == n \in DOMAIN Entries

ASSUME PathAssumption ==
  /\ Paths \in Seq(Nodes) /\ Paths # <<>>
  /\ \A d \in DOMAIN Entries : Entries[d] \in Seq(Nodes)

\* up: the device can be reached; jump: there is a jump host, which takes its credential or
\* not, or whose credential has no name, nothing to offer or an unreadable key; cred: what
\* the credential offers is taken, refused, a key file that cannot be used, or nothing, or
\* there is no name; for SCP that is the password, and key is tried before it; right: the
\* user may read the configuration; secret: for enable; prompt: it is found, is not, or not
\* any more after a command; absent, barred, locked: paths that are not there, that the user
\* may not look at, and nodes that he may not read.
SshDevices ==
  [netmiko |-> [up : BOOLEAN, jump : {"none", "good", "bad", "unusable"},
                cred : {"good", "bad", "broken", "nothing", "nouser"}, right : BOOLEAN,
                secret : {"none", "good", "bad"}, prompt : {"found", "lost", "none"}],
   scp |-> [up : BOOLEAN, jump : {"none", "good", "bad", "unusable"},
            cred : {"good", "bad", "nothing", "nouser"},
            key : {"none", "good", "refused", "broken"}, right : BOOLEAN],
   proxmox |-> [up : BOOLEAN, cred : {"good", "bad", "broken", "nothing", "nouser"},
                absent : SUBSET {Paths[i] : i \in DOMAIN Paths},
                barred : SUBSET {Paths[i] : i \in DOMAIN Paths}, locked : SUBSET Nodes]]

HasJump == engine # "proxmox" /\ dev.jump # "none"

\* The credential of the device: there is something to try; the file of its key is of no use;
\* it is taken.
Offers == dev.cred # "nothing" \/ (engine = "scp" /\ dev.key # "none")
Broken == IF engine = "scp" THEN dev.key = "broken" ELSE dev.cred = "broken"
Taken == IF engine = "scp" THEN dev.key = "good" \/ (dev.cred = "good" /\ ~Broken) ELSE dev.cred = "good"

\* The exceptions of a login that does not succeed.  "No authentication methods" is a failure
\* of the authentication to classify_error; Netmiko takes the errors of paramiko and of the
\* file system for a timeout.
Rejections ==
  {t \in {"auth_failure", "permission_denied", "unknown", "network_timeout"} :
     \/ t = "auth_failure" /\ ~(engine = "scp" /\ Broken)
     \/ t \in {"permission_denied", "unknown"} /\ Broken
     \/ t = "network_timeout" /\ engine = "netmiko" /\ (Broken \/ ~Offers)}

\* A connection that is lost during the login is, to paramiko, an authentication that failed,
\* if it does not say what happened.
LostLogin == {"auth_failure", "network_timeout", "network_connection", "unknown"}

-----------------------------------------------------------------------------
(* Connections *)

\* The exceptions of a host that cannot be reached.
Unreachable == IF engine = "netmiko" THEN {"network_timeout"}
               ELSE {"network_timeout", "network_connection", "unknown"}

\* Seeded fault: no finally around what is done with the connections.
AllStayOpen == UNCHANGED open

\* The finally blocks: all that is open, once the function that opens them has returned.
Close == open' = {}

Same == UNCHANGED <<engine, dev>>
Data == UNCHANGED <<idx, todo, got>>

\* Before anything is opened.  The first of these is not wrapped.
NoUser ==
  /\ pc = "start" /\ dev.cred = "nouser" /\ Ends(IF engine = "netmiko" THEN "invalid_params" ELSE "unknown")
  /\ NoFault /\ Same /\ UNCHANGED sshVars

Start ==
  /\ pc = "start" /\ dev.cred # "nouser"
  /\ Goto(IF HasJump THEN "jump" ELSE "connect")
  /\ NoFault /\ Same /\ UNCHANGED sshVars

\* _open_proxy: jump.connect.  The credential is that of the device if it has none of its own.
Jump ==
  /\ pc = "jump" /\ Same /\ Data /\ UNCHANGED line
  /\ \/ dev.jump = "good" /\ NoFault /\ Goto("channel") /\ open' = {"jump"}
     \/ dev.jump = "bad" /\ NoFault /\ UNCHANGED open /\ Ends("auth_failure")
     \/ /\ dev.jump = "unusable" /\ NoFault /\ UNCHANGED open
        /\ \E t \in {"auth_failure", "permission_denied", "unknown"} : Ends(t)
     \/ Fault /\ UNCHANGED open /\ \E t \in LostLogin : Ends(t)

\* _open_proxy: open_channel.  The caller has no jump to close when it raises.
Channel ==
  /\ pc = "channel" /\ Same /\ Data /\ UNCHANGED line
  /\ \/ dev.up /\ NoFault /\ Goto("connect") /\ open' = open \union {"channel"}
     \/ ~dev.up /\ NoFault /\ Ends("unknown") /\ UNCHANGED open
     \/ Fault /\ (\E t \in LostLogin \ {"auth_failure"} : Ends(t)) /\ UNCHANGED open

\* ConnectHandler looks for the prompt of the device when it is logged in.
Prompts == engine = "netmiko" => dev.prompt # "none"

\* ConnectHandler and client.connect, which log in, or the socket of paramiko.Transport,
\* which has one already behind a jump host.
Connect ==
  /\ pc = "connect" /\ Same /\ Data /\ UNCHANGED line
  /\ \/ /\ dev.up /\ NoFault /\ (engine = "scp" \/ (Taken /\ Prompts))
        /\ Goto(IF engine = "scp" THEN "auth" ELSE "login") /\ open' = open \union {"device"}
     \/ dev.up /\ NoFault /\ engine # "scp" /\ ~Taken /\ (\E t \in Rejections : Ends(t)) /\ Close
     \/ /\ dev.up /\ NoFault /\ Taken /\ ~Prompts
        /\ (\E t \in {"network_timeout", "unknown"} : Ends(t)) /\ Close
     \/ ~dev.up /\ NoFault /\ (\E t \in Unreachable : Ends(t)) /\ Close
     \/ /\ Fault /\ ~(engine = "scp" /\ HasJump)
        /\ (\E t \in (IF engine = "scp" THEN Unreachable ELSE LostLogin) : Ends(t)) /\ Close

\* connect_transport: require_ssh_auth, then the key, then the password.  Neither the
\* transport nor the jump host is closed when it raises.
Authenticates ==
  /\ pc = "auth" /\ NoFault /\ Same /\ Data /\ UNCHANGED <<open, line>>
  /\ \/ line = "up" /\ Taken /\ Goto("login")
     \/ ~Taken /\ \E t \in Rejections : Ends(t)
     \/ line # "up" /\ ~Broken /\ Offers /\ \E t \in LostLogin : Ends(t)

\* What may go wrong once the device has let the engine in.
Breaks ==
  /\ "device" \in open /\ pc # "done" /\ line = "up" /\ Fault
  /\ line' \in {"lost", "silent"}
  /\ Same /\ Data /\ UNCHANGED <<pc, result, open>>

\* A request of SFTP waits for a silent peer without end, Netmiko for two minutes, and then
\* recommends to increase the read_timeout.
Raises(t) ==
  \/ line = "lost" /\ t \in {"unknown", "network_connection"}
  \/ line # "up" /\ engine = "netmiko" /\ t = "network_timeout"
  \/ line = "silent" /\ engine = "netmiko" /\ pc = "login" /\ t = "unknown"

\* The next step asks the device for something.
Asks ==
  \/ pc = "login" /\ (engine = "netmiko" => dev.secret # "none")
  \/ pc = "command" /\ idx < Commands
  \/ pc = "get"
  \/ pc = "path" /\ idx < Len(Paths)

CallFails ==
  /\ Asks /\ (\E t \in LostLogin : Raises(t) /\ Ends(t)) /\ Close
  /\ NoFault /\ Same /\ Data /\ UNCHANGED line

\* The channel of SFTP is given up after an hour, the subsystem on it is not.
ChannelFails ==
  /\ engine # "netmiko" /\ pc = "login" /\ line = "silent" /\ Ends("network_timeout") /\ Close
  /\ NoFault /\ Same /\ Data /\ UNCHANGED line

-----------------------------------------------------------------------------
(* Netmiko, SCP *)

\* enable, with a secret; then the commands, each of which waits for the prompt.
Netmiko ==
  /\ engine = "netmiko" /\ (Asks => line = "up") /\ NoFault /\ Same /\ UNCHANGED <<line, todo, got>>
  /\ \/ /\ pc = "login" /\ dev.secret = "bad" /\ UNCHANGED idx /\ Close
        /\ \E t \in {"unknown", "network_timeout"} : Ends(t)
     \/ pc = "login" /\ dev.secret # "bad" /\ Goto("command") /\ UNCHANGED <<idx, open>>
     \/ /\ pc = "command" /\ idx < Commands /\ dev.prompt = "lost"
        /\ Ends("network_timeout") /\ UNCHANGED idx /\ Close
     \/ /\ pc = "command" /\ idx < Commands /\ dev.prompt = "found" /\ idx' = idx + 1
        /\ Goto("command") /\ UNCHANGED open
     \/ /\ pc = "command" /\ idx = Commands /\ UNCHANGED idx /\ Close
        /\ Ends(IF dev.right \/ dev.secret = "good" THEN "config" ELSE "refusal")

\* from_transport, then the file runConfig.
Scp ==
  /\ engine = "scp" /\ line = "up" /\ NoFault /\ Same /\ Data /\ UNCHANGED line
  /\ \/ pc = "login" /\ Goto("get") /\ UNCHANGED open
     \/ pc = "get" /\ Ends(IF dev.right THEN "config" ELSE "unknown") /\ Close

-----------------------------------------------------------------------------
(* Proxmox *)

\* open_sftp
OpenSftp ==
  /\ engine = "proxmox" /\ pc = "login" /\ line = "up" /\ Goto("path")
  /\ NoFault /\ Same /\ Data /\ UNCHANGED <<open, line>>

\* Seeded fault: any exception of lstat.
SkippedOnError(p) == line = "lost" \/ p \in dev.absent

\* FileNotFoundError: only a path that is not there is left out.
Skipped(p) == line = "up" /\ p \in dev.absent

\* lstat of the next path.  A user who may not search the directory of the path is told so,
\* and the error is not caught.
NextPath ==
  /\ pc = "path" /\ idx < Len(Paths) /\ idx' = idx + 1
  /\ LET p == Paths[idx + 1]
     IN  \/ Skipped(p) /\ p \notin dev.barred /\ Goto("path") /\ UNCHANGED <<todo, open>>
         \/ /\ line = "up" /\ p \notin dev.absent \union dev.barred
            /\ Goto("walk") /\ todo' = <<p>> /\ UNCHANGED open
         \/ line = "up" /\ p \in dev.barred /\ Ends("permission_denied") /\ UNCHANGED todo /\ Close
  /\ NoFault /\ Same /\ UNCHANGED <<line, got>>

Listed(n) == Entries[n] \o Tail(todo)

\* _add_dir_tar, _add_file_tar, _add_symlink_tar: an exception is a warning.
Walk ==
  /\ pc = "walk" /\ todo # <<>> /\ line # "silent"
  /\ LET n == Head(todo)
         readable == line = "up" /\ n \notin dev.locked
     IN  /\ todo' = IF readable /\ IsDir(n) THEN Listed(n) ELSE Tail(todo)
         /\ got' = IF readable /\ ~IsDir(n) THEN got \union {n} ELSE got
  /\ UNCHANGED <<pc, result, open, line, idx>> /\ NoFault /\ Same

Walked ==
  /\ pc = "walk" /\ todo = <<>> /\ Goto("path")
  /\ NoFault /\ Same /\ Data /\ UNCHANGED <<open, line>>

\* After the last path nothing is asked of the node any more.
Packed ==
  /\ pc = "path" /\ idx = Len(Paths) /\ Ends("archive") /\ Close
  /\ NoFault /\ Same /\ Data /\ UNCHANGED line

-----------------------------------------------------------------------------

SshNext ==
  /\ engine \in SshKinds
  /\ \/ NoUser \/ Start \/ Jump \/ Channel \/ Connect \/ Authenticates \/ Breaks \/ CallFails \/ ChannelFails
     \/ Netmiko \/ Scp \/ OpenSftp \/ NextPath \/ Walk \/ Walked \/ Packed

\* test_connection of a device that answers: it goes as far as the login.
SshTests == dev.cred # "nouser" /\ dev.up /\ (HasJump => dev.jump = "good") /\ Taken /\ Prompts
=============================================================================
