------------------------------- MODULE Engines -------------------------------
(***************************************************************************)
(* All engines: a call of fetch_config or fetch_binary as                  *)
(* run_backup_for_device makes it, and what may be said of it whatever the *)
(* engine.                                                                 *)
(***************************************************************************)
EXTENDS WebEngines, SshEngines

vars == <<callVars, webVars, sshVars>>

\* A call with the device and the credential of ENGINE_MAP's choice of engine.
Init ==
  /\ \/ engine \in WebKinds /\ dev \in WebDevices[engine] /\ pc = WebFirst[engine]
     \/ engine \in SshKinds /\ dev \in SshDevices[engine] /\ pc = "start"
  /\ result = "none" /\ faults = 0
  /\ scheme = "https" /\ session = FALSE
  /\ open = {} /\ line = "up" /\ idx = 0 /\ todo = <<>> /\ got = {}

Next ==
  \/ WebNext /\ UNCHANGED sshVars
  \/ SshNext /\ UNCHANGED webVars

\* The call is one task, or one thread, that the interpreter lets run; a fault is no duty,
\* but they are few.
Spec == Init /\ [][Next]_vars /\ WF_vars(Next)

-----------------------------------------------------------------------------
(* What the device and its credential amount to *)

Web == engine \in WebKinds
Done == pc = "done"
Returned == Done /\ result \in Texts
Undisturbed == faults = 0

\* Something answers where the device is said to be.
Reachable == IF engine = "oxidized" THEN TRUE ELSE IF Web THEN dev.speaks # "nothing" ELSE dev.up

\* pfSense answers the first request with the API, which is then the only way.
ByApi == engine = "pfsense" /\ dev.rest \in {"v1", "bare"}

\* A credential is refused by the device, the API or the jump host.
Refused ==
  \/ ByApi /\ ~dev.api
  \/ engine = "pfsense" /\ ~ByApi /\ dev.cred = "bad"
  \/ engine = "opnsense" /\ dev.rest = "v1" /\ dev.cred = "bad"
  \/ ~Web /\ HasJump /\ dev.jump = "bad"
  \/ ~Web /\ Offers /\ ~Broken /\ ~Taken

\* A credential has nothing to offer, or a key file that cannot be used.
Unusable == ~Web /\ (~Offers \/ Broken \/ (HasJump /\ dev.jump = "unusable"))

\* Where something that answers every request stands in for the API or for Oxidized.
PageThere == (engine = "opnsense" /\ dev.rest = "page") \/ (engine = "oxidized" /\ dev.known = "page")

\* The user may have the configuration.
Entitled ==
  /\ engine = "oxidized" => dev.known = "by name"
  /\ engine = "opnsense" => dev.rest = "v1"
  /\ engine \in {"pfsense", "opnsense"} => (dev.cred = "good" \/ (ByApi /\ dev.api)) /\ dev.priv = "yes"
  /\ engine = "netmiko" => dev.right \/ dev.secret = "good"
  /\ engine = "scp" => dev.right

\* The nodes that a walk can come to from n: those in every set of nodes that has n, and
\* with a directory that the user may list its entries.
Closed(S) == \A d \in S : IsDir(d) /\ d \notin dev.locked => {Entries[d][i] : i \in DOMAIN Entries[d]} \subseteq S
Below(n) == {m \in Nodes : \A S \in SUBSET Nodes : n \in S /\ Closed(S) => m \in S}

\* The files and links below a node that the user may read.
Readable(n) == {m \in Below(n) : ~IsDir(m) /\ m \notin dev.locked}

Wanted(i) == IF Paths[i] \in dev.absent THEN {} ELSE Readable(Paths[i])

Transient == {"network_timeout", "network_connection", "temporary_unavailable"}

-----------------------------------------------------------------------------
(* Properties *)

\* Of a pfSense a login page, a page of another kind or a form is never returned as the
\* configuration, although an error of the server passes for a login.  What any engine
\* returns is one that the user may have, or one of four answers that are none: JSON without
\* "data", what a device says to a command that it refuses, the None of a download that was
\* answered with neither 200 nor an error, and the page that stands at the address of the
\* API of an OPNsense or of Oxidized, where any 200 is taken (pfsense_engine.py
\* _fetch_pfsense_config and _fetch_opnsense_config, netmiko_engine.py, oxidized_engine.py).
FetchedIsConfig ==
  Done =>
    /\ result \in {"config", "archive"} => Entitled
    /\ result = "page" => PageThere
    /\ result = "json" => engine = "pfsense" /\ dev.rest = "bare"
    /\ result = "refusal" => engine = "netmiko" /\ ~Entitled
    /\ result = "nothing" => engine = "pfsense" /\ ~Undisturbed

\* An archive has every file and link below the paths that the user may read, unless the
\* connection was lost in the last path: a loss before is noticed at the next one
\* (proxmox_engine.py _collect_tgz).
ArchiveComplete ==
  Returned /\ engine = "proxmox" =>
    /\ \A i \in 1 .. Len(Paths) - 1 : Wanted(i) \subseteq got
    /\ line = "up" => Wanted(Len(Paths)) \subseteq got

\* The type that the record of a failure keeps tells its cause: auth_failure that a
\* credential was refused or of no use, or that a connection was lost before anything was
\* asked of the device, or that no token was found in the login page, or that the API did
\* not answer and the web login does not take the credential of the API; a transient one
\* that something failed which may be there the next time, but for four exceptions of
\* Netmiko, which calls timeouts also a prompt that it does not find, an enable secret that
\* does not work, a key file of no use and a credential without anything to offer; and
\* where nothing else is wrong a refused credential is reported as one (retry_service.py
\* classify_error, of what the engines raise).
TypeTellsCause ==
  Done =>
    /\ result = "auth_failure" =>
         \/ Refused \/ Unusable
         \/ ~Web /\ ~Undisturbed /\ idx = 0
         \/ engine = "pfsense" /\ (~dev.token \/ (~Undisturbed /\ dev.cred = "bad"))
    /\ result \in Transient =>
         \/ ~Undisturbed \/ ~Reachable
         \/ engine = "netmiko" /\ (Unusable \/ dev.secret = "bad" \/ dev.prompt # "found")
    /\ Undisturbed /\ Reachable /\ Refused /\ dev.cred # "nouser" /\ (engine = "pfsense" => dev.token) /\ ~Unusable
         => result = "auth_failure"

\* Once the login is through all connections are closed, whatever happens then; a call
\* that leaves one open has failed before (netmiko_engine.py _connect_and_fetch,
\* scp_engine.py _scp_fetch, proxmox_engine.py _fetch_tgz).
ClosesConnections ==
  Done /\ open # {} =>
    /\ result \notin Texts /\ idx = 0
    /\ open = {"jump"} \/ (engine = "scp" /\ "device" \in open)

\* Where nothing changes between the two, what can be fetched passes the test of the
\* connection, and what passes the test can be fetched, but for what the test does not
\* look at: the page at the address of the API, what the backup page is, enable and the
\* prompt behind a command, the file, a path of Proxmox that the user may not look at, the
\* name under which Oxidized has the device, and the page that is fetched from another
\* server in the place of Oxidized and is no list of nodes.
TestTellsFetch ==
  Done /\ Undisturbed =>
    LET tested == IF Web THEN WebTests ELSE SshTests
    IN  /\ result \in Texts => tested \/ (engine = "oxidized" /\ result = "page")
        /\ tested /\ result \notin Texts =>
             \/ engine = "pfsense" /\ (dev.rest = "page" \/ dev.priv = "page")
             \/ engine = "netmiko" /\ (dev.secret = "bad" \/ dev.prompt = "lost")
             \/ engine = "scp" /\ ~dev.right
             \/ engine = "proxmox" /\ dev.barred # {}
             \/ engine = "oxidized" /\ dev.known = "by ip"

\* A call ends, by an answer, an exception or a timeout of its own, unless a peer falls
\* silent that is read over SFTP, where nothing waits for a limited time.
FetchEnds == <>(Done \/ (line = "silent" /\ engine # "netmiko"))
=============================================================================
