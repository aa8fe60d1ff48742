------------------------------ MODULE WebEngines ------------------------------
(***************************************************************************)
(* The engines that ask a web server: PfSenseEngine for pfSense and        *)
(* OPNsense (app/modules/engines/pfsense_engine.py), OxidizedEngine        *)
(* (app/modules/engines/oxidized_engine.py).                               *)
(*                                                                         *)
(* A step is one request with its answer, or with what came instead.       *)
(***************************************************************************)
EXTENDS EngineCall

VARIABLES
  scheme,   \* of the request in _try_request, later of actual_base
  session   \* the login was accepted: the cookie is good

webVars == <<scheme, session>>

WebKinds == {"pfsense", "opnsense", "oxidized"}

\* speaks: the protocol at the port, of which there is one; rest: what answers at the
\* address of the REST API: nothing (404), a page, the API, or one without "data";
\* api: it takes the credential; cred: the web login does; priv: the user may back up,
\* gets a 403, or another page; token: the pages have one that is found.
Firewalls ==
  [speaks : {"https", "http", "nothing"}, rest : {"404", "page", "v1", "bare"},
   api : BOOLEAN, cred : {"good", "bad", "nouser"}, priv : {"yes", "403", "page"},
   token : BOOLEAN]

-----------------------------------------------------------------------------
(* Requests *)

NoConnection == {"ConnectError", "ConnectTimeout"}
Transport == NoConnection \union {"ReadTimeout"}
Statuses == {"400", "500", "503"}

\* A request with scheme s as the server takes it.
Natural(s) ==
  IF dev.speaks = "nothing" THEN NoConnection
  ELSE IF s = dev.speaks THEN {"answer"}
  ELSE IF s = "https" THEN {"ConnectError"} ELSE {"400"}

Sends(o) ==
  \/ o \in Natural(scheme) /\ NoFault
  \/ o \in Transport \union {"500", "503"} /\ Fault

\* Seeded fault: every attempt that finds no connection is followed by another.
RetriedAlways(o) == o \in NoConnection

\* _try_request goes on without TLS.
Retried(o) == scheme = "https" /\ o \in NoConnection

TriesHttp(o) ==
  /\ pc \in {"rest", "page", "opnsense"} /\ Retried(o) /\ Sends(o)
  /\ scheme' = "http" /\ UNCHANGED <<engine, dev, pc, result, session>>

\* _try_request returns an answer, or raises.
Tried(o) == Sends(o) /\ ~Retried(o)

\* The type of the exception that fetch_config raises for the other outcomes; what httpx
\* raises for a slow answer has no words, and its class is lost.
Type(o) ==
  CASE o = "ConnectError" -> "network_connection"
    [] o = "ConnectTimeout" -> "network_timeout"
    [] o = "400" -> "invalid_config"
    [] o = "503" -> "temporary_unavailable"
    [] OTHER -> "unknown"

-----------------------------------------------------------------------------
(* pfSense *)

\* A credential without a name is an exception before the first request.
NoName ==
  /\ pc = "rest" /\ engine = "pfsense" /\ dev.cred = "nouser" /\ Ends("unknown")
  /\ NoFault /\ UNCHANGED <<engine, dev, webVars>>

\* Seeded fault: whatever the API refuses is tried with the pages.
RestRefusedTriesOn ==
  IF dev.rest \in {"404", "page"} \/ ~dev.api \/ dev.priv # "yes" THEN "page"
  ELSE IF dev.rest = "v1" THEN "config" ELSE "json"

\* A page is no JSON, and the next step as a 404 is.
RestResult ==
  IF dev.rest \in {"404", "page"} THEN "page"
  ELSE IF ~dev.api THEN "auth_failure"
  ELSE IF dev.priv # "yes" THEN "permission_denied"
  ELSE IF dev.rest = "v1" THEN "config" ELSE "json"

Rest(o) ==
  /\ pc = "rest" /\ dev.cred # "nouser" /\ Tried(o)
  /\ IF o = "answer" /\ RestResult # "page"
       THEN Ends(RestResult) /\ UNCHANGED scheme
       ELSE Goto("page") /\ scheme' = "https"
  /\ UNCHANGED <<engine, dev, session>>

\* GET /index.php: actual_base is where the page came from.
LoginPage(o) ==
  /\ pc = "page" /\ Tried(o)
  /\ IF o = "answer" THEN Goto("login") ELSE Ends(Type(o))
  /\ UNCHANGED <<engine, dev, webVars>>

\* POST /index.php.  The status is looked at for 403 only: an error of the server is not
\* a login page, and passes for a login.
Login(o) ==
  /\ pc = "login" /\ Sends(o)
  /\ \/ o = "answer" /\ ~dev.token /\ Ends("permission_denied") /\ UNCHANGED session
     \/ o = "answer" /\ (~dev.token \/ dev.cred = "bad") /\ Ends("auth_failure") /\ UNCHANGED session
     \/ o = "answer" /\ dev.token /\ dev.cred = "good" /\ Goto("backup page") /\ session' = TRUE
     \/ o \in Statuses /\ Goto("backup page") /\ UNCHANGED session
     \/ o \in Transport /\ Ends(Type(o)) /\ UNCHANGED session
  /\ UNCHANGED <<engine, dev, scheme>>

\* GET /diag_backup.php.  Who is not logged in is shown the login page.
BackupPage(o) ==
  /\ pc = "backup page" /\ Sends(o)
  /\ \/ o = "answer" /\ session /\ dev.priv = "403" /\ Ends("permission_denied")
     \/ o = "answer" /\ (session => dev.priv # "403")
        /\ IF dev.token THEN Goto("download") ELSE Ends("unknown")
     \/ o # "answer" /\ Ends(Type(o))
  /\ UNCHANGED <<engine, dev, webVars>>

\* Seeded fault: the answer is not looked at.
NotLookedAt == TRUE

\* "<?xml" at the beginning of the answer.
IsXml == session /\ dev.priv = "yes"

\* POST /diag_backup.php.  Any other status below 400 is the end of the function.
Download(o) ==
  /\ pc = "download"
  /\ \/ Sends(o) /\ Ends(IF o # "answer" THEN Type(o) ELSE IF IsXml THEN "config" ELSE "unknown")
     \/ o = "204" /\ Fault /\ Ends("nothing")
  /\ UNCHANGED <<engine, dev, webVars>>

-----------------------------------------------------------------------------
(* OPNsense and Oxidized *)

\* An answer of 200 is returned unseen, also the page that a redirection led to.
OpnsenseAnswer ==
  IF dev.rest # "v1" THEN (IF dev.rest = "page" THEN "page" ELSE "unknown")
  ELSE IF dev.cred = "bad" THEN "auth_failure"
  ELSE IF dev.priv # "yes" THEN "permission_denied" ELSE "config"

Opnsense(o) ==
  /\ pc = "opnsense" /\ dev.cred # "nouser" /\ Tried(o)
  /\ Ends(IF o = "answer" THEN OpnsenseAnswer ELSE Type(o))
  /\ UNCHANGED <<engine, dev, webVars>>

\* A name of None cannot be sent.
NoKey ==
  /\ pc = "opnsense" /\ dev.cred = "nouser" /\ Ends("unknown")
  /\ NoFault /\ UNCHANGED <<engine, dev, webVars>>

\* An answer of 200 is returned unseen here too.  Nothing is wrapped: the class of the
\* exception keeps its name.
Oxidized(o) ==
  /\ pc = "oxidized"
  /\ \/ NoFault /\ o = "answer" /\ Ends(IF dev.known = "by name" THEN "config"
                                     ELSE IF dev.known = "page" THEN "page" ELSE "invalid_params")
     \/ Fault /\ o \in Transport \union {"500", "503"}
        /\ Ends(IF o = "ReadTimeout" THEN "network_timeout" ELSE Type(o))
  /\ UNCHANGED <<engine, dev, webVars>>

-----------------------------------------------------------------------------

\* The credential of an OPNsense is that of its API, and it has no pages to log in to; known:
\* how Oxidized has the device, or that another server answers every request with a page.
WebDevices ==
  [pfsense |-> Firewalls,
   opnsense |-> {d \in Firewalls : d.rest # "bare" /\ d.priv # "page" /\ d.api /\ d.token},
   oxidized |-> [known : {"by name", "by ip", "no", "page"}]]

WebFirst == [pfsense |-> "rest", opnsense |-> "opnsense", oxidized |-> "oxidized"]

Outcomes == Transport \union Statuses \union {"answer", "204"}

WebNext ==
  /\ engine \in WebKinds
  /\ \/ NoName \/ NoKey
     \/ \E o \in Outcomes :
          TriesHttp(o) \/ Rest(o) \/ LoginPage(o) \/ Login(o) \/ BackupPage(o) \/ Download(o)
          \/ Opnsense(o) \/ Oxidized(o)

\* Seeded fault: the test ends with the login.
PfSenseTestsLogin ==
  \/ dev.rest = "page"
  \/ dev.rest \in {"v1", "bare"} /\ dev.api /\ dev.priv = "yes"
  \/ dev.rest = "404" /\ dev.token /\ dev.cred = "good"

\* test_connection, of a device that answers.  A page at the address of the REST API is
\* taken for the API, and no login is needed for it.
PfSenseTests ==
  \/ dev.rest = "page"
  \/ dev.rest \in {"v1", "bare"} /\ dev.api /\ dev.priv = "yes"
  \/ dev.rest = "404" /\ dev.token /\ dev.cred = "good" /\ dev.priv # "403"

\* Any answer of 200 at the address of the backup will do.
OpnsenseTests == dev.rest = "page" \/ (dev.rest = "v1" /\ dev.cred = "good" /\ dev.priv = "yes")

WebTests ==
  IF engine = "oxidized" THEN dev.known \in {"by name", "by ip"}
  ELSE /\ dev.speaks # "nothing" /\ dev.cred # "nouser"
       /\ IF engine = "opnsense" THEN OpnsenseTests ELSE PfSenseTests
=============================================================================
