---------------------------- MODULE EnginesProofs ----------------------------
(***************************************************************************)
(* What holds of a call of an engine for every number of faults and of     *)
(* commands, every list of paths and every tree below them.                *)
(*                                                                         *)
(* The state of a call says which way it came.  WebAt tells for each page  *)
(* what must have been answered on the way to it, SshAt for each step      *)
(* behind the login that the device, the jump host and the credential are  *)
(* good.  With that, every ending has the properties of Engines.           *)
(*                                                                         *)
(* The archive has an invariant of its own, ArchiveAt: what can be read of *)
(* the path is collected or still below a node that is left to visit.      *)
(***************************************************************************)
EXTENDS Engines, TLAPS

-----------------------------------------------------------------------------
(* Web servers *)

\* The requests of the web login.
PagePcs == {"page", "login", "backup page", "download"}
\* A page behind the login page was asked for with the protocol that the server speaks; the
\* pages are tried of a server with an API only after a fault, and come behind a login or one.
WebAt ==
  /\ pc \in {"rest"} \union PagePcs => engine = "pfsense"
  /\ pc \in {"opnsense", "oxidized"} => engine = pc
  /\ dev \in WebDevices[engine]
  /\ open = {} /\ session \in BOOLEAN
  /\ session => engine = "pfsense" /\ dev.cred = "good" /\ dev.token
  /\ scheme \in {"http", "https"}
  /\ pc \in {"rest", "page", "opnsense"} /\ scheme = "http" => dev.speaks # "https" \/ ~Undisturbed
  /\ pc \in PagePcs => dev.cred # "nouser"
  /\ pc \in PagePcs /\ dev.rest \in {"v1", "bare"} /\ Undisturbed => pc = "page" /\ dev.speaks = "nothing"
  /\ pc \in PagePcs \ {"page"} => scheme = dev.speaks
  /\ pc \in {"backup page", "download"} => session \/ ~Undisturbed

\* What is to be proved of both.
CallKept == FetchedIsConfig /\ TypeTellsCause /\ ClosesConnections /\ TestTellsFetch

WebInv ==
  /\ engine \in WebKinds /\ faults \in Nat
  /\ pc # "done" => result = "none"
  /\ WebAt /\ CallKept


\* The only arithmetic of a call.
LEMMA FaultsAreCounted ==
  ASSUME faults \in Nat, Fault \/ NoFault
  PROVE  /\ faults' \in Nat /\ (Undisturbed' => Undisturbed)
         /\ Fault => ~Undisturbed'
         /\ NoFault => Undisturbed' = Undisturbed
BY FaultAssumption DEF Fault, NoFault, Undisturbed

\* Without a fault a request fails only where nothing answers, or speaks another protocol.
LEMMA Answered ==
  ASSUME dev \in Firewalls, scheme \in {"http", "https"}, faults \in Nat, NEW o, Sends(o)
  PROVE  /\ o \in {"answer", "ConnectError", "ConnectTimeout", "ReadTimeout", "400", "500", "503"}
         /\ faults' \in Nat /\ (Undisturbed' => Undisturbed)
         /\ o = "answer" => Undisturbed' = Undisturbed /\ scheme = dev.speaks
         /\ o # "answer" /\ Undisturbed' =>
               \/ dev.speaks = "nothing" /\ o \in NoConnection
               \/ scheme = "https" /\ dev.speaks = "http" /\ o = "ConnectError"
               \/ scheme = "http" /\ dev.speaks = "https" /\ o = "400"
<1>1. CASE o \in Natural(scheme) /\ NoFault
  <2>1. CASE dev.speaks = "nothing"
    BY <1>1, <2>1, FaultsAreCounted DEF Natural, NoConnection
  <2>2. CASE dev.speaks # "nothing" /\ scheme = dev.speaks
    BY <1>1, <2>2, FaultsAreCounted DEF Natural
  <2>3. CASE dev.speaks # "nothing" /\ scheme # dev.speaks
    <3>1. dev.speaks \in {"http", "https"} BY <2>3 DEF Firewalls
    <3>2. o = IF scheme = "https" THEN "ConnectError" ELSE "400"
      BY <1>1, <2>3 DEF Natural
    <3> QED BY <1>1, <2>3, <3>1, <3>2, FaultsAreCounted
  <2> QED BY <2>1, <2>2, <2>3
<1>2. CASE o \in Transport \union {"500", "503"} /\ Fault
  BY <1>2, FaultsAreCounted DEF Transport, NoConnection
<1> QED BY <1>1, <1>2 DEF Sends

LEMMA FirewallType ==
  ASSUME dev \in Firewalls
  PROVE  /\ dev.speaks \in {"https", "http", "nothing"} /\ dev.rest \in {"404", "page", "v1", "bare"}
         /\ dev.api \in BOOLEAN /\ dev.cred \in {"good", "bad", "nouser"}
         /\ dev.priv \in {"yes", "403", "page"} /\ dev.token \in BOOLEAN
BY DEF Firewalls

LEMMA DeviceType ==
  ASSUME engine \in WebKinds, dev \in WebDevices[engine]
  PROVE  /\ engine \in {"pfsense", "opnsense"} => dev \in Firewalls
         /\ engine = "oxidized" => dev \in [known : {"by name", "by ip", "no", "page"}]
<1>1. CASE engine = "pfsense" BY <1>1 DEF WebDevices
<1>2. CASE engine = "opnsense" BY <1>2 DEF WebDevices
<1>3. CASE engine = "oxidized" BY <1>3 DEF WebDevices
<1> QED BY <1>1, <1>2, <1>3 DEF WebKinds

LEMMA RestRefuses ==
  ASSUME dev \in Firewalls
  PROVE  \/ RestResult = "page" /\ dev.rest \in {"404", "page"}
         \/ RestResult = "auth_failure" /\ dev.rest \in {"v1", "bare"} /\ ~dev.api
         \/ RestResult = "permission_denied" /\ dev.rest \in {"v1", "bare"} /\ dev.api /\ dev.priv # "yes"
         \/ RestResult = "config" /\ dev.rest = "v1" /\ dev.api /\ dev.priv = "yes"
         \/ RestResult = "json" /\ dev.rest = "bare" /\ dev.api /\ dev.priv = "yes"
BY FirewallType DEF RestResult

Types == {"network_connection", "network_timeout", "invalid_config", "temporary_unavailable", "unknown"}

LEMMA TypeOf ==
  ASSUME NEW o
  PROVE  Type(o) \in Types
BY DEF Type, Types

\* _try_request fails without a fault only where nothing answers.
LEMMA TriedAnswered ==
  ASSUME WebInv, engine # "oxidized", pc \in {"rest", "page", "opnsense"}, NEW o, Tried(o)
  PROVE  /\ faults' \in Nat /\ (Undisturbed' => Undisturbed)
         /\ o = "answer" => Undisturbed' = Undisturbed /\ scheme = dev.speaks
         /\ o # "answer" /\ Undisturbed' => Undisturbed /\ dev.speaks = "nothing"
<1>1. dev \in Firewalls /\ faults \in Nat /\ scheme \in {"http", "https"}
  BY DeviceType DEF WebInv, WebAt, WebKinds
<1>2. Sends(o) /\ (scheme = "https" => o \notin NoConnection)
  BY DEF Tried, Retried
<1>3. scheme = "http" => dev.speaks # "https" \/ ~Undisturbed
  BY DEF WebInv, WebAt
<1>4. ASSUME o # "answer", Undisturbed' PROVE Undisturbed /\ dev.speaks = "nothing"
  <2>1. Undisturbed
    BY <1>1, <1>2, <1>4, Answered
  <2> QED BY <1>1, <1>2, <1>3, <1>4, <2>1, Answered DEF NoConnection
<1> QED BY <1>1, <1>2, <1>4, Answered

\* While the call goes on there is nothing to be said of its result.
LEMMA NotDone ==
  ASSUME pc' # "done" PROVE CallKept'
BY DEF CallKept, FetchedIsConfig, TypeTellsCause, ClosesConnections, TestTellsFetch, Done

\* Of a step that ends the call only what is said of its result is left to show.
LEMMA WebEnds ==
  ASSUME WebInv, pc' = "done", UNCHANGED <<engine, dev, webVars, sshVars>>, faults' \in Nat,
         FetchedIsConfig', TypeTellsCause', TestTellsFetch'
  PROVE  WebInv'
<1>1. WebAt'
  BY DEF WebInv, WebAt, PagePcs, webVars, sshVars
<1> QED BY <1>1 DEF WebInv, WebAt, CallKept, ClosesConnections

LEMMA NoNameKeeps ==
  ASSUME WebInv, NoName \/ NoKey, UNCHANGED sshVars PROVE WebInv'
<1>1. /\ pc' = "done" /\ result' = "unknown" /\ dev.cred = "nouser" /\ engine \in {"pfsense", "opnsense"}
      /\ UNCHANGED <<engine, dev, faults, webVars, sshVars>>
  BY DEF NoName, NoKey, Ends, NoFault, WebInv, WebAt
<1>2. FetchedIsConfig' /\ TypeTellsCause'
  BY <1>1 DEF FetchedIsConfig, TypeTellsCause, Transient
<1>3. TestTellsFetch'
  BY <1>1 DEF TestTellsFetch, Web, WebKinds, WebTests, Texts
<1> QED BY <1>1, <1>2, <1>3, WebEnds DEF WebInv

LEMMA TriesHttpKeeps ==
  ASSUME WebInv, NEW o, TriesHttp(o), UNCHANGED sshVars PROVE WebInv'
<1>1. /\ pc \in {"rest", "page", "opnsense"} /\ engine \in {"pfsense", "opnsense"}
      /\ dev \in Firewalls /\ faults \in Nat /\ scheme = "https"
  BY DeviceType DEF TriesHttp, Retried, WebInv, WebAt, PagePcs
<1>2. scheme' = "http" /\ UNCHANGED <<engine, dev, pc, result, session, sshVars>>
  BY DEF TriesHttp
<1>3. Sends(o) /\ o \in NoConnection
  BY DEF TriesHttp, Retried
<1>4. faults' \in Nat /\ (Undisturbed' => Undisturbed /\ dev.speaks # "https")
  BY <1>1, <1>3, Answered DEF NoConnection
<1>5. WebAt'
  BY <1>1, <1>2, <1>4 DEF Firewalls, WebInv, WebAt, PagePcs, sshVars
<1> QED BY <1>1, <1>2, <1>4, <1>5, NotDone DEF WebInv

LEMMA RestKeeps ==
  ASSUME WebInv, NEW o, Rest(o), UNCHANGED sshVars PROVE WebInv'
<1>1. pc = "rest" /\ engine = "pfsense" /\ dev \in Firewalls /\ faults \in Nat /\ dev.cred # "nouser"
  BY DeviceType DEF Rest, WebInv, WebAt, PagePcs
<1>2. Tried(o)
  BY DEF Rest
<1>3. CASE o = "answer" /\ RestResult # "page"
  <2>1. pc' = "done" /\ result' = RestResult /\ UNCHANGED <<engine, dev, webVars, sshVars>>
    BY <1>3 DEF Rest, Ends, webVars
  <2>2. Undisturbed' = Undisturbed /\ dev.speaks \in {"http", "https"}
    BY <1>1, <1>2, <1>3, TriedAnswered DEF WebInv, WebAt
  <2>3. FetchedIsConfig'
    BY <1>1, <1>3, <2>1, RestRefuses DEF FetchedIsConfig, Entitled, ByApi, Done
  <2>4. TypeTellsCause'
    BY <1>1, <1>3, <2>1, <2>2, RestRefuses DEF TypeTellsCause, ByApi, Refused, Reachable, Transient,
      Done, Web, WebKinds
  <2>5. TestTellsFetch'
    BY <1>1, <1>3, <2>1, <2>2, RestRefuses DEF TestTellsFetch, WebTests, PfSenseTests, Texts, Done,
      Web, WebKinds
  <2> QED BY <1>1, <1>2, <1>3, <2>1, <2>3, <2>4, <2>5, TriedAnswered, WebEnds
<1>4. CASE ~(o = "answer" /\ RestResult # "page")
  <2>1. pc' = "page" /\ scheme' = "https" /\ UNCHANGED <<engine, dev, result, session, sshVars>>
    BY <1>4 DEF Rest, Goto
  <2>2. dev.rest \in {"v1", "bare"} /\ Undisturbed' => dev.speaks = "nothing"
    BY <1>1, <1>2, <1>4, RestRefuses, TriedAnswered
  <2>3. WebAt'
    BY <1>1, <1>2, <2>1, <2>2, TriedAnswered DEF WebInv, WebAt, PagePcs, sshVars
  <2> QED BY <1>1, <1>2, <2>1, <2>3, TriedAnswered, NotDone DEF WebInv
<1> QED BY <1>3, <1>4

LEMMA LoginPageKeeps ==
  ASSUME WebInv, NEW o, LoginPage(o), UNCHANGED sshVars PROVE WebInv'
<1>1. pc = "page" /\ engine = "pfsense" /\ dev \in Firewalls /\ faults \in Nat /\ dev.cred # "nouser"
  BY DeviceType DEF LoginPage, WebInv, WebAt, PagePcs
<1>2. Tried(o) /\ UNCHANGED <<engine, dev, webVars, sshVars>>
  BY DEF LoginPage
<1>3. CASE o = "answer"
  <2>1. pc' = "login" /\ UNCHANGED result
    BY <1>3 DEF LoginPage, Goto
  <2>2. Undisturbed' = Undisturbed /\ dev.speaks = scheme /\ scheme # "nothing"
    BY <1>1, <1>2, <1>3, TriedAnswered DEF WebInv, WebAt
  <2>3. WebAt'
    BY <1>1, <1>2, <2>1, <2>2 DEF WebInv, WebAt, PagePcs, webVars, sshVars
  <2> QED BY <1>1, <1>2, <2>1, <2>3, TriedAnswered, NotDone DEF WebInv
<1>4. CASE o # "answer"
  <2>1. pc' = "done" /\ result' \in Types
    BY <1>4, TypeOf DEF LoginPage, Ends
  <2>2. faults' \in Nat /\ (Undisturbed' => dev.speaks = "nothing")
    BY <1>1, <1>2, <1>4, TriedAnswered
  <2>3. FetchedIsConfig'
    BY <2>1 DEF Types, FetchedIsConfig
  <2>4. TypeTellsCause'
    BY <1>1, <1>2, <2>1, <2>2 DEF Types, TypeTellsCause, Reachable, Web, WebKinds
  <2>5. TestTellsFetch'
    BY <1>1, <1>2, <2>1, <2>2 DEF Types, TestTellsFetch, WebTests, Texts, Web, WebKinds
  <2> QED BY <1>2, <2>1, <2>2, <2>3, <2>4, <2>5, WebEnds
<1> QED BY <1>3, <1>4

\* Behind the login page what went wrong by itself would have gone wrong before.
LEMMA PageAnswered ==
  ASSUME WebInv, pc \in PagePcs \ {"page"}, NEW o, Sends(o)
  PROVE  /\ faults' \in Nat /\ (Undisturbed' => Undisturbed)
         /\ o = "answer" => Undisturbed' = Undisturbed
         /\ o # "answer" => ~Undisturbed'
<1>1. /\ engine = "pfsense" /\ dev \in Firewalls /\ faults \in Nat
      /\ scheme \in {"http", "https"} /\ scheme = dev.speaks
  BY DeviceType DEF WebInv, WebAt, PagePcs
<1> QED BY <1>1, Answered

LEMMA LoginKeeps ==
  ASSUME WebInv, NEW o, Login(o), UNCHANGED sshVars PROVE WebInv'
<1>1. /\ pc = "login" /\ engine = "pfsense" /\ dev \in Firewalls /\ faults \in Nat
      /\ dev.cred \in {"good", "bad"}
      /\ scheme = dev.speaks /\ (dev.rest \in {"v1", "bare"} => ~Undisturbed)
  <2>1. pc = "login" BY DEF Login
  <2>2. engine = "pfsense" /\ dev \in Firewalls BY <2>1, DeviceType DEF WebInv, WebAt, PagePcs
  <2>3. dev.cred \in {"good", "bad"} BY <2>1, <2>2, FirewallType DEF WebInv, WebAt, PagePcs
  <2>4. faults \in Nat /\ scheme = dev.speaks BY <2>1 DEF WebInv, WebAt, PagePcs
  <2>5. dev.rest \in {"v1", "bare"} => ~Undisturbed BY <2>1, <2>4 DEF WebInv, WebAt, PagePcs
  <2> QED BY <2>1, <2>2, <2>3, <2>4, <2>5
<1>2. Sends(o) /\ UNCHANGED <<engine, dev, scheme, sshVars>>
  BY DEF Login
<1>3. /\ faults' \in Nat /\ (Undisturbed' => Undisturbed)
      /\ o = "answer" => Undisturbed' = Undisturbed
      /\ o # "answer" => ~Undisturbed'
  BY <1>1, <1>2, PageAnswered DEF PagePcs
<1>4. ASSUME pc' = "done", UNCHANGED session,
             \/ o = "answer" /\ ~dev.token /\ result' = "permission_denied"
             \/ o = "answer" /\ (~dev.token \/ dev.cred = "bad") /\ result' = "auth_failure"
             \/ o # "answer" /\ result' \in Types
      PROVE  WebInv'
  <2>1. FetchedIsConfig'
    BY <1>4 DEF Types, FetchedIsConfig
  <2>2. TypeTellsCause'
    BY <1>1, <1>2, <1>3, <1>4 DEF Types, TypeTellsCause, ByApi, Refused, Transient, Web, WebKinds
  <2>3. TestTellsFetch'
    BY <1>1, <1>2, <1>3, <1>4 DEF Types, TestTellsFetch, WebTests, PfSenseTests, Texts, Web, WebKinds
  <2> QED BY <1>2, <1>3, <1>4, <2>1, <2>2, <2>3, WebEnds DEF webVars
<1>5. ASSUME pc' = "backup page", UNCHANGED result,
             \/ dev.token /\ dev.cred = "good" /\ session' = TRUE
             \/ o # "answer" /\ UNCHANGED session
      PROVE  WebInv'
  <2>1. WebAt'
    <3>1. session' \in BOOLEAN /\ (session' => dev.cred = "good" /\ dev.token)
      <4>1. CASE dev.token /\ dev.cred = "good" /\ session' = TRUE
        BY <4>1
      <4>2. CASE UNCHANGED session
        BY <4>2, Zenon DEF WebInv, WebAt
      <4> QED BY <1>5, <4>1, <4>2
    <3>2. session' \/ ~Undisturbed'
      BY <1>3, <1>5
    <3> QED BY <1>1, <1>2, <1>3, <1>5, <3>1, <3>2 DEF WebInv, WebAt, PagePcs, sshVars
  <2> QED BY <1>1, <1>2, <1>3, <1>5, <2>1, NotDone DEF WebInv
<1>6. \/ o = "answer" /\ ~dev.token /\ pc' = "done" /\ result' = "permission_denied" /\ UNCHANGED session
      \/ /\ o = "answer" /\ (~dev.token \/ dev.cred = "bad")
         /\ pc' = "done" /\ result' = "auth_failure" /\ UNCHANGED session
      \/ /\ o = "answer" /\ dev.token /\ dev.cred = "good"
         /\ pc' = "backup page" /\ UNCHANGED result /\ session' = TRUE
      \/ o # "answer" /\ pc' = "backup page" /\ UNCHANGED <<result, session>>
      \/ o # "answer" /\ pc' = "done" /\ result' \in Types /\ UNCHANGED session
  BY TypeOf DEF Login, Goto, Ends, Statuses, Transport, NoConnection
<1> QED BY <1>4, <1>5, <1>6

LEMMA BackupPageKeeps ==
  ASSUME WebInv, NEW o, BackupPage(o), UNCHANGED sshVars PROVE WebInv'
<1>1. /\ pc = "backup page" /\ engine = "pfsense" /\ dev \in Firewalls /\ faults \in Nat
      /\ scheme = dev.speaks /\ (dev.rest \in {"v1", "bare"} => ~Undisturbed)
      /\ session => dev.cred = "good" /\ dev.token
      /\ session \/ ~Undisturbed
  <2>1. pc = "backup page" BY DEF BackupPage
  <2>2. engine = "pfsense" /\ dev \in Firewalls BY <2>1, DeviceType DEF WebInv, WebAt, PagePcs
  <2>4. faults \in Nat /\ scheme = dev.speaks BY <2>1 DEF WebInv, WebAt, PagePcs
  <2>5. dev.rest \in {"v1", "bare"} => ~Undisturbed BY <2>1, <2>2, <2>4 DEF Firewalls, WebInv, WebAt,
    PagePcs
  <2>6. session => dev.cred = "good" /\ dev.token BY DEF WebInv, WebAt
  <2>7. session \/ ~Undisturbed BY <2>1 DEF WebInv, WebAt
  <2> QED BY <2>1, <2>2, <2>4, <2>5, <2>6, <2>7
<1>2. Sends(o) /\ UNCHANGED <<engine, dev, webVars, sshVars>>
  BY DEF BackupPage
<1>3. /\ faults' \in Nat /\ (Undisturbed' => Undisturbed)
      /\ o # "answer" => ~Undisturbed'
  BY <1>1, <1>2, PageAnswered DEF PagePcs
<1>4. ASSUME pc' = "done",
             \/ session /\ dev.priv = "403" /\ result' = "permission_denied"
             \/ ~dev.token /\ result' = "unknown"
             \/ o # "answer" /\ result' \in Types
      PROVE  WebInv'
  <2>1. FetchedIsConfig'
    BY <1>4 DEF Types, FetchedIsConfig
  <2>2. TypeTellsCause'
    BY <1>1, <1>2, <1>3, <1>4 DEF Firewalls, Types, TypeTellsCause, ByApi, Refused, Transient, Web,
      WebKinds
  <2>3. TestTellsFetch'
    BY <1>1, <1>2, <1>3, <1>4 DEF Firewalls, Types, TestTellsFetch, WebTests, PfSenseTests, Texts, Web,
      WebKinds
  <2> QED BY <1>2, <1>3, <1>4, <2>1, <2>2, <2>3, WebEnds
<1>5. ASSUME pc' = "download", UNCHANGED result PROVE WebInv'
  <2>1. WebAt'
    BY <1>1, <1>2, <1>3, <1>5 DEF Firewalls, WebInv, WebAt, PagePcs, webVars, sshVars
  <2> QED BY <1>1, <1>2, <1>3, <1>5, <2>1, NotDone DEF WebInv
<1>6. \/ session /\ dev.priv = "403" /\ pc' = "done" /\ result' = "permission_denied"
      \/ ~dev.token /\ pc' = "done" /\ result' = "unknown"
      \/ o # "answer" /\ pc' = "done" /\ result' \in Types
      \/ pc' = "download" /\ UNCHANGED result
  BY TypeOf DEF BackupPage, Goto, Ends
<1> QED BY <1>4, <1>5, <1>6

LEMMA DownloadKeeps ==
  ASSUME WebInv, NEW o, Download(o), UNCHANGED sshVars PROVE WebInv'
<1>1. /\ pc = "download" /\ engine = "pfsense" /\ dev \in Firewalls /\ faults \in Nat
      /\ scheme = dev.speaks /\ (dev.rest \in {"v1", "bare"} => ~Undisturbed)
      /\ scheme \in {"http", "https"}
      /\ session => dev.cred = "good" /\ dev.token
      /\ session \/ ~Undisturbed
  BY DeviceType DEF Download, WebInv, WebAt, PagePcs
<1>2. pc' = "done" /\ UNCHANGED <<engine, dev, webVars, sshVars>>
  BY DEF Download, Ends
<1>3. \/ o # "answer" /\ Sends(o) /\ result' \in Types
      \/ Sends(o) /\ IsXml /\ result' = "config"
      \/ o = "answer" /\ Sends(o) /\ ~IsXml /\ result' = "unknown"
      \/ Fault /\ result' = "nothing"
  BY TypeOf DEF Download, Ends
<1>4. /\ faults' \in Nat /\ (Undisturbed' => Undisturbed) /\ (o # "answer" => ~Undisturbed')
      /\ result' \notin {"config", "unknown"} => ~Undisturbed'
  <2>1. CASE Fault BY <1>1, <1>3, <2>1, FaultsAreCounted, TypeOf
  <2>2. CASE Sends(o) /\ result' # "nothing"
    BY <1>1, <1>3, <2>2, PageAnswered DEF Types, PagePcs
  <2> QED BY <1>3, <2>1, <2>2 DEF Types
<1>5. FetchedIsConfig'
  BY <1>1, <1>2, <1>3, <1>4 DEF Types, FetchedIsConfig, Entitled, IsXml
<1>6. TypeTellsCause'
  BY <1>1, <1>2, <1>3, <1>4 DEF Types, TypeTellsCause, ByApi, Refused, Transient, Web, WebKinds, IsXml
<1>7. TestTellsFetch'
  BY <1>1, <1>2, <1>3, <1>4, FirewallType DEF Types, TestTellsFetch, WebTests, PfSenseTests, Texts,
    Web, WebKinds, IsXml
<1> QED BY <1>2, <1>4, <1>5, <1>6, <1>7, WebEnds

LEMMA OpnsenseKeeps ==
  ASSUME WebInv, NEW o, Opnsense(o), UNCHANGED sshVars PROVE WebInv'
<1>1. pc = "opnsense" /\ engine = "opnsense" /\ dev \in Firewalls /\ faults \in Nat
      /\ dev.cred \in {"good", "bad"}
  BY DeviceType, FirewallType DEF Opnsense, WebInv, WebAt
<1>2. Tried(o) /\ pc' = "done" /\ UNCHANGED <<engine, dev, webVars, sshVars>>
  BY DEF Opnsense, Ends
<1>3. /\ faults' \in Nat
      /\ o = "answer" => Undisturbed' = Undisturbed /\ dev.speaks \in {"http", "https"}
      /\ o # "answer" /\ Undisturbed' => dev.speaks = "nothing"
  BY <1>1, <1>2, TriedAnswered DEF WebInv, WebAt
<1>4. dev.rest \in {"404", "page", "v1"}
  BY <1>1, DeviceType, FirewallType DEF WebInv, WebAt, WebDevices
<1>5. \/ o # "answer" /\ result' \in Types
      \/ o = "answer" /\ result' = OpnsenseAnswer
  BY <1>1, TypeOf DEF Opnsense, Ends
<1>6. \/ dev.rest = "404" /\ OpnsenseAnswer = "unknown"
      \/ dev.rest = "page" /\ OpnsenseAnswer = "page"
      \/ dev.rest = "v1" /\ dev.cred = "bad" /\ OpnsenseAnswer = "auth_failure"
      \/ dev.rest = "v1" /\ dev.cred = "good" /\ dev.priv # "yes" /\ OpnsenseAnswer = "permission_denied"
      \/ dev.rest = "v1" /\ dev.cred = "good" /\ dev.priv = "yes" /\ OpnsenseAnswer = "config"
  BY <1>1, <1>4 DEF OpnsenseAnswer
<1>7. FetchedIsConfig'
  BY <1>1, <1>2, <1>5, <1>6 DEF Types, FetchedIsConfig, Entitled, ByApi, PageThere
<1>8. TypeTellsCause'
  BY <1>1, <1>2, <1>3, <1>5, <1>6 DEF Types, TypeTellsCause, ByApi, Refused, Unusable, Reachable, Transient,
    Web, WebKinds
<1>9. TestTellsFetch'
  BY <1>1, <1>2, <1>3, <1>5, <1>6 DEF Types, TestTellsFetch, WebTests, OpnsenseTests, Texts, Web, WebKinds
<1> QED BY <1>2, <1>3, <1>7, <1>8, <1>9, WebEnds

LEMMA OxidizedKeeps ==
  ASSUME WebInv, NEW o, Oxidized(o), UNCHANGED sshVars PROVE WebInv'
<1>1. pc = "oxidized" /\ engine = "oxidized" /\ dev \in [known : {"by name", "by ip", "no", "page"}]
      /\ faults \in Nat
  BY DeviceType DEF Oxidized, WebInv, WebAt
<1>2. pc' = "done" /\ UNCHANGED <<engine, dev, webVars, sshVars>>
  BY DEF Oxidized, Ends
<1>3. faults' \in Nat /\ (Undisturbed' => Undisturbed)
  BY <1>1, FaultsAreCounted DEF Oxidized
<1>4. \/ Undisturbed' = Undisturbed /\ dev.known = "by name" /\ result' = "config"
      \/ Undisturbed' = Undisturbed /\ dev.known = "page" /\ result' = "page"
      \/ Undisturbed' = Undisturbed /\ dev.known \in {"by ip", "no"} /\ result' = "invalid_params"
      \/ ~Undisturbed' /\ result' \in Types
  <2>1. Fault => ~Undisturbed'
    BY <1>1, FaultsAreCounted
  <2>2. NoFault => Undisturbed' = Undisturbed
    BY <1>1, FaultsAreCounted
  <2> QED BY <1>1, <2>1, <2>2, TypeOf DEF Oxidized, Ends, Types
<1>5. FetchedIsConfig'
  BY <1>1, <1>2, <1>3, <1>4 DEF Types, FetchedIsConfig, Entitled, ByApi, PageThere
<1>6. TypeTellsCause'
  BY <1>1, <1>2, <1>3, <1>4 DEF Types, TypeTellsCause, Refused, ByApi, Transient, Web, WebKinds
<1>7. TestTellsFetch'
  BY <1>1, <1>2, <1>3, <1>4 DEF Types, TestTellsFetch, WebTests, Texts, Web, WebKinds
<1> QED BY <1>2, <1>3, <1>5, <1>6, <1>7, WebEnds

LEMMA WebKeeps ==
  ASSUME WebInv, WebNext, UNCHANGED sshVars PROVE WebInv'
BY NoNameKeeps, TriesHttpKeeps, RestKeeps, LoginPageKeeps, LoginKeeps, BackupPageKeeps, DownloadKeeps,
  OpnsenseKeeps, OxidizedKeeps DEF WebNext

-----------------------------------------------------------------------------
(* SSH *)

\* The steps behind the login.
Inside == {"login", "command", "get", "path", "walk"}

\* A step is reached with the jump host passed, the device up and the credential accepted.
SshAt ==
  /\ pc \in {"auth", "get"} => engine = "scp"
  /\ pc = "command" => engine = "netmiko" /\ dev.secret # "bad"
  /\ pc \in {"path", "walk"} => engine = "proxmox"
  /\ dev \in SshDevices[engine]
  /\ line # "up" => ~Undisturbed
  /\ pc \notin {"start", "done"} => dev.cred # "nouser"
  /\ pc \in {"jump", "channel"} => HasJump
  /\ pc \notin {"start", "jump", "done"} /\ HasJump => dev.jump = "good"
  /\ pc \in {"start", "jump"} => open = {}
  /\ pc = "channel" => open = {"jump"}
  /\ pc \in Inside \union {"auth"} => dev.up /\ "device" \in open
  /\ pc \in Inside => Taken /\ Prompts
  /\ pc \notin {"command", "path", "walk", "done"} => idx = 0

SshInv ==
  /\ engine \in SshKinds /\ faults \in Nat
  /\ pc # "done" => result = "none"
  /\ SshAt /\ CallKept

LEMMA NotWeb ==
  ASSUME engine \in SshKinds
  PROVE  ~Web /\ engine \notin {"pfsense", "opnsense", "oxidized"} /\ (Reachable <=> dev.up)
BY DEF SshKinds, Web, WebKinds, Reachable

\* The types of what may go wrong with a connection, and with the credential for it.
Failures == {"auth_failure", "network_timeout", "network_connection", "unknown"}

LEMMA TypesOfFailures ==
  /\ LostLogin = Failures
  /\ Unreachable \subseteq Failures \ {"auth_failure"}
  /\ "auth_failure" \notin Texts /\ "permission_denied" \notin Texts /\ Failures \intersect Texts = {}
BY DEF LostLogin, Unreachable, Failures, Texts

\* A login that the device does not take fails for the credential: it is refused, and then the
\* failure has the type of that, or it is of no use.
LEMMA Rejected ==
  ASSUME engine \in SshKinds, ~Taken, NEW t \in Rejections
  PROVE  /\ t \in Failures \union {"permission_denied"}
         /\ t = "auth_failure" => Refused \/ Unusable
         /\ t \in Transient => engine = "netmiko" /\ Unusable
         /\ ~Unusable => t = "auth_failure"
<1>1. t \in {"auth_failure", "permission_denied", "unknown", "network_timeout"}
  BY DEF Rejections
<1>2. ~Web
  BY DEF SshKinds, Web, WebKinds
<1> QED BY <1>1, <1>2 DEF Rejections, Failures, Refused, Unusable, Transient

\* Whoever is let in by the device and by the jump host passes the test of the connection.
LEMMA LetIn ==
  ASSUME SshInv, pc \in Inside
  PROVE  SshTests /\ ~Refused
<1>1. dev.up /\ dev.cred # "nouser" /\ (HasJump => dev.jump = "good") /\ Taken /\ Prompts
  BY DEF SshInv, SshAt, Inside
<1>2. SshTests
  BY <1>1 DEF SshTests
<1>3. ~Refused
  BY <1>1, NotWeb DEF Refused, ByApi, SshInv
<1> QED BY <1>2, <1>3

LEMMA SshEnds ==
  ASSUME SshInv, pc' = "done", UNCHANGED <<engine, dev>>, faults' \in Nat,
         line' # "up" => ~Undisturbed',
         FetchedIsConfig', TypeTellsCause', ClosesConnections', TestTellsFetch'
  PROVE  SshInv'
<1>1. SshAt'
  BY DEF SshInv, SshAt, Inside
<1> QED BY <1>1 DEF SshInv, CallKept

LEMMA NoUserKeeps ==
  ASSUME SshInv, NoUser PROVE SshInv'
<1>1. /\ pc = "start" /\ pc' = "done" /\ result' \in {"invalid_params", "unknown"} /\ dev.cred = "nouser"
      /\ UNCHANGED <<engine, dev, faults, line, open>>
  BY DEF NoUser, Ends, NoFault, Same, sshVars
<1>2. ~Web /\ engine \notin {"pfsense", "opnsense", "oxidized"}
  BY NotWeb DEF SshInv
<1>3. FetchedIsConfig' /\ TypeTellsCause'
  BY <1>1 DEF FetchedIsConfig, TypeTellsCause, Transient
<1>4. ClosesConnections'
  BY <1>1 DEF ClosesConnections, SshInv, SshAt
<1>5. TestTellsFetch'
  BY <1>1, <1>2 DEF TestTellsFetch, Web, SshTests, Texts
<1>6. Undisturbed' = Undisturbed /\ faults' \in Nat
  BY <1>1 DEF Undisturbed, SshInv
<1> QED BY <1>1, <1>3, <1>4, <1>5, <1>6, SshEnds DEF SshInv, SshAt

LEMMA StartKeeps ==
  ASSUME SshInv, Start PROVE SshInv'
<1>1. /\ pc = "start" /\ dev.cred # "nouser" /\ UNCHANGED <<engine, dev, faults, result, sshVars>>
      /\ pc' = IF HasJump THEN "jump" ELSE "connect"
  BY DEF Start, Goto, NoFault, Same
<1>2. Undisturbed' = Undisturbed /\ HasJump' = HasJump /\ pc' # "done"
  BY <1>1 DEF Undisturbed, HasJump
<1>3. SshAt'
  BY <1>1, <1>2 DEF SshInv, SshAt, Inside, sshVars
<1> QED BY <1>1, <1>2, <1>3, NotDone DEF SshInv

LEMMA JumpKeeps ==
  ASSUME SshInv, Jump PROVE SshInv'
<1>1. /\ pc = "jump" /\ HasJump /\ open = {} /\ idx = 0 /\ faults \in Nat
      /\ UNCHANGED <<engine, dev, idx, line>>
  BY DEF Jump, SshInv, SshAt, Same, Data
<1>2. ~Web /\ engine \notin {"pfsense", "opnsense", "oxidized"}
  BY NotWeb DEF SshInv
<1>3. faults' \in Nat /\ (Undisturbed' => Undisturbed) /\ (Fault => ~Undisturbed')
  BY <1>1, FaultsAreCounted DEF Jump
<1>4. CASE dev.jump = "good" /\ Goto("channel") /\ open' = {"jump"}
  <2>1. pc' = "channel" /\ UNCHANGED result /\ HasJump' = HasJump
    BY <1>1, <1>4 DEF Goto, HasJump
  <2>2. SshAt'
    BY <1>1, <1>3, <1>4, <2>1 DEF SshInv, SshAt, Inside
  <2> QED BY <1>1, <1>3, <2>1, <2>2, NotDone DEF SshInv
<1>5. ASSUME pc' = "done", UNCHANGED open,
             \/ dev.jump = "bad" /\ result' = "auth_failure"
             \/ dev.jump = "unusable" /\ result' \in {"auth_failure", "permission_denied", "unknown"}
             \/ ~Undisturbed' /\ result' \in Failures
      PROVE  SshInv'
  <2>1. FetchedIsConfig' /\ ClosesConnections'
    BY <1>1, <1>5 DEF FetchedIsConfig, ClosesConnections, Failures
  <2>2. TypeTellsCause'
    <3>1. Web' = Web /\ HasJump' = HasJump /\ idx' = 0
      BY <1>1 DEF Web, HasJump
    <3> QED BY <1>1, <1>2, <1>5, <3>1 DEF TypeTellsCause, Refused, Unusable, Transient, Failures
  <2>3. TestTellsFetch'
    BY <1>1, <1>2, <1>5 DEF TestTellsFetch, SshTests, HasJump, Web, Texts, Failures
  <2> QED BY <1>1, <1>3, <1>5, <2>1, <2>2, <2>3, SshEnds DEF SshInv, SshAt
<1> QED BY <1>3, <1>4, <1>5, TypesOfFailures DEF Jump, Ends

LEMMA ChannelKeeps ==
  ASSUME SshInv, Channel PROVE SshInv'
<1>1. /\ pc = "channel" /\ open = {"jump"} /\ idx = 0 /\ faults \in Nat
      /\ UNCHANGED <<engine, dev, idx, line>>
  BY DEF Channel, SshInv, SshAt, Same, Data
<1>2. ~Web /\ engine \notin {"pfsense", "opnsense", "oxidized"} /\ (Reachable <=> dev.up)
  BY NotWeb DEF SshInv
<1>3. faults' \in Nat /\ (Undisturbed' => Undisturbed) /\ (Fault => ~Undisturbed')
  BY <1>1, FaultsAreCounted DEF Channel
<1>4. CASE Goto("connect")
  <2>1. pc' = "connect" /\ UNCHANGED result /\ HasJump' = HasJump
    BY <1>1, <1>4 DEF Goto, HasJump
  <2>2. SshAt'
    BY <1>1, <1>3, <1>4, <2>1 DEF SshInv, SshAt, Inside
  <2> QED BY <1>1, <1>3, <2>1, <2>2, NotDone DEF SshInv
<1>5. ASSUME pc' = "done", UNCHANGED open, result' \in Failures \ {"auth_failure"},
             ~dev.up \/ ~Undisturbed'
      PROVE  SshInv'
  <2>1. FetchedIsConfig' /\ ClosesConnections'
    BY <1>1, <1>5 DEF FetchedIsConfig, ClosesConnections, Texts, Failures
  <2>2. TypeTellsCause'
    BY <1>1, <1>2, <1>5 DEF TypeTellsCause, Reachable, Web, Transient, Failures
  <2>3. TestTellsFetch'
    BY <1>1, <1>2, <1>5 DEF TestTellsFetch, SshTests, Web, Texts, Failures
  <2> QED BY <1>1, <1>3, <1>5, <2>1, <2>2, <2>3, SshEnds DEF SshInv, SshAt
<1>6. "unknown" \in Failures \ {"auth_failure"}
  BY DEF Failures
<1> QED BY <1>3, <1>4, <1>5, <1>6, TypesOfFailures DEF Channel, Ends

LEMMA ConnectKeeps ==
  ASSUME SshInv, Connect PROVE SshInv'
<1>1. /\ pc = "connect" /\ idx = 0 /\ faults \in Nat /\ dev.cred # "nouser"
      /\ UNCHANGED <<engine, dev, idx, line>>
  BY DEF Connect, SshInv, SshAt, Same, Data
<1>2. ~Web /\ engine \notin {"pfsense", "opnsense", "oxidized"} /\ (Reachable <=> dev.up)
      /\ engine \in SshKinds
  BY NotWeb DEF SshInv
<1>3. faults' \in Nat /\ (Undisturbed' => Undisturbed) /\ (Fault => ~Undisturbed')
  BY <1>1, FaultsAreCounted DEF Connect
<1>4. CASE /\ dev.up /\ (engine = "scp" \/ (Taken /\ Prompts))
           /\ Goto(IF engine = "scp" THEN "auth" ELSE "login") /\ open' = open \union {"device"}
  <2>1. /\ pc' = (IF engine = "scp" THEN "auth" ELSE "login") /\ UNCHANGED result
        /\ HasJump' = HasJump /\ "device" \in open' /\ Taken' = Taken /\ Prompts' = Prompts
    BY <1>1, <1>4 DEF Goto, HasJump, Taken, Broken, Prompts
  <2>2. SshAt'
    BY <1>1, <1>3, <1>4, <2>1 DEF SshInv, SshAt, Inside
  <2> QED BY <1>1, <1>3, <2>1, <2>2, NotDone DEF SshInv
<1>5. ASSUME pc' = "done", open' = {},
             \/ ~Taken /\ result' \in Rejections
             \/ Taken /\ ~Prompts /\ result' \in {"network_timeout", "unknown"}
             \/ ~dev.up /\ result' \in Failures \ {"auth_failure"}
             \/ ~Undisturbed' /\ result' \in Failures
      PROVE  SshInv'
  <2>1. /\ Web' = Web /\ HasJump' = HasJump /\ idx' = 0 /\ (Reachable' <=> dev.up)
        /\ Refused' = Refused /\ Unusable' = Unusable /\ SshTests' = SshTests
    BY <1>1, <1>2 DEF Web, WebKinds, SshKinds, HasJump, Reachable, Refused, Unusable, SshTests, Taken,
      Prompts, Broken, Offers, ByApi
  <2>2. /\ result' \in Failures \union {"permission_denied"}
        /\ ~SshTests \/ ~Undisturbed'
    BY <1>2, <1>5, <2>1, Rejected DEF SshTests, Failures
  <2>3. FetchedIsConfig' /\ ClosesConnections'
    BY <1>5, <2>2 DEF FetchedIsConfig, ClosesConnections, Failures
  <2>4. Taken /\ (HasJump => dev.jump = "good") => ~Refused
    BY <1>2 DEF Refused, ByApi
  <2>5. HasJump => dev.jump = "good"
    BY <1>1, <1>2 DEF SshInv, SshAt, Connect
  <2>6. TypeTellsCause'
    <3>1. CASE ~Taken /\ result' \in Rejections
      BY <1>1, <1>2, <2>1, <3>1, Rejected DEF TypeTellsCause
    <3>2. CASE Taken /\ ~Prompts /\ result' \in {"network_timeout", "unknown"}
      BY <1>1, <1>2, <2>1, <2>4, <2>5, <3>2 DEF TypeTellsCause, Prompts
    <3>3. CASE ~dev.up /\ result' \in Failures \ {"auth_failure"}
      BY <1>1, <1>2, <2>1, <3>3 DEF TypeTellsCause, Failures
    <3>4. CASE ~Undisturbed' /\ result' \in Failures
      BY <1>1, <1>2, <2>1, <3>4 DEF TypeTellsCause, Failures
    <3> QED BY <1>5, <3>1, <3>2, <3>3, <3>4
  <2>7. TestTellsFetch'
    BY <1>1, <1>2, <2>1, <2>2 DEF TestTellsFetch, Texts, Failures
  <2> QED BY <1>1, <1>3, <1>5, <2>3, <2>6, <2>7, SshEnds DEF SshInv, SshAt
<1>6. {"network_timeout", "unknown"} \subseteq Failures
  BY DEF Failures
<1> QED BY <1>3, <1>4, <1>5, <1>6, TypesOfFailures DEF Connect, Ends, Close

LEMMA AuthenticatesKeeps ==
  ASSUME SshInv, Authenticates PROVE SshInv'
<1>1. /\ pc = "auth" /\ idx = 0 /\ faults \in Nat /\ "device" \in open /\ engine = "scp" /\ dev.up
      /\ HasJump => dev.jump = "good"
      /\ UNCHANGED <<engine, dev, idx, line, open>>
  BY DEF Authenticates, SshInv, SshAt, Same, Data, Inside
<1>2. ~Web /\ engine \notin {"pfsense", "opnsense", "oxidized"}
  BY NotWeb DEF SshInv
<1>3. faults' = faults /\ Undisturbed' = Undisturbed /\ (line # "up" => ~Undisturbed)
  BY DEF Authenticates, NoFault, Undisturbed, SshInv, SshAt
<1>4. /\ Web' = Web /\ HasJump' = HasJump /\ idx' = 0 /\ Taken' = Taken /\ Prompts' = Prompts
      /\ Refused' = Refused /\ Unusable' = Unusable /\ SshTests' = SshTests
  BY <1>1, <1>2 DEF Web, WebKinds, HasJump, Refused, Unusable, SshTests, Taken, Prompts, Broken, Offers,
    ByApi
<1>5. CASE Taken /\ Goto("login")
  <2>1. pc' = "login" /\ UNCHANGED result /\ Prompts
    BY <1>1, <1>5 DEF Goto, Prompts
  <2>2. SshAt'
    BY <1>1, <1>3, <1>4, <1>5, <2>1 DEF SshInv, SshAt, Inside
  <2> QED BY <1>1, <1>3, <2>1, <2>2, NotDone DEF SshInv
<1>6. ASSUME pc' = "done",
             \/ ~Taken /\ result' \in Rejections
             \/ line # "up" /\ result' \in Failures
      PROVE  SshInv'
  <2>1. result' \in Failures \union {"permission_denied"}
    BY <1>6, Rejected DEF SshInv
  <2>2. FetchedIsConfig' /\ ClosesConnections'
    BY <1>1, <2>1 DEF FetchedIsConfig, ClosesConnections, Texts, Failures
  <2>3. TypeTellsCause'
    <3>1. CASE ~Taken /\ result' \in Rejections
      BY <1>1, <1>2, <1>4, <3>1, Rejected DEF TypeTellsCause, SshInv
    <3>2. CASE line # "up" /\ result' \in Failures
      BY <1>1, <1>2, <1>3, <1>4, <3>2 DEF TypeTellsCause, Failures
    <3> QED BY <1>6, <3>1, <3>2
  <2>4. TestTellsFetch'
    BY <1>1, <1>2, <1>3, <1>4, <1>6, <2>1 DEF TestTellsFetch, SshTests, Texts, Failures
  <2> QED BY <1>1, <1>3, <1>6, <2>2, <2>3, <2>4, SshEnds DEF SshInv, SshAt
<1> QED BY <1>5, <1>6, TypesOfFailures DEF Authenticates, Ends

\* What the test of a connection does not look at.
Untested ==
  \/ engine = "netmiko" /\ (dev.secret = "bad" \/ dev.prompt = "lost")
  \/ engine = "scp" /\ ~dev.right
  \/ engine = "proxmox" /\ dev.barred # {}

\* What all endings after the login have in common: everything is closed.
LEMMA InsideEnds ==
  ASSUME SshInv, pc \in Inside, pc' = "done", open' = {}, UNCHANGED <<engine, dev, faults, line>>,
         \/ line # "up" /\ result' \in Failures \ {"auth_failure"}
         \/ result' \in {"unknown", "permission_denied"} /\ Untested
         \/ result' = "network_timeout" /\ Untested /\ engine = "netmiko"
         \/ result' \in {"config", "archive"} /\ Entitled
         \/ result' = "refusal" /\ engine = "netmiko" /\ ~Entitled
  PROVE  SshInv'
<1>1. /\ ~Web' /\ engine' \notin {"pfsense", "opnsense", "oxidized"}
      /\ SshTests' /\ ~Refused' /\ Entitled' = Entitled
      /\ Undisturbed' = Undisturbed /\ faults' \in Nat
  <2>1. ~Web /\ engine \notin {"pfsense", "opnsense", "oxidized"} /\ SshTests /\ ~Refused
        /\ faults \in Nat
    BY NotWeb, LetIn DEF SshInv
  <2>2. /\ Web' = Web /\ SshTests' = SshTests /\ Refused' = Refused /\ Entitled' = Entitled
        /\ Undisturbed' = Undisturbed
    BY DEF Web, WebKinds, SshTests, Refused, Entitled, Undisturbed, HasJump, Taken, Prompts, Broken,
      Offers, ByApi
  <2> QED BY <2>1, <2>2
<1>2. line # "up" => ~Undisturbed
  BY DEF SshInv, SshAt
<1>3. FetchedIsConfig'
  BY <1>1 DEF FetchedIsConfig, Failures
<1>4. TypeTellsCause'
  BY <1>1, <1>2 DEF TypeTellsCause, Transient, Failures, Untested
<1>5. ClosesConnections'
  BY DEF ClosesConnections
<1>6. TestTellsFetch'
  BY <1>1, <1>2 DEF TestTellsFetch, Texts, Untested, Failures
<1> QED BY <1>1, <1>2, <1>3, <1>4, <1>5, <1>6, SshEnds

LEMMA InsideStays ==
  ASSUME SshInv, pc \in Inside, pc' \in Inside \ {"login"},
         UNCHANGED <<engine, dev, faults, line, open, result>>,
         pc' = "get" => engine = "scp" /\ idx' = 0,
         pc' = "command" => engine = "netmiko" /\ dev.secret # "bad",
         pc' \in {"path", "walk"} => engine = "proxmox"
  PROVE  SshInv'
<1>1. /\ HasJump' = HasJump /\ Taken' = Taken /\ Prompts' = Prompts /\ Undisturbed' = Undisturbed
      /\ pc' # "done"
  BY DEF HasJump, Taken, Broken, Prompts, Undisturbed, Inside
<1>2. SshAt'
  BY <1>1 DEF SshInv, SshAt, Inside
<1> QED BY <1>1, <1>2, NotDone DEF SshInv, Inside

LEMMA BreaksKeeps ==
  ASSUME SshInv, Breaks PROVE SshInv'
<1>1. /\ pc # "done" /\ UNCHANGED <<engine, dev, idx, pc, result, open>>
  BY DEF Breaks, Same, Data
<1>2. faults' \in Nat /\ ~Undisturbed'
  BY FaultsAreCounted DEF Breaks, SshInv
<1>3. HasJump' = HasJump /\ Taken' = Taken /\ Prompts' = Prompts
  BY <1>1 DEF HasJump, Taken, Broken, Prompts
<1>4. SshAt'
  BY <1>1, <1>2, <1>3 DEF SshInv, SshAt, Inside
<1> QED BY <1>1, <1>2, <1>4, NotDone DEF SshInv

LEMMA CallFailsKeeps ==
  ASSUME SshInv, CallFails \/ ChannelFails PROVE SshInv'
<1>1. /\ pc \in Inside /\ pc' = "done" /\ open' = {} /\ UNCHANGED <<engine, dev, faults, line>>
      /\ line # "up" /\ result' \in Failures \ {"auth_failure"}
  BY DEF CallFails, ChannelFails, Asks, Raises, Failures, Ends, Close, NoFault, Same, Inside
<1> QED BY <1>1, InsideEnds

LEMMA NetmikoKeeps ==
  ASSUME SshInv, Netmiko PROVE SshInv'
<1>1. engine = "netmiko" /\ pc \in Inside /\ UNCHANGED <<engine, dev, faults, line>>
  BY DEF Netmiko, NoFault, Same, Inside
<1>2. CASE pc' = "done"
  <2>1. open' = {}
    BY <1>2 DEF Netmiko, Goto, Close
  <2>2. \/ dev.secret = "bad" /\ result' \in {"unknown", "network_timeout"}
        \/ dev.prompt = "lost" /\ result' = "network_timeout"
        \/ (dev.right \/ dev.secret = "good") /\ result' = "config"
        \/ ~(dev.right \/ dev.secret = "good") /\ result' = "refusal"
    BY <1>2 DEF Netmiko, Goto, Ends
  <2>3. Entitled <=> dev.right \/ dev.secret = "good"
    BY <1>1 DEF Entitled
  <2>4. \/ result' \in {"unknown", "permission_denied"} /\ Untested
        \/ result' = "network_timeout" /\ Untested /\ engine = "netmiko"
        \/ result' \in {"config", "archive"} /\ Entitled
        \/ result' = "refusal" /\ engine = "netmiko" /\ ~Entitled
    BY <1>1, <2>2, <2>3 DEF Untested
  <2> QED BY <1>1, <1>2, <2>1, <2>4, InsideEnds
<1>3. CASE pc' # "done"
  <2>1. pc' = "command" /\ UNCHANGED <<open, result>> /\ dev.secret # "bad"
    BY <1>3 DEF Netmiko, Goto, Ends, SshInv, SshAt
  <2> QED BY <1>1, <2>1, InsideStays DEF Inside
<1> QED BY <1>2, <1>3

LEMMA ScpKeeps ==
  ASSUME SshInv, Scp PROVE SshInv'
<1>1. engine = "scp" /\ pc \in Inside /\ UNCHANGED <<engine, dev, faults, line, idx>>
  BY DEF Scp, NoFault, Same, Data, Inside
<1>2. CASE pc = "login" /\ Goto("get") /\ UNCHANGED open
  <2>1. idx' = 0
    BY <1>1, <1>2 DEF SshInv, SshAt
  <2> QED BY <1>1, <1>2, <2>1, InsideStays DEF Inside, Goto
<1>3. CASE Ends(IF dev.right THEN "config" ELSE "unknown") /\ Close
  <2>1. Entitled <=> dev.right
    BY <1>1 DEF Entitled
  <2>2. \/ dev.right /\ result' = "config"
        \/ Untested /\ result' = "unknown"
    BY <1>1, <1>3 DEF Ends, Untested
  <2> QED BY <1>1, <1>3, <2>1, <2>2, InsideEnds DEF Ends, Close
<1> QED BY <1>2, <1>3 DEF Scp

LEMMA ProxmoxStaysKeeps ==
  ASSUME SshInv, OpenSftp \/ NextPath \/ Walk \/ Walked, pc' # "done" PROVE SshInv'
<1>1. /\ pc \in Inside /\ pc' \in {"path", "walk"} /\ engine = "proxmox"
      /\ UNCHANGED <<engine, dev, faults, line, open, result>>
  BY DEF OpenSftp, NextPath, Walk, Walked, Goto, Ends, NoFault, Same, Data, Inside, SshInv, SshAt
<1> QED BY <1>1, InsideStays DEF Inside

\* A path that may not be looked at ends the collection.
LEMMA BarredKeeps ==
  ASSUME SshInv, NextPath, pc' = "done" PROVE SshInv'
<1>1. /\ pc \in Inside /\ open' = {} /\ result' = "permission_denied" /\ engine = "proxmox"
      /\ UNCHANGED <<engine, dev, faults, line>> /\ dev.barred # {}
  BY DEF NextPath, Goto, Ends, Close, NoFault, Same, Inside, SshInv, SshAt
<1> QED BY <1>1, InsideEnds DEF Untested

LEMMA PackedKeeps ==
  ASSUME SshInv, Packed PROVE SshInv'
<1>1. /\ pc \in Inside /\ pc' = "done" /\ open' = {} /\ result' = "archive"
      /\ UNCHANGED <<engine, dev, faults, line>> /\ engine = "proxmox"
  BY DEF Packed, Ends, Close, NoFault, Same, Inside, SshInv, SshAt
<1>2. Entitled
  BY <1>1 DEF Entitled
<1> QED BY <1>1, <1>2, InsideEnds

LEMMA SshKeeps ==
  ASSUME SshInv, SshNext PROVE SshInv'
<1>1. OpenSftp \/ Walk \/ Walked => pc' # "done"
  BY DEF OpenSftp, Walk, Walked, Goto
<1> QED BY <1>1, NoUserKeeps, StartKeeps, JumpKeeps, ChannelKeeps, ConnectKeeps, AuthenticatesKeeps,
   BreaksKeeps, CallFailsKeeps, NetmikoKeeps, ScpKeeps, ProxmoxStaysKeeps, BarredKeeps, PackedKeeps DEF SshNext

-----------------------------------------------------------------------------
(* All engines *)

CallInv == WebInv \/ SshInv

LEMMA InitCall == Init => CallInv
<1> SUFFICES ASSUME Init PROVE CallInv
  OBVIOUS
<1>1. /\ pc # "done" /\ result = "none" /\ faults \in Nat /\ scheme = "https" /\ session = FALSE
      /\ open = {} /\ line = "up" /\ idx = 0
  BY DEF Init, WebFirst, WebKinds
<1>2. CallKept
  BY <1>1 DEF CallKept, FetchedIsConfig, TypeTellsCause, ClosesConnections, TestTellsFetch, Done
<1>3. CASE engine \in WebKinds /\ dev \in WebDevices[engine] /\ pc = WebFirst[engine]
  <2>1. \/ pc = "rest" /\ engine = "pfsense"
        \/ pc \in {"opnsense", "oxidized"} /\ engine = pc
    <3>1. CASE engine = "pfsense" BY <1>3, <3>1 DEF WebFirst
    <3>2. CASE engine = "opnsense" BY <1>3, <3>2 DEF WebFirst
    <3>3. CASE engine = "oxidized" BY <1>3, <3>3 DEF WebFirst
    <3> QED BY <1>3, <3>1, <3>2, <3>3 DEF WebKinds
  <2>2. WebAt
    BY <1>1, <1>3, <2>1 DEF WebAt, PagePcs
  <2> QED BY <1>1, <1>2, <1>3, <2>2 DEF CallInv, WebInv
<1>4. CASE engine \in SshKinds /\ dev \in SshDevices[engine] /\ pc = "start"
  <2>1. SshAt
    BY <1>1, <1>4 DEF SshAt, Inside
  <2> QED BY <1>1, <1>2, <1>4, <2>1 DEF CallInv, SshInv
<1> QED BY <1>3, <1>4 DEF Init

LEMMA StutterCall ==
  ASSUME CallInv, UNCHANGED vars PROVE CallInv'
<1>1. UNCHANGED <<engine, dev, pc, result, faults, scheme, session, open, line, idx>>
  BY DEF vars, callVars, webVars, sshVars
<1>2. /\ Web' = Web /\ Undisturbed' = Undisturbed /\ Done' = Done /\ HasJump' = HasJump
      /\ Offers' = Offers /\ Broken' = Broken /\ Taken' = Taken /\ Prompts' = Prompts /\ PageThere' = PageThere
      /\ ByApi' = ByApi /\ Reachable' = Reachable /\ Entitled' = Entitled
      /\ PfSenseTests' = PfSenseTests /\ OpnsenseTests' = OpnsenseTests
  BY <1>1 DEF Web, Undisturbed, Done, HasJump, Offers, Broken, Taken, Prompts, PageThere, ByApi, Reachable,
    Entitled, PfSenseTests, OpnsenseTests
<1>3. Refused' = Refused /\ Unusable' = Unusable /\ WebTests' = WebTests /\ SshTests' = SshTests
  BY <1>1, <1>2 DEF Refused, Unusable, WebTests, SshTests
<1>4. CallKept' = CallKept
  BY <1>1, <1>2, <1>3 DEF CallKept, FetchedIsConfig, TypeTellsCause, ClosesConnections, TestTellsFetch
<1>5. WebAt' = WebAt
  BY <1>1, <1>2 DEF WebAt
<1>6. SshAt' = SshAt
  BY <1>1, <1>2 DEF SshAt
<1> QED BY <1>1, <1>4, <1>5, <1>6 DEF CallInv, WebInv, SshInv

LEMMA StepCall ==
  ASSUME CallInv, [Next]_vars PROVE CallInv'
<1>1. CASE WebNext /\ UNCHANGED sshVars
  <2>1. WebInv
    BY <1>1 DEF WebNext, CallInv, SshInv, SshKinds, WebKinds
  <2> QED BY <1>1, <2>1, WebKeeps DEF CallInv
<1>2. CASE SshNext
  <2>1. SshInv
    BY <1>2 DEF SshNext, CallInv, WebInv, SshKinds, WebKinds
  <2> QED BY <1>2, <2>1, SshKeeps DEF CallInv
<1> QED BY <1>1, <1>2, StutterCall DEF Next

LEMMA CallInvariant == Spec => []CallInv
BY InitCall, StepCall, PTL DEF Spec

\* What a call returns as a configuration is one, whatever the server answers and whichever
\* faults come between (fetch_config of all engines).
THEOREM FetchedConfig == Spec => []FetchedIsConfig
<1>1. CallInv => FetchedIsConfig
  BY DEF CallInv, WebInv, SshInv, CallKept
<1> QED BY <1>1, CallInvariant, PTL

\* The type that classify_error finds for an exception of an engine tells its cause.
THEOREM TypesTell == Spec => []TypeTellsCause
<1>1. CallInv => TypeTellsCause
  BY DEF CallInv, WebInv, SshInv, CallKept
<1> QED BY <1>1, CallInvariant, PTL

\* Once the login is through, a call closes what it opened.
THEOREM ConnectionsClosed == Spec => []ClosesConnections
<1>1. CallInv => ClosesConnections
  BY DEF CallInv, WebInv, SshInv, CallKept
<1> QED BY <1>1, CallInvariant, PTL

\* test_connection and a fetch agree, but for what the test does not look at.
THEOREM TestsTell == Spec => []TestTellsFetch
<1>1. CallInv => TestTellsFetch
  BY DEF CallInv, WebInv, SshInv, CallKept
<1> QED BY <1>1, CallInvariant, PTL

-----------------------------------------------------------------------------
(* Archives *)

EntriesOf(d) == {Entries[d][i] : i \in DOMAIN Entries[d]}

LEMMA EntriesAreNodes ==
  ASSUME NEW d, IsDir(d)
  PROVE  Entries[d] \in Seq(Nodes) /\ EntriesOf(d) \subseteq Nodes
BY PathAssumption DEF IsDir, EntriesOf

\* The walk does not leave what is below a node.
LEMMA BelowClosed ==
  ASSUME NEW n \in Nodes
  PROVE  n \in Below(n) /\ Below(n) \subseteq Nodes /\ Closed(Below(n))
<1>1. n \in Below(n) /\ Below(n) \subseteq Nodes
  BY DEF Below
<1>2. ASSUME NEW d \in Below(n), IsDir(d), d \notin dev.locked, NEW e \in EntriesOf(d)
      PROVE e \in Below(n)
  <2>1. e \in Nodes
    BY <1>2, EntriesAreNodes
  <2>2. ASSUME NEW S \in SUBSET Nodes, n \in S, Closed(S) PROVE e \in S
    <3>1. d \in S BY <1>2, <2>2 DEF Below
    <3> QED BY <1>2, <2>2, <3>1 DEF Closed, EntriesOf
  <2> QED BY <2>1, <2>2 DEF Below
<1> QED BY <1>1, <1>2 DEF Closed, EntriesOf

\* What the three outcomes of a visit leave to be read.
LEMMA ReadsNothing ==
  ASSUME NEW n \in Nodes, n \in dev.locked PROVE Readable(n) = {}
<1>1. Closed({n}) /\ {n} \in SUBSET Nodes
  BY DEF Closed
<1>2. Below(n) \subseteq {n}
  BY <1>1 DEF Below
<1> QED BY <1>2 DEF Readable

LEMMA ReadsItself ==
  ASSUME NEW n \in Nodes, ~IsDir(n) PROVE Readable(n) \subseteq {n}
<1>1. Closed({n}) /\ {n} \in SUBSET Nodes
  BY DEF Closed
<1> QED BY <1>1 DEF Below, Readable

LEMMA ReadsEntries ==
  ASSUME NEW n \in Nodes, IsDir(n)
  PROVE  Readable(n) \subseteq UNION {Readable(e) : e \in EntriesOf(n)}
<1> DEFINE B == UNION {Below(e) : e \in EntriesOf(n)}
           S == {n} \union B
<1>0. EntriesOf(n) \subseteq Nodes
  BY EntriesAreNodes
<1>1. S \in SUBSET Nodes
  BY <1>0, BelowClosed
<1>2. ASSUME NEW d \in S, IsDir(d), d \notin dev.locked PROVE EntriesOf(d) \subseteq S
  <2>1. CASE d = n
    BY <1>0, <2>1, BelowClosed
  <2>2. CASE d \in B
    <3>1. PICK e \in EntriesOf(n) : d \in Below(e)
      BY <2>2
    <3>2. Closed(Below(e))
      BY <1>0, <3>1, BelowClosed
    <3>3. EntriesOf(d) \subseteq Below(e)
      BY <1>2, <3>1, <3>2 DEF Closed, EntriesOf
    <3> QED BY <3>1, <3>3
  <2> QED BY <2>1, <2>2
<1>3. Closed(S)
  BY <1>2 DEF Closed, EntriesOf
<1>4. Below(n) \subseteq S
  BY <1>1, <1>3 DEF Below
<1>5. ASSUME NEW m \in Readable(n) PROVE \E e \in EntriesOf(n) : m \in Readable(e)
  <2>1. m \in Below(n) /\ ~IsDir(m) /\ m \notin dev.locked
    BY <1>5 DEF Readable
  <2>2. m \in B
    BY <1>4, <2>1
  <2> QED BY <2>1, <2>2 DEF Readable
<1> QED BY <1>5

\* What is readable below the nodes of a sequence.
Under(s) == UNION {Readable(s[k]) : k \in DOMAIN s}

LEMMA UnderOne ==
  ASSUME NEW n PROVE Under(<<n>>) = Readable(n)
BY DEF Under

LEMMA UnderConcat ==
  ASSUME NEW s \in Seq(Nodes), NEW t \in Seq(Nodes)
  PROVE  Under(s) \subseteq Under(s \o t) /\ Under(t) \subseteq Under(s \o t)
<1>1. ASSUME NEW k \in DOMAIN s PROVE k \in DOMAIN (s \o t) /\ (s \o t)[k] = s[k]
  BY <1>1
<1>2. ASSUME NEW k \in DOMAIN t PROVE \E j \in DOMAIN (s \o t) : (s \o t)[j] = t[k]
  <2>1. Len(s) + k \in DOMAIN (s \o t) /\ (s \o t)[Len(s) + k] = t[k]
    BY <1>2
  <2> QED BY <2>1
<1> QED BY <1>1, <1>2 DEF Under

LEMMA UnderHead ==
  ASSUME NEW s \in Seq(Nodes), s # <<>>
  PROVE  /\ Head(s) \in Nodes /\ Tail(s) \in Seq(Nodes)
         /\ Under(s) \subseteq Readable(Head(s)) \union Under(Tail(s))
<1>1. Head(s) \in Nodes /\ Tail(s) \in Seq(Nodes) /\ Head(s) = s[1] /\ Len(Tail(s)) = Len(s) - 1
  OBVIOUS
<1>2. ASSUME NEW k \in DOMAIN s, k # 1 PROVE \E j \in DOMAIN Tail(s) : Tail(s)[j] = s[k]
  <2>1. k - 1 \in DOMAIN Tail(s) /\ Tail(s)[k - 1] = s[k]
    BY <1>1, <1>2
  <2> QED BY <2>1
<1> QED BY <1>1, <1>2 DEF Under

\* The walk of a path: all of the paths before it is collected, and what is readable of it is
\* collected or below what is left to visit, as long as the connection is up.
ArchiveAt ==
  /\ todo \in Seq(Nodes) /\ idx \in 0 .. Len(Paths)
  /\ pc \in {"path", "walk"} => \A i \in 1 .. idx - 1 : Wanted(i) \subseteq got
  /\ pc = "path" /\ line = "up" /\ idx > 0 => Wanted(idx) \subseteq got
  /\ pc = "walk" /\ line = "up" => Wanted(idx) \subseteq got \union Under(todo)

ArchiveInv == engine = "proxmox" => ArchiveAt /\ ArchiveComplete

LEMMA PathsAreNodes ==
  /\ Paths \in Seq(Nodes) /\ Len(Paths) \in Nat \ {0}
  /\ \A i \in 1 .. Len(Paths) : Paths[i] \in Nodes
BY PathAssumption

\* What can be read does not change during a call.
LEMMA WantedStays ==
  ASSUME UNCHANGED dev
  PROVE  /\ \A n : Readable(n)' = Readable(n)
         /\ \A i : Wanted(i)' = Wanted(i)
<1>1. ASSUME NEW n PROVE Readable(n)' = Readable(n)
  BY DEF Readable, Below, Closed
<1>2. ASSUME NEW i PROVE Wanted(i)' = Wanted(i)
  BY DEF Wanted, Readable, Below, Closed
<1> QED BY <1>1, <1>2

LEMMA UnderStays ==
  ASSUME UNCHANGED dev, NEW s PROVE (Under(s))' = Under(s)
BY DEF Under, Readable, Below, Closed

LEMMA ArchiveRests ==
  ASSUME ArchiveAt, UNCHANGED <<dev, pc, idx, todo, got>>, line' = "up" => line = "up"
  PROVE  ArchiveAt'
<1>1. /\ \A i : Wanted(i)' = Wanted(i)
      /\ Under(todo)' = Under(todo)
  BY WantedStays DEF Under, Readable, Below, Closed
<1> QED BY <1>1 DEF ArchiveAt

LEMMA NextPathArchive ==
  ASSUME CallInv, engine = "proxmox", ArchiveAt, NextPath PROVE ArchiveAt'
<1>1. /\ pc = "path" /\ line = "up" /\ idx < Len(Paths) /\ idx' = idx + 1 /\ UNCHANGED <<dev, line, got>>
  BY DEF NextPath, Skipped, Same
<1>2. idx \in 0 .. Len(Paths) /\ Len(Paths) \in Nat /\ idx' \in 1 .. Len(Paths) /\ Paths[idx'] \in Nodes
  BY <1>1, PathsAreNodes DEF ArchiveAt
<1>3. \A i : Wanted(i)' = Wanted(i)
  BY <1>1, WantedStays
<1>4. ASSUME NEW i \in 1 .. idx' - 1 PROVE Wanted(i) \subseteq got
  BY <1>1, <1>2, <1>4 DEF ArchiveAt
<1>5. CASE Skipped(Paths[idx + 1]) /\ Goto("path") /\ UNCHANGED <<todo, open>>
  <2>1. Wanted(idx') = {}
    BY <1>1, <1>5 DEF Wanted, Skipped
  <2> QED BY <1>1, <1>2, <1>3, <1>4, <1>5, <2>1 DEF ArchiveAt, Goto
<1>6. CASE Goto("walk") /\ todo' = <<Paths[idx + 1]>>
  <2>1. todo' \in Seq(Nodes)
    BY <1>1, <1>2, <1>6
  <2>2. Wanted(idx') \subseteq Under(todo')
    BY <1>1, <1>6, UnderOne DEF Wanted
  <2> QED BY <1>1, <1>2, <1>3, <1>4, <1>6, <2>1, <2>2, UnderStays DEF ArchiveAt, Goto
<1>7. CASE Ends("permission_denied") /\ UNCHANGED todo
  BY <1>1, <1>3, <1>7, PathsAreNodes DEF ArchiveAt, Ends
<1> QED BY <1>5, <1>6, <1>7 DEF NextPath

LEMMA WalkArchive ==
  ASSUME CallInv, engine = "proxmox", ArchiveAt, Walk PROVE ArchiveAt'
<1> DEFINE n == Head(todo)
<1>1. pc = "walk" /\ todo # <<>> /\ UNCHANGED <<dev, line, pc, idx>>
  BY DEF Walk, Same
<1>2. /\ n \in Nodes /\ Tail(todo) \in Seq(Nodes)
      /\ Under(todo) \subseteq Readable(n) \union Under(Tail(todo))
  BY <1>1, UnderHead DEF ArchiveAt
<1>3. got \subseteq got'
  BY DEF Walk
<1>4. CASE ~(line = "up" /\ n \notin dev.locked)
  <2>1. todo' = Tail(todo) /\ got' = got
    BY <1>4 DEF Walk
  <2>2. line = "up" => Readable(n) = {}
    BY <1>2, <1>4, ReadsNothing
  <2>3. line = "up" => Wanted(idx) \subseteq got' \union Under(todo')
    BY <1>1, <1>2, <2>1, <2>2 DEF ArchiveAt
  <2> QED BY <1>1, <1>2, <1>3, <2>1, <2>3, WantedStays, UnderStays DEF ArchiveAt
<1>5. CASE line = "up" /\ n \notin dev.locked /\ IsDir(n)
  <2>1. todo' = Entries[n] \o Tail(todo) /\ got' = got
    BY <1>5 DEF Walk, Listed
  <2>2. Entries[n] \in Seq(Nodes)
    BY <1>5, EntriesAreNodes
  <2>3. Readable(n) \subseteq Under(Entries[n])
    BY <1>2, <1>5, ReadsEntries DEF Under, EntriesOf
  <2>4. Under(todo) \subseteq Under(todo') /\ todo' \in Seq(Nodes)
    <3>1. /\ Under(Entries[n]) \subseteq Under(Entries[n] \o Tail(todo))
          /\ Under(Tail(todo)) \subseteq Under(Entries[n] \o Tail(todo))
      BY <1>2, <2>2, UnderConcat
    <3>2. Entries[n] \o Tail(todo) \in Seq(Nodes)
      BY <1>2, <2>2
    <3> QED BY <1>2, <2>1, <2>3, <3>1, <3>2
  <2> QED BY <1>1, <1>2, <1>3, <2>1, <2>4, WantedStays, UnderStays DEF ArchiveAt
<1>6. CASE line = "up" /\ n \notin dev.locked /\ ~IsDir(n)
  <2>1. todo' = Tail(todo) /\ got' = got \union {n}
    BY <1>6 DEF Walk
  <2>2. Readable(n) \subseteq {n}
    BY <1>2, <1>6, ReadsItself
  <2>3. Wanted(idx) \subseteq got' \union Under(todo')
    BY <1>1, <1>2, <1>6, <2>1, <2>2 DEF ArchiveAt
  <2> QED BY <1>1, <1>2, <1>3, <2>1, <2>3, WantedStays, UnderStays DEF ArchiveAt
<1> QED BY <1>4, <1>5, <1>6

LEMMA WalkedArchive ==
  ASSUME ArchiveAt, Walked PROVE ArchiveAt'
<1>1. pc = "walk" /\ todo = <<>> /\ pc' = "path" /\ UNCHANGED <<dev, line, idx, todo, got>>
  BY DEF Walked, Goto, Same, Data
<1>2. Under(todo) = {}
  BY <1>1 DEF Under
<1> QED BY <1>1, <1>2, WantedStays DEF ArchiveAt

LEMMA PackedArchive ==
  ASSUME ArchiveAt, Packed PROVE ArchiveComplete'
<1>1. pc = "path" /\ idx = Len(Paths) /\ UNCHANGED <<dev, line, got>>
  BY DEF Packed, Same, Data
<1>2. /\ \A i \in 1 .. Len(Paths) - 1 : Wanted(i) \subseteq got
      /\ line = "up" => Wanted(Len(Paths)) \subseteq got
  BY <1>1, PathsAreNodes DEF ArchiveAt
<1> QED BY <1>1, <1>2, WantedStays DEF ArchiveComplete

LEMMA StepArchive ==
  ASSUME CallInv, ArchiveInv, [Next]_vars PROVE ArchiveInv'
<1>1. UNCHANGED <<engine, dev>>
  BY DEF Next, WebNext, NoName, NoKey, TriesHttp, Rest, LoginPage, Login, BackupPage, Download,
    Opnsense, Oxidized, SshNext, NoUser, Start, Jump, Channel, Connect, Authenticates, Breaks,
    CallFails, ChannelFails, Netmiko, Scp, OpenSftp, NextPath, Walk, Walked, Packed, Same, vars, callVars
<1>2. SUFFICES ASSUME engine = "proxmox" PROVE ArchiveAt' /\ ArchiveComplete'
  BY <1>1 DEF ArchiveInv
<1>3. SshInv /\ ArchiveAt /\ ArchiveComplete
  BY <1>2 DEF CallInv, WebInv, WebKinds, ArchiveInv
<1>4. CASE UNCHANGED vars
  <2>1. UNCHANGED <<dev, pc, result, line, idx, todo, got>>
    BY <1>4 DEF vars, callVars, sshVars
  <2>2. ArchiveComplete'
    BY <1>3, <2>1, <1>1, WantedStays DEF ArchiveComplete, Returned, Done
  <2> QED BY <1>3, <2>1, <2>2, ArchiveRests
<1>5. CASE SshNext
  <2>1. ASSUME Data, pc' \notin {"path", "walk"}, pc' = "done" => result' \notin Texts
        PROVE  ArchiveAt' /\ ArchiveComplete'
    BY <1>3, <2>1 DEF ArchiveAt, Data, ArchiveComplete, Returned, Done
  <2>2. CASE NoUser \/ Start
    <3>1. /\ Data /\ pc' \notin {"path", "walk"}
          /\ pc' = "done" => result' \in {"invalid_params", "unknown"}
      BY <2>2 DEF NoUser, Start, Ends, Goto, Data, sshVars
    <3> QED BY <2>1, <3>1 DEF Texts
  <2>3. CASE Jump \/ Channel
    <3>1. /\ Data /\ pc' \notin {"path", "walk"}
          /\ pc' = "done" => result' \in Failures \union {"permission_denied"}
      BY <2>3 DEF Jump, Channel, LostLogin, Failures, Ends, Goto
    <3> QED BY <2>1, <3>1, TypesOfFailures
  <2>4. CASE Connect \/ Authenticates
    <3>1. /\ Data /\ pc' \notin {"path", "walk"}
          /\ pc' = "done" => result' \in Failures \union {"permission_denied"}
      BY <2>4 DEF Connect, Authenticates, Unreachable, LostLogin, Rejections, Failures, Ends, Goto
    <3> QED BY <2>1, <3>1, TypesOfFailures
  <2>5. CASE Breaks
    <3>1. UNCHANGED <<dev, pc, result, idx, todo, got>> /\ line = "up" /\ pc # "done"
      BY <2>5 DEF Breaks, Data, Same
    <3> QED BY <1>3, <3>1, ArchiveRests DEF ArchiveComplete, Returned, Done
  <2>6. CASE CallFails \/ ChannelFails
    <3>1. Data /\ pc' = "done" /\ result' \in Failures
      BY <2>6 DEF CallFails, ChannelFails, Raises, Failures, Ends
    <3> QED BY <2>1, <3>1, TypesOfFailures
  <2>7. CASE OpenSftp
    <3>1. idx' = 0 /\ pc' = "path" /\ UNCHANGED <<todo, got>>
      BY <1>3, <2>7 DEF OpenSftp, Goto, Data, SshInv, SshAt
    <3> QED BY <1>3, <3>1, PathsAreNodes DEF ArchiveAt, ArchiveComplete, Returned, Done
  <2>8. CASE NextPath \/ Walk \/ Walked
    <3>1. pc' = "done" => result' = "permission_denied"
      BY <2>8 DEF NextPath, Walk, Walked, Goto, Ends
    <3> QED BY <1>2, <1>3, <2>8, <3>1, NextPathArchive, WalkArchive, WalkedArchive, TypesOfFailures
      DEF ArchiveComplete, Returned, Done
  <2>9. CASE Packed
    <3>1. UNCHANGED <<idx, todo, got>> /\ pc' = "done"
      BY <2>9 DEF Packed, Ends, Data
    <3>2. ArchiveAt'
      BY <1>3, <3>1 DEF ArchiveAt
    <3> QED BY <1>3, <2>9, <3>2, PackedArchive
  <2> QED BY <1>2, <1>5, <2>2, <2>3, <2>4, <2>5, <2>6, <2>7, <2>8, <2>9 DEF SshNext, Netmiko, Scp
<1> QED BY <1>2, <1>4, <1>5 DEF Next, WebNext, WebKinds

\* An archive has all that can be read below the paths, of every tree, unless the connection
\* was lost in the last path (_collect_tgz).
THEOREM ArchivesComplete == Spec => []ArchiveComplete
<1>1. Init => CallInv /\ ArchiveInv
  <2> SUFFICES ASSUME Init PROVE ArchiveInv
    BY InitCall
  <2>1. idx = 0 /\ todo = <<>> /\ pc # "done" /\ pc \notin {"path", "walk"}
    BY DEF Init, WebFirst, WebKinds
  <2> QED BY <2>1, PathsAreNodes DEF ArchiveInv, ArchiveAt, ArchiveComplete, Returned, Done
<1>2. CallInv /\ ArchiveInv /\ [Next]_vars => (CallInv /\ ArchiveInv)'
  BY StepCall, StepArchive
<1>3. CallInv /\ ArchiveInv => ArchiveComplete
  BY DEF CallInv, WebInv, SshInv, WebKinds, ArchiveInv, ArchiveComplete, Returned, Done
<1> QED BY <1>1, <1>2, <1>3, PTL DEF Spec
=============================================================================
