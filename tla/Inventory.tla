------------------------------- MODULE Inventory -------------------------------
(***************************************************************************)
(* What an installation backs up, and where to: destinations, groups,      *)
(* locations, devices and credentials, and the handlers that change them   *)
(* (app/routers/groups.py, devices.py, locations.py, credentials.py,       *)
(* destinations.py, api.py, and app/modules/location_service.py).          *)
(*                                                                         *)
(* Rows refer to each other in three ways: a foreign key (the credentials  *)
(* of a device; the group and the Telegram channel of a location), a name  *)
(* (the group of a device), a list of ids (the destinations of a group or  *)
(* a device).  Only foreign keys are enforced (app/database.py), and the   *)
(* ids of deleted rows are given out again.                                *)
(*                                                                         *)
(* Every handler runs from its reads to its commit without an await, or    *)
(* awaits a form whose values the model leaves open: one action each.  A   *)
(* request that is refused, or rolled back, changes nothing.  The names of *)
(* destinations and locations, which only refuse requests, are left out.   *)
(***************************************************************************)
EXTENDS Integers

CONSTANTS
  NDest, NGroup, NLoc, NDev, NCred,  \* bounds: ids of each table
  Bases,        \* group names, without the suffix that makes one unique
  Default,      \* the base of the group "default"
  Tickable,     \* bound: ids of the destinations that forms tick
  MaxRequests   \* bound: requests

ASSUME BoundAssumption ==
  /\ NDest \in Nat /\ NGroup \in Nat \ {0} /\ NLoc \in Nat /\ NDev \in Nat /\ NCred \in Nat
  /\ MaxRequests \in Nat
ASSUME NameAssumption == Default \in Bases

DestIds == 1 .. NDest
GroupIds == 1 .. NGroup
LocIds == 1 .. NLoc
DevIds == 1 .. NDev
CredIds == 1 .. NCred

\* <<"site", 2>> is the name site-2.
GroupNames == Bases \X (1 .. NGroup)
DefaultName == <<Default, 1>>

VARIABLES
  keyed,   \* devices.proxy_credential_id is a foreign key: not where an upgrade has added it
  dests,   \* the destinations table
  groups,  \* the groups table
  locs,    \* the locations table
  devs,    \* the devices table
  creds,   \* ids in the credentials table
  requests

vars == <<keyed, dests, groups, locs, devs, creds, requests>>

-----------------------------------------------------------------------------
(* Rows: 0 is a null reference, {} a null or empty list of destinations *)

Kinds == {"local", "telegram"}
Dest == [kind : Kinds \union {"none"}, enabled : BOOLEAN]
Group == [there : BOOLEAN, name : GroupNames, dests : SUBSET DestIds]
Loc == [there : BOOLEAN, dest : DestIds \union {0}, group : GroupIds \union {0}]
Dev == [there : BOOLEAN, group : GroupNames, override : SUBSET DestIds,
        cred : CredIds \union {0}, proxy : CredIds \union {0}]

NoDest == [kind |-> "none", enabled |-> FALSE]
NoGroup == [there |-> FALSE, name |-> DefaultName, dests |-> {}]
NoLoc == [there |-> FALSE, dest |-> 0, group |-> 0]
NoDev == [there |-> FALSE, group |-> DefaultName, override |-> {}, cred |-> 0, proxy |-> 0]

LiveDests == {d \in DestIds : dests[d].kind # "none"}
LiveGroups == {g \in GroupIds : groups[g].there}
LiveLocs == {l \in LocIds : locs[l].there}
LiveDevs == {v \in DevIds : devs[v].there}

\* The type invariant: every table holds rows of its columns.
TypeOK ==
  /\ keyed \in BOOLEAN
  /\ dests \in [DestIds -> Dest]
  /\ groups \in [GroupIds -> Group]
  /\ locs \in [LocIds -> Loc]
  /\ devs \in [DevIds -> Dev]
  /\ creds \subseteq CredIds
  /\ requests \in 0 .. MaxRequests

\* A new installation, or one whose operator has set up a local destination and the main
\* channel, as creating locations asks for.
SetUp(d) == [kind |-> IF d = 1 THEN "local" ELSE "telegram", enabled |-> TRUE]

Init ==
  /\ keyed \in BOOLEAN
  /\ \E first \in {0, 2} : dests = [d \in DestIds |-> IF d <= first THEN SetUp(d) ELSE NoDest]
  /\ groups = [g \in GroupIds |-> NoGroup]
  /\ locs = [l \in LocIds |-> NoLoc]
  /\ devs = [v \in DevIds |-> NoDev]
  /\ creds = {}
  /\ requests = 0

\* The id of an inserted row: one above the highest in use.
NextId(i, live) == (\A k \in live : k < i) /\ (i = 1 \/ i - 1 \in live)
First(i, S) == i \in S /\ \A k \in S : i <= k

GroupNamed(n) == {g \in LiveGroups : groups[g].name = n}
\* Seeded fault: groups.name is not unique.
AnyName(g, n) == TRUE
\* groups.name is unique.
NameFreeFor(g, n) == GroupNamed(n) \subseteq {g}

\* What the group of that name makes its devices save to.
Defaults(n) == UNION {groups[g].dests : g \in GroupNamed(n)}
\* The devices of a location, by the name of its group
Members(l) ==
  {v \in LiveDevs : locs[l].group # 0 /\ devs[v].group = groups[locs[l].group].name}

-----------------------------------------------------------------------------
(* Destinations *)

Request == requests < MaxRequests /\ requests' = requests + 1 /\ UNCHANGED keyed

\* The forms list the rows there are.
Picks == SUBSET (LiveDests \intersect Tickable)

\* add_destination, api_create_destination, api_create_default_telegram
AddDestination(d, kind, enabled) ==
  /\ Request
  /\ NextId(d, LiveDests)
  /\ dests' = [dests EXCEPT ![d] = [kind |-> kind, enabled |-> enabled]]
  /\ UNCHANGED <<groups, locs, devs, creds>>

EditDestination(d, kind, enabled) ==
  /\ Request
  /\ d \in LiveDests
  /\ dests' = [dests EXCEPT ![d] = [kind |-> kind, enabled |-> enabled]]
  /\ UNCHANGED <<groups, locs, devs, creds>>

\* Seeded fault: the foreign keys have no ON DELETE.
LeftLinked(loc, D, G) == loc
\* ON DELETE SET NULL, for destinations D and groups G
Unlinked(loc, D, G) ==
  [loc EXCEPT !.dest = IF @ \in D THEN 0 ELSE @, !.group = IF @ \in G THEN 0 ELSE @]

\* delete_destination, api_delete_destination.  The lists of groups and devices keep the id.
DeleteDestination(d) ==
  /\ Request
  /\ d \in LiveDests
  /\ dests' = [dests EXCEPT ![d] = NoDest]
  /\ locs' = [l \in LocIds |-> Unlinked(locs[l], {d}, {})]
  /\ UNCHANGED <<groups, devs, creds>>

-----------------------------------------------------------------------------
(* Groups *)

\* add_group
AddGroup(g, n, S) ==
  /\ Request
  /\ NextId(g, LiveGroups) /\ GroupNamed(n) = {}
  /\ groups' = [groups EXCEPT ![g] = [there |-> TRUE, name |-> n, dests |-> S]]
  /\ UNCHANGED <<dests, locs, devs, creds>>

\* edit_group: the devices keep the name they have.
EditGroup(g, n, S) ==
  /\ Request
  /\ g \in LiveGroups /\ NameFreeFor(g, n)
  /\ groups' = [groups EXCEPT ![g].name = n, ![g].dests = S]
  /\ UNCHANGED <<dests, locs, devs, creds>>

\* delete_group
DeleteGroup(g) ==
  /\ Request
  /\ g \in LiveGroups
  /\ groups' = [groups EXCEPT ![g] = NoGroup]
  /\ locs' = [l \in LocIds |-> Unlinked(locs[l], {}, {g})]
  /\ UNCHANGED <<dests, devs, creds>>

-----------------------------------------------------------------------------
(* Locations *)

Suffixed(base, k) == <<base, k>>

Enabled(kind) == {d \in DestIds : dests[d] = [kind |-> kind, enabled |-> TRUE]}

\* create_location: a channel, a group that saves to the local destination, the main
\* channel and the new one, and the row itself, in one commit.  base is the sanitized name.
CreateLocation(l, base) ==
  /\ Request
  /\ NextId(l, LiveLocs)
  /\ \E main, local, new \in DestIds, g \in GroupIds, k \in 1 .. NGroup :
       /\ First(main, Enabled("telegram")) /\ First(local, Enabled("local"))
       /\ NextId(new, LiveDests) /\ NextId(g, LiveGroups)
       /\ First(k, {j \in 1 .. NGroup : GroupNamed(<<base, j>>) = {}})
       /\ dests' = [dests EXCEPT ![new] = [kind |-> "telegram", enabled |-> TRUE]]
       /\ groups' = [groups EXCEPT ![g] =
                       [there |-> TRUE, name |-> Suffixed(base, k), dests |-> {local, main, new}]]
       /\ locs' = [locs EXCEPT ![l] = [there |-> TRUE, dest |-> new, group |-> g]]
  /\ UNCHANGED <<devs, creds>>

\* Location.enabled, which only filters what is listed, is that of the channel.
Switched(l, on) ==
  dests' = [d \in DestIds |-> IF d = locs[l].dest THEN [dests[d] EXCEPT !.enabled = on]
                                                  ELSE dests[d]]

\* update_location.  A new name renames the group, and no device follows; a name that another
\* group has is refused at the commit.  fields: what the request sets.
UpdateLocation(l, fields, base, on) ==
  /\ Request
  /\ l \in LiveLocs /\ fields # {}
  /\ IF "name" \in fields /\ locs[l].group # 0
       THEN /\ NameFreeFor(locs[l].group, <<base, 1>>)
            /\ groups' = [groups EXCEPT ![locs[l].group].name = <<base, 1>>]
       ELSE UNCHANGED groups
  /\ IF "enabled" \in fields THEN Switched(l, on) ELSE UNCHANGED dests
  /\ UNCHANGED <<locs, devs, creds>>

\* delete_location, cascade=False
SoftDelete(l) ==
  /\ Request
  /\ l \in LiveLocs
  /\ Switched(l, FALSE)
  /\ UNCHANGED <<groups, locs, devs, creds>>

\* delete_location, cascade=True
HardDelete(l) ==
  /\ Request
  /\ l \in LiveLocs
  /\ devs' = [v \in DevIds |-> IF v \in Members(l) THEN [devs[v] EXCEPT !.group = DefaultName]
                                                   ELSE devs[v]]
  /\ groups' = [g \in GroupIds |-> IF g = locs[l].group THEN NoGroup ELSE groups[g]]
  /\ dests' = [d \in DestIds |-> IF d = locs[l].dest THEN NoDest ELSE dests[d]]
  /\ locs' = [k \in LocIds |-> IF k = l THEN NoLoc
                ELSE Unlinked(locs[k], {locs[l].dest} \ {0}, {locs[l].group} \ {0})]
  /\ UNCHANGED creds

\* assign_devices_to_location
AssignDevices(l, V) ==
  /\ Request
  /\ l \in LiveLocs /\ locs[l].group # 0 /\ V # {}
  /\ devs' = [v \in DevIds |-> IF v \in V
                THEN [devs[v] EXCEPT !.group = groups[locs[l].group].name] ELSE devs[v]]
  /\ UNCHANGED <<dests, groups, locs, creds>>

-----------------------------------------------------------------------------
(* Devices *)

\* The override the form stores for the boxes S: no default of the group can be left out,
\* and without extras the device follows its group.
FormOverride(n, S) ==
  IF Defaults(n) # {} /\ S \subseteq Defaults(n) THEN {} ELSE S \union Defaults(n)

FormDevice(n, S, c, p) ==
  [there |-> TRUE, group |-> n, override |-> FormOverride(n, S), cred |-> c, proxy |-> p]

\* A credential that is not there violates the foreign key; a form opened before its
\* deletion can still name one as the proxy's where there is none.
Refs == creds \union {0}
Proxies == IF keyed THEN Refs ELSE CredIds \union {0}

\* add_device, edit_device: without defaults, some box must be ticked.
SaveDevice(v, n, S, c, p) ==
  /\ Request
  /\ v \in LiveDevs \/ NextId(v, LiveDevs)
  /\ Defaults(n) # {} \/ S # {}
  /\ devs' = [devs EXCEPT ![v] = FormDevice(n, S, c, p)]
  /\ UNCHANGED <<dests, groups, locs, creds>>

\* import_oxidized_submit, api_create_device
ImportDevice(v, n, c) ==
  /\ Request
  /\ NextId(v, LiveDevs)
  /\ devs' = [devs EXCEPT ![v] =
                [there |-> TRUE, group |-> n, override |-> {}, cred |-> c, proxy |-> 0]]
  /\ UNCHANGED <<dests, groups, locs, creds>>

\* batch_edit_devices; api_update_device, for one device
EditFields(V, fields, n, c) ==
  /\ Request
  /\ V # {} /\ fields # {}
  /\ devs' = [v \in DevIds |-> IF v \notin V THEN devs[v] ELSE
                [devs[v] EXCEPT !.group = IF "group" \in fields THEN n ELSE @,
                                !.cred = IF "credential" \in fields THEN c ELSE @]]
  /\ UNCHANGED <<dests, groups, locs, creds>>

\* delete_device, api_delete_device.  (A device with failure records is refused.)
DeleteDevice(v) ==
  /\ Request
  /\ v \in LiveDevs
  /\ devs' = [devs EXCEPT ![v] = NoDev]
  /\ UNCHANGED <<dests, groups, locs, creds>>

-----------------------------------------------------------------------------
(* Credentials *)

\* add_credential, api_create_credential
AddCredential(c) ==
  /\ Request
  /\ NextId(c, creds)
  /\ creds' = creds \union {c}
  /\ UNCHANGED <<dests, groups, locs, devs>>

\* Seeded fault: a proxy is forgotten.
WithoutLogin(dev, c) == [dev EXCEPT !.cred = IF @ = c THEN 0 ELSE @]
\* The devices that use the credential, directly or for the proxy, are unlinked.
Without(dev, c) ==
  [dev EXCEPT !.cred = IF @ = c THEN 0 ELSE @, !.proxy = IF @ = c THEN 0 ELSE @]

\* delete_credential
DeleteCredential(c) ==
  /\ Request
  /\ c \in creds
  /\ creds' = creds \ {c}
  /\ devs' = [v \in DevIds |-> Without(devs[v], c)]
  /\ UNCHANGED <<dests, groups, locs>>

\* _fix_orphaned_credential_refs, at every start
Restart ==
  /\ devs' = [v \in DevIds |->
                [devs[v] EXCEPT !.cred = IF @ \in Refs THEN @ ELSE 0,
                                !.proxy = IF @ \in Refs THEN @ ELSE 0]]
  /\ UNCHANGED <<keyed, dests, groups, locs, creds, requests>>

-----------------------------------------------------------------------------
DestinationRequest ==
  \/ \E d \in DestIds, kind \in Kinds, enabled \in BOOLEAN :
       AddDestination(d, kind, enabled) \/ EditDestination(d, kind, enabled)
  \/ \E d \in DestIds : DeleteDestination(d)

GroupRequest ==
  \/ \E g \in GroupIds, n \in GroupNames, S \in Picks :
       AddGroup(g, n, S) \/ EditGroup(g, n, S)
  \/ \E g \in GroupIds : DeleteGroup(g)

LocationRequest ==
  \/ \E l \in LocIds, base \in Bases : CreateLocation(l, base)
  \/ \E l \in LocIds, fields \in SUBSET {"name", "enabled"}, base \in Bases, on \in BOOLEAN :
       UpdateLocation(l, fields, base, on)
  \/ \E l \in LocIds : SoftDelete(l) \/ HardDelete(l)
  \/ \E l \in LocIds, V \in SUBSET LiveDevs : AssignDevices(l, V)

DeviceRequest ==
  \/ \E v \in DevIds, n \in GroupNames, S \in Picks, c \in Refs, p \in Proxies :
       SaveDevice(v, n, S, c, p)
  \/ \E v \in DevIds, n \in GroupNames, c \in Refs : ImportDevice(v, n, c)
  \/ \E V \in SUBSET LiveDevs, fields \in SUBSET {"group", "credential"},
        n \in GroupNames, c \in Refs :
       EditFields(V, fields, n, c)
  \/ \E v \in DevIds : DeleteDevice(v)

CredentialRequest == \E c \in CredIds : AddCredential(c) \/ DeleteCredential(c)

Next ==
  \/ DestinationRequest \/ GroupRequest \/ LocationRequest \/ DeviceRequest \/ CredentialRequest
  \/ Restart

Spec == Init /\ [][Next]_vars

-----------------------------------------------------------------------------
(* Properties *)

\* Every foreign key names a row that is there, although rows are deleted and their ids
\* given out again: the handlers or the database unlink what a deleted row leaves behind
\* (credentials.py, ON DELETE SET NULL of models/location.py).
ReferencesResolve ==
  /\ \A l \in LiveLocs : /\ locs[l].dest \in LiveDests \union {0}
                         /\ locs[l].group \in LiveGroups \union {0}
  /\ \A v \in LiveDevs : devs[v].cred \in Refs /\ devs[v].proxy \in Proxies

\* Locations stay apart: no two have a channel in common, and no device belongs to two.
\* create_location gives each a channel and a group of its own, which must not come to
\* another location with a freed id or a renamed group.
LocationsApart ==
  \A k, l \in LiveLocs : k # l =>
    /\ locs[k].dest = locs[l].dest => locs[k].dest = 0
    /\ Members(k) \intersect Members(l) = {}

\* Deleting a location with cascade touches no other: the others keep their channel, their
\* group and their devices (delete_location finds the devices by the name of the group).
DeletionIsLocal ==
  [][\A l \in LocIds : HardDelete(l) =>
       \A k \in LiveLocs \ {l} : locs'[k] = locs[k] /\ Members(k) \subseteq Members(k)']_vars
=============================================================================
