----------------------------- MODULE InventoryProofs -----------------------------
(***************************************************************************)
(* The type invariant of Inventory, that its references resolve and that   *)
(* its locations stay apart, for every bound and every set of names.       *)
(*                                                                         *)
(* References resolve because deletions unlink; that is inductive beside   *)
(* the types.  Locations stay apart because a new channel and a new group  *)
(* take ids that nothing refers to, and because no two groups have one     *)
(* name, so that the devices of a group are those of one location at most. *)
(***************************************************************************)
EXTENDS Inventory, TLAPS

LocRefs ==
  \A l \in LiveLocs : /\ locs[l].dest \in LiveDests \union {0}
                      /\ locs[l].group \in LiveGroups \union {0}
DevRefs == \A v \in LiveDevs : devs[v].cred \in Refs /\ devs[v].proxy \in Proxies
UniqueNames == \A g, h \in LiveGroups : groups[g].name = groups[h].name => g = h
\* A channel and a group belong to one location at most.
Owned ==
  \A k, l \in LiveLocs : k # l =>
    /\ locs[k].dest = locs[l].dest => locs[k].dest = 0
    /\ locs[k].group = locs[l].group => locs[k].group = 0

IInv == TypeOK /\ LocRefs /\ DevRefs /\ UniqueNames /\ Owned

-----------------------------------------------------------------------------
(* Rows *)

LEMMA Names ==
  /\ DefaultName \in GroupNames
  /\ \A base \in Bases, k \in 1 .. NGroup : <<base, k>> \in GroupNames
BY BoundAssumption, NameAssumption DEF DefaultName, GroupNames

LEMMA EmptyRows ==
  /\ NoDest \in Dest /\ NoDest.kind = "none"
  /\ NoGroup \in Group /\ ~NoGroup.there
  /\ NoLoc \in Loc /\ ~NoLoc.there
  /\ NoDev \in Dev /\ ~NoDev.there
<1>1. NoDest \in Dest /\ NoDest.kind = "none"
  BY DEF NoDest, Dest
<1>2. NoGroup \in Group /\ ~NoGroup.there
  BY Names DEF NoGroup, Group
<1>3. NoLoc \in Loc /\ ~NoLoc.there
  BY DEF NoLoc, Loc
<1>4. NoDev \in Dev /\ ~NoDev.there
  BY Names DEF NoDev, Dev
<1> QED BY <1>1, <1>2, <1>3, <1>4

LEMMA UnlinkedRow ==
  ASSUME NEW loc \in Loc, NEW D, NEW G
  PROVE  /\ Unlinked(loc, D, G) \in Loc
         /\ Unlinked(loc, D, G).there = loc.there
         /\ Unlinked(loc, D, G).dest = IF loc.dest \in D THEN 0 ELSE loc.dest
         /\ Unlinked(loc, D, G).group = IF loc.group \in G THEN 0 ELSE loc.group
BY DEF Unlinked, Loc

LEMMA WithoutRow ==
  ASSUME NEW dev \in Dev, NEW c
  PROVE  /\ Without(dev, c) \in Dev
         /\ Without(dev, c).there = dev.there
         /\ Without(dev, c).cred = IF dev.cred = c THEN 0 ELSE dev.cred
         /\ Without(dev, c).proxy = IF dev.proxy = c THEN 0 ELSE dev.proxy
BY DEF Without, Dev

LEMMA RegroupedRow ==
  ASSUME NEW dev \in Dev, NEW n \in GroupNames
  PROVE  /\ [dev EXCEPT !.group = n] \in Dev
         /\ [dev EXCEPT !.group = n].there = dev.there
         /\ [dev EXCEPT !.group = n].group = n
         /\ [dev EXCEPT !.group = n].cred = dev.cred
         /\ [dev EXCEPT !.group = n].proxy = dev.proxy
BY DEF Dev

LEMMA SwitchedRow ==
  ASSUME NEW dest \in Dest, NEW on \in BOOLEAN
  PROVE  /\ [dest EXCEPT !.enabled = on] \in Dest
         /\ [dest EXCEPT !.enabled = on].kind = dest.kind
BY DEF Dest

LEMMA FreshId ==
  ASSUME NEW i \in Int, NEW S \in SUBSET Int, NextId(i, S)
  PROVE  i \notin S
BY DEF NextId

\* What a handler that leaves a table alone cannot disturb.
LEMMA LocRefsKept ==
  ASSUME LocRefs, UNCHANGED locs, LiveDests \subseteq LiveDests', LiveGroups \subseteq LiveGroups'
  PROVE  LocRefs'
BY DEF LocRefs, LiveLocs

LEMMA DevRefsKept ==
  ASSUME DevRefs, UNCHANGED <<devs, keyed>>, creds \subseteq creds'
  PROVE  DevRefs'
BY DEF DevRefs, LiveDevs, Refs, Proxies

LEMMA UniqueKept ==
  ASSUME UniqueNames, UNCHANGED groups
  PROVE  UniqueNames'
BY DEF UniqueNames, LiveGroups

LEMMA OwnedKept ==
  ASSUME Owned, UNCHANGED locs
  PROVE  Owned'
BY DEF Owned, LiveLocs

LEMMA Counted == ASSUME TypeOK, Request PROVE requests' \in 0 .. MaxRequests /\ UNCHANGED keyed
BY BoundAssumption DEF TypeOK, Request

-----------------------------------------------------------------------------
(* The initial states *)

LEMMA InitInv == Init => IInv
<1> SUFFICES ASSUME Init PROVE IInv
  OBVIOUS
<1>1. PICK first \in {0, 2} :
        dests = [d \in DestIds |-> IF d <= first THEN SetUp(d) ELSE NoDest]
  BY DEF Init
<1>2. \A d \in DestIds : SetUp(d) \in Dest
  BY DEF SetUp, Dest, Kinds
<1>3. TypeOK
  BY <1>1, <1>2, EmptyRows, BoundAssumption DEF Init, TypeOK
<1>4. LiveLocs = {} /\ LiveGroups = {} /\ LiveDevs = {}
  BY EmptyRows DEF Init, LiveLocs, LiveGroups, LiveDevs
<1> QED BY <1>3, <1>4 DEF IInv, LocRefs, DevRefs, UniqueNames, Owned

-----------------------------------------------------------------------------
(* Destinations *)

LEMMA DestinationStep ==
  ASSUME IInv, DestinationRequest
  PROVE  IInv'
<1> USE DEF IInv
<1>Saved. ASSUME NEW d \in DestIds, NEW kind \in Kinds, NEW enabled \in BOOLEAN,
                 AddDestination(d, kind, enabled) \/ EditDestination(d, kind, enabled)
          PROVE  IInv'
  <2>1. /\ Request
        /\ dests' = [dests EXCEPT ![d] = [kind |-> kind, enabled |-> enabled]]
        /\ UNCHANGED <<groups, locs, devs, creds>>
    BY <1>Saved DEF AddDestination, EditDestination
  <2>2. TypeOK'
    BY <2>1, Counted DEF TypeOK, Dest
  <2>3. LiveDests \subseteq LiveDests' /\ LiveGroups \subseteq LiveGroups'
    BY <2>1 DEF LiveDests, LiveGroups, TypeOK, Kinds
  <2> QED BY <2>1, <2>2, <2>3, LocRefsKept, DevRefsKept, Counted, UniqueKept, OwnedKept
<1>DeleteDestination. ASSUME NEW d \in DestIds, DeleteDestination(d) PROVE IInv'
  <2>1. /\ Request
        /\ dests' = [dests EXCEPT ![d] = NoDest]
        /\ locs' = [l \in LocIds |-> Unlinked(locs[l], {d}, {})]
        /\ UNCHANGED <<groups, devs, creds>>
    BY <1>DeleteDestination DEF DeleteDestination
  <2>2. \A l \in LocIds : /\ locs'[l] \in Loc
                          /\ locs'[l].there = locs[l].there
                          /\ locs'[l].dest = IF locs[l].dest = d THEN 0 ELSE locs[l].dest
                          /\ locs'[l].group = locs[l].group
    BY <2>1, UnlinkedRow DEF TypeOK
  <2>3. TypeOK'
    BY <2>1, <2>2, EmptyRows, Counted DEF TypeOK
  <2>4. LiveLocs' = LiveLocs /\ LiveGroups' = LiveGroups /\ LiveDests \ {d} \subseteq LiveDests'
    BY <2>1, <2>2 DEF LiveLocs, LiveGroups, LiveDests, TypeOK
  <2>5. LocRefs'
    <3> SUFFICES ASSUME NEW l \in LiveLocs
                 PROVE  /\ locs'[l].dest \in LiveDests' \union {0}
                        /\ locs'[l].group \in LiveGroups' \union {0}
      BY <2>4 DEF LocRefs
    <3> QED BY <2>2, <2>4 DEF LocRefs, LiveLocs
  <2>6. Owned'
    BY <2>2, <2>4 DEF Owned, LiveLocs
  <2> QED BY <2>1, <2>3, <2>5, <2>6, DevRefsKept, Counted, UniqueKept
<1> QED BY <1>Saved, <1>DeleteDestination DEF DestinationRequest

-----------------------------------------------------------------------------
(* Groups *)

LEMMA GroupStep ==
  ASSUME IInv, GroupRequest
  PROVE  IInv'
<1> USE DEF IInv
<1>AddGroup. ASSUME NEW g \in GroupIds, NEW n \in GroupNames, NEW S \in Picks, AddGroup(g, n, S)
             PROVE  IInv'
  <2>1. /\ Request /\ GroupNamed(n) = {}
        /\ groups' = [groups EXCEPT ![g] = [there |-> TRUE, name |-> n, dests |-> S]]
        /\ UNCHANGED <<dests, locs, devs, creds>>
    BY <1>AddGroup DEF AddGroup
  <2>2. S \subseteq DestIds
    BY DEF Picks, LiveDests
  <2>3. TypeOK'
    BY <2>1, <2>2, Counted DEF TypeOK, Group
  <2>4. LiveDests' = LiveDests /\ LiveGroups' = LiveGroups \union {g}
    BY <2>1 DEF LiveDests, LiveGroups, TypeOK
  <2>5. UniqueNames'
    BY <2>1, <2>4 DEF UniqueNames, GroupNamed, LiveGroups, TypeOK
  <2> QED BY <2>1, <2>3, <2>4, <2>5, LocRefsKept, DevRefsKept, Counted, OwnedKept
<1>EditGroup. ASSUME NEW g \in GroupIds, NEW n \in GroupNames, NEW S \in Picks, EditGroup(g, n, S)
              PROVE  IInv'
  <2>1. /\ Request /\ g \in LiveGroups /\ NameFreeFor(g, n)
        /\ groups' = [groups EXCEPT ![g].name = n, ![g].dests = S]
        /\ UNCHANGED <<dests, locs, devs, creds>>
    BY <1>EditGroup DEF EditGroup
  <2>2. S \subseteq DestIds
    BY DEF Picks, LiveDests
  <2>3. /\ groups' \in [GroupIds -> Group]
        /\ \A h \in GroupIds : groups'[h].there = groups[h].there
        /\ \A h \in GroupIds : groups'[h].name = IF h = g THEN n ELSE groups[h].name
    BY <2>1, <2>2 DEF TypeOK, Group
  <2>4. TypeOK'
    BY <2>1, <2>3, Counted DEF TypeOK
  <2>5. LiveDests' = LiveDests /\ LiveGroups' = LiveGroups
    BY <2>1, <2>3 DEF LiveDests, LiveGroups
  <2>6. UniqueNames'
    BY <2>1, <2>3, <2>5 DEF UniqueNames, NameFreeFor, GroupNamed, LiveGroups
  <2> QED BY <2>1, <2>4, <2>5, <2>6, LocRefsKept, DevRefsKept, Counted, OwnedKept
<1>DeleteGroup. ASSUME NEW g \in GroupIds, DeleteGroup(g) PROVE IInv'
  <2>1. /\ Request
        /\ groups' = [groups EXCEPT ![g] = NoGroup]
        /\ locs' = [l \in LocIds |-> Unlinked(locs[l], {}, {g})]
        /\ UNCHANGED <<dests, devs, creds>>
    BY <1>DeleteGroup DEF DeleteGroup
  <2>2. \A l \in LocIds : /\ locs'[l] \in Loc
                          /\ locs'[l].there = locs[l].there
                          /\ locs'[l].dest = locs[l].dest
                          /\ locs'[l].group = IF locs[l].group = g THEN 0 ELSE locs[l].group
    BY <2>1, UnlinkedRow DEF TypeOK
  <2>3. TypeOK'
    BY <2>1, <2>2, EmptyRows, Counted DEF TypeOK
  <2>4. LiveLocs' = LiveLocs /\ LiveDests' = LiveDests /\ LiveGroups' = LiveGroups \ {g}
    BY <2>1, <2>2, EmptyRows DEF LiveLocs, LiveGroups, LiveDests, TypeOK
  <2>5. LocRefs'
    <3> SUFFICES ASSUME NEW l \in LiveLocs
                 PROVE  /\ locs'[l].dest \in LiveDests' \union {0}
                        /\ locs'[l].group \in LiveGroups' \union {0}
      BY <2>4 DEF LocRefs
    <3> QED BY <2>2, <2>4 DEF LocRefs, LiveLocs
  <2>6. Owned'
    BY <2>2, <2>4 DEF Owned, LiveLocs
  <2>7. UniqueNames'
    BY <2>1, <2>4 DEF UniqueNames, LiveGroups, TypeOK
  <2> QED BY <2>1, <2>3, <2>5, <2>6, <2>7, DevRefsKept, Counted
<1> QED BY <1>AddGroup, <1>EditGroup, <1>DeleteGroup DEF GroupRequest

-----------------------------------------------------------------------------
(* Locations *)

LEMMA CreateLocationStep ==
  ASSUME IInv, NEW l \in LocIds, NEW base \in Bases, CreateLocation(l, base)
  PROVE  IInv'
<1> USE DEF IInv
<1>1. PICK main, local, new \in DestIds, g \in GroupIds, k \in 1 .. NGroup :
        /\ NextId(new, LiveDests) /\ NextId(g, LiveGroups)
        /\ First(k, {j \in 1 .. NGroup : GroupNamed(<<base, j>>) = {}})
        /\ dests' = [dests EXCEPT ![new] = [kind |-> "telegram", enabled |-> TRUE]]
        /\ groups' = [groups EXCEPT ![g] =
                       [there |-> TRUE, name |-> Suffixed(base, k), dests |-> {local, main, new}]]
        /\ locs' = [locs EXCEPT ![l] = [there |-> TRUE, dest |-> new, group |-> g]]
  BY DEF CreateLocation
<1>2. Request /\ NextId(l, LiveLocs) /\ UNCHANGED <<devs, creds>>
  BY DEF CreateLocation
<1>3. new \notin LiveDests /\ g \notin LiveGroups /\ l \notin LiveLocs
  BY <1>1, <1>2, FreshId, BoundAssumption DEF DestIds, GroupIds, LocIds, LiveDests, LiveGroups, LiveLocs
<1>4. Suffixed(base, k) \in GroupNames /\ GroupNamed(Suffixed(base, k)) = {}
  BY <1>1, Names DEF Suffixed, First
<1>5. /\ LiveDests' = LiveDests \union {new}
      /\ LiveGroups' = LiveGroups \union {g}
      /\ LiveLocs' = LiveLocs \union {l}
  BY <1>1 DEF LiveDests, LiveGroups, LiveLocs, TypeOK, Kinds
<1>6. TypeOK'
  BY <1>1, <1>2, <1>4, Counted DEF TypeOK, Dest, Group, Loc, Kinds
<1>7. locs'[l].dest = new /\ locs'[l].group = g /\ \A k2 \in LiveLocs : locs'[k2] = locs[k2]
  BY <1>1, <1>3 DEF TypeOK, LiveLocs
<1>8. LocRefs'
  BY <1>5, <1>7 DEF LocRefs
<1>9. UniqueNames'
  BY <1>1, <1>3, <1>4, <1>5 DEF UniqueNames, GroupNamed, LiveGroups, TypeOK
<1>10. new # 0 /\ g # 0
  BY BoundAssumption DEF DestIds, GroupIds
<1>11. Owned'
  BY <1>3, <1>5, <1>7, <1>10 DEF Owned, LocRefs
<1> QED BY <1>2, <1>6, <1>8, <1>9, <1>11, DevRefsKept, Counted

LEMMA SwitchedDests ==
  ASSUME TypeOK, NEW l \in LocIds, NEW on \in BOOLEAN, Switched(l, on)
  PROVE  dests' \in [DestIds -> Dest] /\ LiveDests' = LiveDests
<1>1. \A d \in DestIds : dests'[d] \in Dest /\ dests'[d].kind = dests[d].kind
  BY SwitchedRow DEF Switched, TypeOK
<1> QED BY <1>1 DEF Switched, LiveDests

LEMMA UpdateLocationStep ==
  ASSUME IInv, NEW l \in LocIds, NEW fields \in SUBSET {"name", "enabled"},
         NEW base \in Bases, NEW on \in BOOLEAN, UpdateLocation(l, fields, base, on)
  PROVE  IInv'
<1> USE DEF IInv
<1>1. Request /\ l \in LiveLocs /\ UNCHANGED <<locs, devs, creds>>
  BY DEF UpdateLocation
<1>2. dests' \in [DestIds -> Dest] /\ LiveDests' = LiveDests
  BY SwitchedDests DEF UpdateLocation, TypeOK, LiveDests
<1>3. /\ groups' \in [GroupIds -> Group]
      /\ LiveGroups' = LiveGroups
      /\ UniqueNames'
  <2>1. CASE "name" \in fields /\ locs[l].group # 0
    <3> DEFINE g == locs[l].group
               n == <<base, 1>>
    <3>1. NameFreeFor(g, n) /\ groups' = [groups EXCEPT ![g].name = n]
      BY <2>1 DEF UpdateLocation
    <3>2. g \in LiveGroups /\ g \in GroupIds /\ n \in GroupNames
      BY <1>1, <2>1, Names, BoundAssumption DEF LocRefs, LiveGroups
    <3> HIDE DEF g, n
    <3>3. /\ groups' \in [GroupIds -> Group]
          /\ \A h \in GroupIds : groups'[h].there = groups[h].there
          /\ \A h \in GroupIds : groups'[h].name = IF h = g THEN n ELSE groups[h].name
      BY <3>1, <3>2 DEF TypeOK, Group
    <3>4. LiveGroups' = LiveGroups
      BY <3>3 DEF LiveGroups
    <3>5. UniqueNames'
      BY <3>1, <3>3, <3>4 DEF UniqueNames, NameFreeFor, GroupNamed, LiveGroups
    <3> QED BY <3>3, <3>4, <3>5
  <2>2. CASE ~("name" \in fields /\ locs[l].group # 0)
    <3>1. UNCHANGED groups
      BY <2>2 DEF UpdateLocation
    <3> QED BY <3>1, UniqueKept DEF LiveGroups, TypeOK
  <2> QED BY <2>1, <2>2
<1>4. TypeOK'
  BY <1>1, <1>2, <1>3, Counted DEF TypeOK
<1> QED BY <1>1, <1>2, <1>3, <1>4, LocRefsKept, DevRefsKept, Counted, OwnedKept

LEMMA SoftDeleteStep ==
  ASSUME IInv, NEW l \in LocIds, SoftDelete(l)
  PROVE  IInv'
<1> USE DEF IInv
<1>1. Request /\ Switched(l, FALSE) /\ UNCHANGED <<groups, locs, devs, creds>>
  BY DEF SoftDelete
<1>2. dests' \in [DestIds -> Dest] /\ LiveDests' = LiveDests
  BY <1>1, SwitchedDests
<1>3. LiveGroups' = LiveGroups
  BY <1>1 DEF LiveGroups
<1>4. TypeOK'
  BY <1>1, <1>2, Counted DEF TypeOK
<1> QED BY <1>1, <1>2, <1>3, <1>4, LocRefsKept, DevRefsKept, Counted, UniqueKept, OwnedKept

\* What a deletion with cascade leaves: a row that is not its own.
LEMMA HardDeleteRows ==
  ASSUME IInv, NEW l \in LocIds, HardDelete(l)
  PROVE  /\ l \in LiveLocs
         /\ LiveLocs' = LiveLocs \ {l}
         /\ \A d \in DestIds : dests'[d] = IF d = locs[l].dest THEN NoDest ELSE dests[d]
         /\ \A g \in GroupIds : groups'[g] = IF g = locs[l].group THEN NoGroup ELSE groups[g]
         /\ \A k \in LiveLocs' : locs'[k] = locs[k]
         /\ \A v \in DevIds : devs'[v] = IF v \in Members(l) THEN [devs[v] EXCEPT !.group = DefaultName]
                                                            ELSE devs[v]
<1> USE DEF IInv
<1> DEFINE D == {locs[l].dest} \ {0}
           G == {locs[l].group} \ {0}
<1>1. /\ l \in LiveLocs
      /\ devs' = [v \in DevIds |-> IF v \in Members(l) THEN [devs[v] EXCEPT !.group = DefaultName]
                                                       ELSE devs[v]]
      /\ groups' = [g \in GroupIds |-> IF g = locs[l].group THEN NoGroup ELSE groups[g]]
      /\ dests' = [d \in DestIds |-> IF d = locs[l].dest THEN NoDest ELSE dests[d]]
      /\ locs' = [k \in LocIds |-> IF k = l THEN NoLoc ELSE Unlinked(locs[k], D, G)]
  BY DEF HardDelete
<1>2. ASSUME NEW k \in LocIds, k # l
      PROVE  /\ locs'[k].there = locs[k].there
             /\ k \in LiveLocs => locs'[k] = locs[k]
  <2>1. locs[k] \in Loc /\ locs'[k] = Unlinked(locs[k], D, G)
    BY <1>1, <1>2 DEF TypeOK
  <2>2. locs'[k] \in Loc /\ locs'[k].there = locs[k].there
    BY <2>1, UnlinkedRow
  <2>3. ASSUME k \in LiveLocs PROVE locs'[k] = locs[k]
    <3>1. locs[k].dest \notin D /\ locs[k].group \notin G
      BY <1>1, <1>2, <2>3 DEF Owned
    <3>2. locs'[k].dest = locs[k].dest /\ locs'[k].group = locs[k].group
      BY <2>1, <3>1, UnlinkedRow
    <3> QED BY <2>1, <2>2, <3>2 DEF Loc
  <2> QED BY <2>2, <2>3
<1>3. LiveLocs' = LiveLocs \ {l}
  BY <1>1, <1>2, EmptyRows DEF LiveLocs
<1> QED BY <1>1, <1>2, <1>3 DEF LiveLocs

LEMMA HardDeleteStep ==
  ASSUME IInv, NEW l \in LocIds, HardDelete(l)
  PROVE  IInv'
<1> USE DEF IInv
<1>1. Request /\ UNCHANGED creds
  BY DEF HardDelete
<1>2. /\ l \in LiveLocs
      /\ LiveLocs' = LiveLocs \ {l}
      /\ \A d \in DestIds : dests'[d] = IF d = locs[l].dest THEN NoDest ELSE dests[d]
      /\ \A g \in GroupIds : groups'[g] = IF g = locs[l].group THEN NoGroup ELSE groups[g]
      /\ \A k \in LiveLocs' : locs'[k] = locs[k]
  BY HardDeleteRows
<1>3. \A v \in DevIds : /\ devs'[v] \in Dev /\ devs'[v].there = devs[v].there
                        /\ devs'[v].cred = devs[v].cred /\ devs'[v].proxy = devs[v].proxy
  <2> SUFFICES ASSUME NEW v \in DevIds
               PROVE  /\ devs'[v] \in Dev /\ devs'[v].there = devs[v].there
                      /\ devs'[v].cred = devs[v].cred /\ devs'[v].proxy = devs[v].proxy
    OBVIOUS
  <2>1. devs[v] \in Dev
    BY DEF TypeOK
  <2>2. devs'[v] = [devs[v] EXCEPT !.group = DefaultName] \/ devs'[v] = devs[v]
    BY HardDeleteRows
  <2>3. /\ [devs[v] EXCEPT !.group = DefaultName] \in Dev
        /\ [devs[v] EXCEPT !.group = DefaultName].there = devs[v].there
        /\ [devs[v] EXCEPT !.group = DefaultName].cred = devs[v].cred
        /\ [devs[v] EXCEPT !.group = DefaultName].proxy = devs[v].proxy
    BY <2>1, RegroupedRow, Names
  <2> QED BY <2>1, <2>2, <2>3
<1>4. TypeOK'
  <2>1. /\ devs' \in [DevIds -> Dev]
        /\ groups' \in [GroupIds -> Group]
        /\ dests' \in [DestIds -> Dest]
    BY <1>2, <1>3, EmptyRows DEF HardDelete, TypeOK
  <2>2. locs' \in [LocIds -> Loc]
    BY EmptyRows, UnlinkedRow DEF HardDelete, TypeOK
  <2> QED BY <1>1, <2>1, <2>2, Counted DEF TypeOK
<1>5. /\ LiveDests' = LiveDests \ {locs[l].dest}
      /\ LiveGroups' = LiveGroups \ {locs[l].group}
      /\ LiveDevs' = LiveDevs
  BY <1>2, <1>3, EmptyRows DEF LiveDests, LiveGroups, LiveDevs
<1>6. LocRefs'
  <2> SUFFICES ASSUME NEW k \in LiveLocs', k # l
               PROVE  /\ locs'[k].dest \in LiveDests' \union {0}
                      /\ locs'[k].group \in LiveGroups' \union {0}
    BY <1>2 DEF LocRefs
  <2>1. k \in LiveLocs /\ locs'[k] = locs[k]
    BY <1>2
  <2> QED BY <1>2, <1>5, <2>1 DEF LocRefs, Owned
<1>7. DevRefs'
  BY <1>1, <1>3, <1>5, Counted DEF DevRefs, LiveDevs, Refs, Proxies
<1>8. UniqueNames'
  BY <1>2, <1>5 DEF UniqueNames, LiveGroups
<1>9. Owned'
  BY <1>2 DEF Owned
<1> QED BY <1>4, <1>6, <1>7, <1>8, <1>9

\* A handler that changes only devices, each to a row whose credentials are there.
LEMMA DevicesStep ==
  ASSUME IInv, UNCHANGED <<keyed, dests, groups, locs, creds>>, requests' \in 0 .. MaxRequests,
         devs' \in [DevIds -> Dev],
         \A v \in LiveDevs' : devs'[v].cred \in Refs /\ devs'[v].proxy \in Proxies
  PROVE  IInv'
<1> USE DEF IInv
<1>1. TypeOK'
  BY DEF TypeOK
<1>2. LiveDests' = LiveDests /\ LiveGroups' = LiveGroups
  BY DEF LiveDests, LiveGroups
<1>3. DevRefs'
  BY DEF DevRefs, Refs, Proxies
<1> QED BY <1>1, <1>2, <1>3, LocRefsKept, UniqueKept, OwnedKept

LEMMA AssignDevicesStep ==
  ASSUME IInv, NEW l \in LocIds, NEW V \in SUBSET LiveDevs, AssignDevices(l, V)
  PROVE  IInv'
<1> USE DEF IInv
<1> DEFINE n == groups[locs[l].group].name
<1>1. /\ Request /\ UNCHANGED <<dests, groups, locs, creds>>
      /\ devs' = [v \in DevIds |-> IF v \in V THEN [devs[v] EXCEPT !.group = n] ELSE devs[v]]
  BY DEF AssignDevices
<1>2. n \in GroupNames
  BY DEF AssignDevices, TypeOK, Loc, Group, LiveLocs
<1> HIDE DEF n
<1>3. ASSUME NEW v \in DevIds
      PROVE  /\ devs'[v] \in Dev /\ devs'[v].there = devs[v].there
             /\ devs'[v].cred = devs[v].cred /\ devs'[v].proxy = devs[v].proxy
  <2>1. devs[v] \in Dev
    BY DEF TypeOK
  <2>2. devs'[v] = [devs[v] EXCEPT !.group = n] \/ devs'[v] = devs[v]
    BY <1>1
  <2>3. /\ [devs[v] EXCEPT !.group = n] \in Dev
        /\ [devs[v] EXCEPT !.group = n].there = devs[v].there
        /\ [devs[v] EXCEPT !.group = n].cred = devs[v].cred
        /\ [devs[v] EXCEPT !.group = n].proxy = devs[v].proxy
    BY <1>2, <2>1, RegroupedRow
  <2> QED BY <2>1, <2>2, <2>3
<1>4. devs' \in [DevIds -> Dev]
  BY <1>1, <1>3
<1>5. \A v \in LiveDevs' : devs'[v].cred \in Refs /\ devs'[v].proxy \in Proxies
  BY <1>3 DEF LiveDevs, DevRefs
<1> QED BY <1>1, <1>4, <1>5, Counted, DevicesStep

LEMMA LocationStep ==
  ASSUME IInv, LocationRequest
  PROVE  IInv'
BY CreateLocationStep, UpdateLocationStep, SoftDeleteStep, HardDeleteStep, AssignDevicesStep
   DEF LocationRequest

-----------------------------------------------------------------------------
(* Devices *)

LEMMA DeviceStep ==
  ASSUME IInv, DeviceRequest
  PROVE  IInv'
<1> USE DEF IInv
<1>1. Refs \subseteq CredIds \union {0} /\ Proxies \subseteq CredIds \union {0} /\ 0 \in Proxies
  BY DEF TypeOK, Refs, Proxies
<1>SaveDevice. ASSUME NEW v \in DevIds, NEW n \in GroupNames, NEW S \in Picks,
                      NEW c \in Refs, NEW p \in Proxies, SaveDevice(v, n, S, c, p)
               PROVE  IInv'
  <2>1. /\ Request /\ UNCHANGED <<dests, groups, locs, creds>>
        /\ devs' = [devs EXCEPT ![v] = FormDevice(n, S, c, p)]
    BY <1>SaveDevice DEF SaveDevice
  <2>2. Defaults(n) \subseteq DestIds
    BY DEF Defaults, GroupNamed, LiveGroups, TypeOK, Group
  <2>3. S \subseteq DestIds
    BY DEF Picks, LiveDests
  <2>4. FormOverride(n, S) \subseteq DestIds
    BY <2>2, <2>3 DEF FormOverride
  <2>5. /\ FormDevice(n, S, c, p) \in Dev
        /\ FormDevice(n, S, c, p).cred = c /\ FormDevice(n, S, c, p).proxy = p
    BY <1>1, <2>4 DEF FormDevice, Dev
  <2>6. devs' \in [DevIds -> Dev]
    BY <2>1, <2>5 DEF TypeOK
  <2>7. \A w \in LiveDevs' : devs'[w].cred \in Refs /\ devs'[w].proxy \in Proxies
    BY <2>1, <2>5 DEF LiveDevs, DevRefs, TypeOK
  <2> QED BY <2>1, <2>6, <2>7, Counted, DevicesStep
<1>ImportDevice. ASSUME NEW v \in DevIds, NEW n \in GroupNames, NEW c \in Refs,
                        ImportDevice(v, n, c)
                 PROVE  IInv'
  <2> DEFINE row == [there |-> TRUE, group |-> n, override |-> {}, cred |-> c, proxy |-> 0]
  <2>1. /\ Request /\ UNCHANGED <<dests, groups, locs, creds>>
        /\ devs' = [devs EXCEPT ![v] = row]
    BY <1>ImportDevice DEF ImportDevice
  <2>2. row \in Dev /\ row.cred \in Refs /\ row.proxy \in Proxies
    BY <1>1 DEF Dev, Refs
  <2> HIDE DEF row
  <2>3. devs' \in [DevIds -> Dev]
    BY <2>1, <2>2 DEF TypeOK
  <2>4. \A w \in LiveDevs' : devs'[w].cred \in Refs /\ devs'[w].proxy \in Proxies
    BY <2>1, <2>2 DEF LiveDevs, DevRefs, TypeOK
  <2> QED BY <2>1, <2>3, <2>4, Counted, DevicesStep
<1>EditFields. ASSUME NEW V \in SUBSET LiveDevs, NEW fields \in SUBSET {"group", "credential"},
                      NEW n \in GroupNames, NEW c \in Refs, EditFields(V, fields, n, c)
               PROVE  IInv'
  <2>1. Request /\ UNCHANGED <<dests, groups, locs, creds>>
    BY <1>EditFields DEF EditFields
  <2>2. devs' = [w \in DevIds |-> IF w \notin V THEN devs[w] ELSE
                  [devs[w] EXCEPT !.group = IF "group" \in fields THEN n ELSE devs[w].group,
                                  !.cred = IF "credential" \in fields THEN c ELSE devs[w].cred]]
    BY <1>EditFields DEF EditFields
  <2>3. ASSUME NEW w \in DevIds
        PROVE  /\ devs'[w] \in Dev /\ devs'[w].there = devs[w].there
               /\ devs'[w].cred \in {c, devs[w].cred} /\ devs'[w].proxy = devs[w].proxy
    <3>1. PICK m \in GroupNames, x \in {c, devs[w].cred} :
            devs'[w] = IF w \notin V THEN devs[w] ELSE [devs[w] EXCEPT !.group = m, !.cred = x]
      <4>1. devs[w].group \in GroupNames
        BY DEF TypeOK, Dev
      <4> QED BY <2>2, <4>1
    <3>2. devs[w] \in Dev /\ x \in CredIds \union {0}
      BY <1>1 DEF TypeOK, Dev
    <3>3. /\ [devs[w] EXCEPT !.group = m, !.cred = x] \in Dev
          /\ [devs[w] EXCEPT !.group = m, !.cred = x].there = devs[w].there
          /\ [devs[w] EXCEPT !.group = m, !.cred = x].cred = x
          /\ [devs[w] EXCEPT !.group = m, !.cred = x].proxy = devs[w].proxy
      BY <3>2 DEF Dev
    <3> QED BY <3>1, <3>2, <3>3
  <2>4. devs' \in [DevIds -> Dev]
    BY <2>2, <2>3
  <2>5. \A w \in LiveDevs' : devs'[w].cred \in Refs /\ devs'[w].proxy \in Proxies
    BY <2>3 DEF LiveDevs, DevRefs
  <2> QED BY <2>1, <2>4, <2>5, Counted, DevicesStep
<1>DeleteDevice. ASSUME NEW v \in DevIds, DeleteDevice(v) PROVE IInv'
  <2>1. /\ Request /\ UNCHANGED <<dests, groups, locs, creds>>
        /\ devs' = [devs EXCEPT ![v] = NoDev]
    BY <1>DeleteDevice DEF DeleteDevice
  <2>2. devs' \in [DevIds -> Dev]
    BY <2>1, EmptyRows DEF TypeOK
  <2>3. \A w \in LiveDevs' : devs'[w].cred \in Refs /\ devs'[w].proxy \in Proxies
    BY <2>1, EmptyRows DEF LiveDevs, DevRefs, TypeOK
  <2> QED BY <2>1, <2>2, <2>3, Counted, DevicesStep
<1> QED BY <1>SaveDevice, <1>ImportDevice, <1>EditFields, <1>DeleteDevice DEF DeviceRequest

-----------------------------------------------------------------------------
(* Credentials *)

LEMMA CredentialStep ==
  ASSUME IInv, CredentialRequest
  PROVE  IInv'
<1> USE DEF IInv
<1>AddCredential. ASSUME NEW c \in CredIds, AddCredential(c) PROVE IInv'
  <2>1. Request /\ creds' = creds \union {c} /\ UNCHANGED <<dests, groups, locs, devs>>
    BY <1>AddCredential DEF AddCredential
  <2>2. TypeOK'
    BY <2>1, Counted DEF TypeOK
  <2>3. LiveDests' = LiveDests /\ LiveGroups' = LiveGroups
    BY <2>1 DEF LiveDests, LiveGroups
  <2> QED BY <2>1, <2>2, <2>3, LocRefsKept, DevRefsKept, Counted, UniqueKept, OwnedKept
<1>DeleteCredential. ASSUME NEW c \in CredIds, DeleteCredential(c) PROVE IInv'
  <2>1. /\ Request /\ creds' = creds \ {c} /\ UNCHANGED <<dests, groups, locs>>
        /\ devs' = [v \in DevIds |-> Without(devs[v], c)]
    BY <1>DeleteCredential DEF DeleteCredential
  <2>2. \A v \in DevIds : /\ devs'[v] \in Dev
                          /\ devs'[v].there = devs[v].there
                          /\ devs'[v].cred = IF devs[v].cred = c THEN 0 ELSE devs[v].cred
                          /\ devs'[v].proxy = IF devs[v].proxy = c THEN 0 ELSE devs[v].proxy
    BY <2>1, WithoutRow DEF TypeOK
  <2>3. TypeOK'
    BY <2>1, <2>2, Counted DEF TypeOK
  <2>4. LiveDests' = LiveDests /\ LiveGroups' = LiveGroups
    BY <2>1 DEF LiveDests, LiveGroups
  <2>5. DevRefs'
    BY <2>1, <2>2, Counted DEF DevRefs, LiveDevs, Refs, Proxies
  <2> QED BY <2>1, <2>3, <2>4, <2>5, LocRefsKept, UniqueKept, OwnedKept
<1> QED BY <1>AddCredential, <1>DeleteCredential DEF CredentialRequest

\* At a start a device keeps what it refers to, or loses the reference.
LEMMA RestartStep == ASSUME IInv, Restart PROVE IInv'
<1> USE DEF IInv
<1>1. UNCHANGED <<keyed, dests, groups, locs, creds>> /\ requests' \in 0 .. MaxRequests
  BY DEF Restart, TypeOK
<1>2. ASSUME NEW v \in DevIds
      PROVE  devs'[v] \in Dev /\ devs'[v].cred \in Refs /\ devs'[v].proxy \in Proxies
  <2>1. PICK c \in Refs, p \in Refs : devs'[v] = [devs[v] EXCEPT !.cred = c, !.proxy = p]
    BY DEF Restart, Refs
  <2>2. c \in CredIds \union {0} /\ p \in CredIds \union {0} /\ p \in Proxies
    BY DEF TypeOK, Refs, Proxies
  <2> QED BY <2>1, <2>2 DEF TypeOK, Dev
<1>3. devs' \in [DevIds -> Dev]
  BY <1>2 DEF Restart
<1> QED BY <1>1, <1>2, <1>3, DevicesStep DEF LiveDevs

-----------------------------------------------------------------------------
(* Theorems *)

LEMMA NextInv == IInv /\ [Next]_vars => IInv'
<1> SUFFICES ASSUME IInv, [Next]_vars PROVE IInv'
  OBVIOUS
<1>1. CASE UNCHANGED vars
  BY <1>1 DEF vars, IInv, TypeOK, LocRefs, DevRefs, UniqueNames, Owned, LiveDests, LiveGroups,
              LiveLocs, LiveDevs, Refs, Proxies
<1> QED BY <1>1, DestinationStep, GroupStep, LocationStep, DeviceStep, CredentialStep, RestartStep
        DEF Next

\* Every table holds rows of its columns, whatever ids are given out again.
THEOREM TypeCorrect == Spec => []TypeOK
<1>1. IInv => TypeOK
  BY DEF IInv
<1> QED BY <1>1, InitInv, NextInv, PTL DEF Spec

\* No foreign key is left behind by a deletion, and none comes to a row that is not there.
THEOREM RefsResolve == Spec => []ReferencesResolve
<1>1. IInv => ReferencesResolve
  BY DEF IInv, ReferencesResolve, LocRefs, DevRefs
<1> QED BY <1>1, InitInv, NextInv, PTL DEF Spec

LEMMA ApartFromInv == IInv => LocationsApart
<1> SUFFICES ASSUME IInv, NEW k \in LiveLocs, NEW l \in LiveLocs, k # l
             PROVE  /\ locs[k].dest = locs[l].dest => locs[k].dest = 0
                    /\ Members(k) \intersect Members(l) = {}
  BY DEF LocationsApart
<1>1. locs[k].dest = locs[l].dest => locs[k].dest = 0
  BY DEF IInv, Owned
<1>2. ASSUME NEW v \in Members(k), v \in Members(l) PROVE FALSE
  <2>1. /\ locs[k].group # 0 /\ locs[l].group # 0
        /\ groups[locs[k].group].name = groups[locs[l].group].name
    BY <1>2 DEF Members
  <2>2. locs[k].group \in LiveGroups /\ locs[l].group \in LiveGroups
    BY <2>1 DEF IInv, LocRefs
  <2> QED BY <2>1, <2>2 DEF IInv, UniqueNames, Owned
<1> QED BY <1>1, <1>2

\* No two locations share a channel or a device.
THEOREM Apart == Spec => []LocationsApart
BY InitInv, NextInv, ApartFromInv, PTL DEF Spec

LEMMA LocalStep ==
  IInv => \A l \in LocIds : HardDelete(l) =>
            \A k \in LiveLocs \ {l} : locs'[k] = locs[k] /\ Members(k) \subseteq Members(k)'
<1> SUFFICES ASSUME IInv, NEW l \in LocIds, HardDelete(l), NEW k \in LiveLocs, k # l
             PROVE  locs'[k] = locs[k] /\ Members(k) \subseteq Members(k)'
  OBVIOUS
<1>1. l \in LiveLocs /\ locs'[k] = locs[k]
  BY HardDeleteRows
<1>2. ASSUME NEW v \in Members(k) PROVE v \in Members(k)'
  <2>1. v \in LiveDevs /\ locs[k].group # 0 /\ devs[v].group = groups[locs[k].group].name
    BY <1>2 DEF Members
  <2>2. v \notin Members(l)
    BY <1>1, <1>2, ApartFromInv DEF LocationsApart
  <2>3. devs'[v] = devs[v]
    BY <2>1, <2>2, HardDeleteRows DEF LiveDevs
  <2>4. locs[k].group \in GroupIds /\ locs[k].group # locs[l].group
    BY <1>1, <2>1 DEF IInv, LocRefs, LiveGroups, Owned
  <2>5. groups'[locs[k].group] = groups[locs[k].group]
    BY <2>4, HardDeleteRows
  <2> QED BY <1>1, <2>1, <2>3, <2>5 DEF Members, LiveDevs
<1> QED BY <1>1, <1>2

\* A deletion with cascade leaves the other locations their rows and their devices.
THEOREM CascadeIsLocal == Spec => DeletionIsLocal
BY InitInv, NextInv, LocalStep, PTL DEF Spec, DeletionIsLocal
=============================================================================
