---------------------- MODULE WorkspaceMembers_proofs ----------------------
(***************************************************************************)
(* Proofs about WorkspaceTeams, for any people and teams, any limits and   *)
(* any number of requests that race or stop half way, and about            *)
(* WorkspaceItems, for any members and items, as both are composed in      *)
(* MCWorkspaceMembers.                                                     *)
(*                                                                         *)
(* Teams.  Two facts need no order of requests: the seat of the owner is   *)
(* never taken, and what is shared is shared with teams that exist or are  *)
(* gone.  The others hold where requests wait for each other; Doing(w) is  *)
(* what a request w has made sure of by the time its next statement comes, *)
(* which is what makes stopping there harmless.                            *)
(*                                                                         *)
(* Items.  ItemsStep is what a step of either instance of WorkspaceItems   *)
(* may do.  That what was reported as emptied is deleted needs no order of *)
(* requests (Recorded).  The rest is ItemsAlone: ItemDoing and EmptyDoing  *)
(* say what the one request has made sure of, Tops that whatever is right  *)
(* below the root of the workspace is the root folder of its creator, or   *)
(* has nothing live of somebody who left.  Ways up and down are least      *)
(* sets: to find something is to be in every set closed that way.          *)
(***************************************************************************)
EXTENDS MCWorkspaceMembers, TLAPS, FiniteSetTheorems

----------------------------------------------------------------------------
(* Types.                                                                  *)

LeaveOps == {"leaveManaged", "leaveManagedTeam", "leaveTeams"}

\* Those that may take a seat away.
SeatOps == LeaveOps \cup {"insertSeat", "insertDefault"}

Ops == SeatOps \cup {"insertTeam", "insertManager", "insertMember", "replaceManager",
                     "removeMember", "setManager", "insertSharing"}

Request == [nr : Nat, op : Ops, team : Teams, user : Users, left : SUBSET (Teams \cup Items)]

Known(t) == Exists(t) \/ t \in gone

\* What a request may count on, whatever others do.
RequestFine(w) ==
    /\ w \in Request
    /\ w.op \in SeatOps => w.user # Owner
    /\ w.op \in LeaveOps => w.left \subseteq Teams
    /\ w.op = "insertSharing" => w.left \subseteq Items /\ Known(w.team)

TablesFine ==
    /\ seat \in [Users -> SeatStates]
    /\ manager \in [Teams -> ManagerColumn]
    /\ rows \in [Teams -> [Users -> 0 .. MaxRows]]
    /\ shared \in [Items -> [Teams -> Nat]]
    /\ gone \subseteq Teams /\ headless \subseteq Teams /\ alone \in BOOLEAN

RequestsFine ==
    /\ IsFiniteSet(inflight)
    /\ \A v, w \in inflight : v.nr = w.nr => v = w
    /\ \A w \in inflight : RequestFine(w)

OwnerSits == seat[Owner] = "active"

TeamsKnown ==
    /\ Exists(DefaultTeam) /\ gone \cap ExistingTeams = {}
    /\ \A t \in Teams, u \in Users : rows[t][u] > 0 => Exists(t)
    /\ \A i \in Items, t \in Teams : shared[i][t] > 0 => Known(t)

TypeInv == TablesFine /\ RequestsFine /\ OwnerSits /\ TeamsKnown

tables == <<seat, manager, rows, shared, gone, headless>>

\* A new request of this kind.
Begun(op, t, u, left) ==
    /\ Quiet /\ UNCHANGED tables
    /\ \E s \in Request : /\ s.op = op /\ s.team = t /\ s.user = u /\ s.left = left
                          /\ \A w \in inflight : w.nr # s.nr
                          /\ inflight' = inflight \cup {s}

\* The request goes on with this statement.
Went(w, op, t, left) ==
    \E s \in Request : /\ s.op = op /\ s.team = t /\ s.user = w.user /\ s.left = left
                       /\ s.nr = w.nr /\ Goes(w, s)

LEMMA BeginsNew ==
    ASSUME TypeInv, NEW r \in Request, Begin(r)
    PROVE  Begun(r.op, r.team, r.user, r.left)
<1>1. PICK k \in 1 .. MaxInFlight : k \notin Numbers /\ inflight' = inflight \cup {[r EXCEPT !.nr = k]}
  BY DEF Begin
<1>2. PICK s : s = [r EXCEPT !.nr = k]
  OBVIOUS
<1>3. s \in Request /\ s.nr = k /\ s.op = r.op /\ s.team = r.team /\ s.user = r.user /\ s.left = r.left
  BY <1>2, WorkspaceTeamsConstants DEF Request, WorkspaceTeamsConstants
<1>4. \A w \in inflight : w.nr # k
  BY <1>1 DEF Numbers
<1>5. Quiet /\ UNCHANGED tables
  BY DEF Begin, tables
<1> QED BY <1>1, <1>2, <1>3, <1>4, <1>5 DEF Begun

LEMMA BeginsPlain ==
    ASSUME TypeInv, NEW op \in Ops, NEW t \in Teams, NEW u \in Users, Begin(NewRequest(op, t, u))
    PROVE  Begun(op, t, u, {})
<1>1. PICK r : r = NewRequest(op, t, u)
  OBVIOUS
<1>2. r \in Request /\ r.op = op /\ r.team = t /\ r.user = u /\ r.left = {}
  BY <1>1 DEF NewRequest, Request
<1>3. Begin(r)
  BY <1>1
<1>4. Begun(r.op, r.team, r.user, r.left)
  BY <1>2, <1>3, BeginsNew
<1> QED BY <1>2, <1>4

LEMMA BeginsWith ==
    ASSUME TypeInv, NEW op \in Ops, NEW t \in Teams, NEW u \in Users, NEW left \in SUBSET (Teams \cup Items),
           Begin([NewRequest(op, t, u) EXCEPT !.left = left])
    PROVE  Begun(op, t, u, left)
<1>1. PICK r : r = [NewRequest(op, t, u) EXCEPT !.left = left]
  OBVIOUS
<1>2. r \in Request /\ r.op = op /\ r.team = t /\ r.user = u /\ r.left = left
  BY <1>1 DEF NewRequest, Request
<1>3. Begin(r)
  BY <1>1
<1>4. Begun(r.op, r.team, r.user, r.left)
  BY <1>2, <1>3, BeginsNew
<1> QED BY <1>2, <1>4

----------------------------------------------------------------------------
(* What a step does.                                                       *)

\* The requests that steps begin.
Beginning ==
    \/ \E m \in Users : /\ findWorkspaceUser(m) /\ Cardinality(ExistingTeams) < MaxTeams
                        /\ Begun("insertTeam", DefaultTeam, m, {})
    \/ \E t \in Teams, u \in Users :
          /\ getAndValidateNonDefaultTeamWorkspace(t) /\ findActiveUserAnywhere(u)
          /\ ~ getTeamUser(u, t) /\ getTeamMembersCount(t) < MaxMembers
          /\ Begun("insertMember", t, u, {})
    \/ \E t \in Teams, u \in Users : manager[t] = u /\ Begun("replaceManager", t, u, {})
    \/ \E t \in Teams, u \in Users : manager[t] # u /\ Begun("removeMember", t, u, {})
    \/ \E t \in Teams, u \in Users : (getTeamUser(u, t) \/ u = Owner) /\ Begun("setManager", t, u, {})
    \/ \E u \in Users : ~ findWorkspaceUser(u) /\ Begun("insertSeat", DefaultTeam, u, {})
    \/ \E u \in Users : u # Owner /\ Begun("leaveManaged", DefaultTeam, u, getTeamsWhereUserIsManager(u))
    \/ \E i \in Items, t \in Teams : Exists(t) /\ Begun("insertSharing", t, Owner, {i})

\* The requests that are answered in one step.
Answered ==
    \/ \E t \in Teams : deleteTeam(t)
    \/ \E u \in Users : deactivateWorkspaceUser(u) \/ activateWorkspaceUser(u)
    \/ \E i \in Items : removeSharing(i)

LEMMA StepKinds ==
    ASSUME TypeInv, Step
    PROVE  Beginning \/ Answered \/ \E w \in inflight : RequestStep(w)
<1> USE WorkspaceTeamsConstants DEF WorkspaceTeamsConstants, Ops, SeatOps, LeaveOps
<1>1. ASSUME NEW by \in Users, leaveWorkspaceRequest(by) \/ \E u \in Users : removeWorkspaceMember(by, u)
      PROVE  Beginning
  <2>1. PICK u \in Users : leaveWorkspace(u)
    BY <1>1 DEF leaveWorkspaceRequest, removeWorkspaceMember
  <2>2. getTeamsWhereUserIsManager(u) \in SUBSET (Teams \cup Items)
    BY DEF getTeamsWhereUserIsManager, ExistingTeams
  <2>3. u # Owner /\ Begun("leaveManaged", DefaultTeam, u, getTeamsWhereUserIsManager(u))
    BY <2>1, <2>2, BeginsWith DEF leaveWorkspace, isUserOwner
  <2> QED BY <2>3 DEF Beginning
<1>2. ASSUME NEW by \in Users, acceptWorkspaceInvite(by)
      PROVE  Beginning
  <2>1. Begun("insertSeat", DefaultTeam, by, {}) /\ ~ findWorkspaceUser(by)
    BY <1>2, BeginsPlain DEF acceptWorkspaceInvite
  <2> QED BY <2>1 DEF Beginning
<1>3. ASSUME NEW by \in Users, NEW u \in Users, postTeam(by, u)
      PROVE  Beginning
  <2>1. Begun("insertTeam", DefaultTeam, u, {}) /\ findWorkspaceUser(u) /\ Cardinality(ExistingTeams) < MaxTeams
    BY <1>3, BeginsPlain DEF postTeam, createTeam
  <2> QED BY <2>1 DEF Beginning
<1>4. ASSUME NEW by \in Users, NEW t \in Teams, NEW u \in Users, addUserToTeamRequest(by, t, u)
      PROVE  Beginning
  <2>1. /\ getAndValidateNonDefaultTeamWorkspace(t) /\ findActiveUserAnywhere(u)
        /\ ~ getTeamUser(u, t) /\ getTeamMembersCount(t) < MaxMembers
        /\ Begun("insertMember", t, u, {})
    BY <1>4, BeginsPlain DEF addUserToTeamRequest, addMemberToTeam
  <2> QED BY <2>1 DEF Beginning
<1>5. ASSUME NEW by \in Users, NEW t \in Teams, NEW u \in Users, removeUserFromTeamRequest(by, t, u)
      PROVE  Beginning
  <2>1. CASE manager[t] = u
    <3>1. Begun("replaceManager", t, u, {})
      BY <1>5, <2>1, BeginsPlain DEF removeUserFromTeamRequest, removeMemberFromTeam
    <3> QED BY <2>1, <3>1 DEF Beginning
  <2>2. CASE manager[t] # u
    <3>1. Begun("removeMember", t, u, {})
      BY <1>5, <2>2, BeginsPlain DEF removeUserFromTeamRequest, removeMemberFromTeam
    <3> QED BY <2>2, <3>1 DEF Beginning
  <2> QED BY <2>1, <2>2
<1>6. ASSUME NEW by \in Users, NEW t \in Teams, NEW u \in Users,
             patchTeamManager(by, t, u) \/ \E role \in {"MEMBER", "MANAGER"} : changeMemberRole(by, t, u, role)
      PROVE  Beginning
  <2>1. \E v \in Users : (getTeamUser(v, t) \/ v = Owner) /\ Begin(NewRequest("setManager", t, v))
    BY <1>6 DEF patchTeamManager, changeTeamManager, changeMemberRole, changeUserRole
  <2>2. PICK v \in Users : (getTeamUser(v, t) \/ v = Owner) /\ Begin(NewRequest("setManager", t, v))
    BY <2>1
  <2>3. Begun("setManager", t, v, {})
    BY <2>2, BeginsPlain
  <2> QED BY <2>2, <2>3 DEF Beginning
<1>7. ASSUME NEW by \in Users, NEW t \in Teams, NEW i \in Items, shareItemWithMember(by, i, t)
      PROVE  Beginning
  <2>1. Exists(t) /\ Begin([NewRequest("insertSharing", t, Owner) EXCEPT !.left = {i}])
    BY <1>7 DEF shareItemWithMember, shareItemWithTeam
  <2>2. Begun("insertSharing", t, Owner, {i})
    BY <2>1, BeginsWith
  <2> QED BY <2>1, <2>2 DEF Beginning
<1>8. ASSUME NEW by \in Users,
             \/ \E u \in Users : deactivateWorkspaceMember(by, u) \/ activateWorkspaceMember(by, u)
             \/ \E t \in Teams : deleteTeamRequest(by, t)
      PROVE  Answered
  BY <1>8 DEF deactivateWorkspaceMember, activateWorkspaceMember, deleteTeamRequest, Answered
<1>9. (\E i \in Items : removeSharing(i)) => Answered
  BY DEF Answered
<1> QED BY <1>1, <1>2, <1>3, <1>4, <1>5, <1>6, <1>7, <1>8, <1>9 DEF Step

----------------------------------------------------------------------------
(* The type invariant.                                                     *)

KnownStays == \A t \in Teams : Known(t) => Known(t)'

LEMMA GoesFine ==
    ASSUME RequestsFine, KnownStays, NEW w \in inflight, NEW s, RequestFine(s)', s.nr = w.nr, Goes(w, s)
    PROVE  RequestsFine'
<1>1. inflight' = (inflight \ {w}) \cup {s}
  BY DEF Goes
<1>2. IsFiniteSet(inflight')
  BY <1>1, FS_AddElement, FS_RemoveElement DEF RequestsFine
<1>3. \A v, x \in inflight' : v.nr = x.nr => v = x
  BY <1>1 DEF RequestsFine
<1>4. \A v \in inflight' : RequestFine(v)'
  BY <1>1 DEF RequestsFine, RequestFine, Request, KnownStays
<1> QED BY <1>2, <1>3, <1>4 DEF RequestsFine

LEMMA DoneFine ==
    ASSUME RequestsFine, KnownStays, NEW w \in inflight, Done(w)
    PROVE  RequestsFine'
<1>1. inflight' = inflight \ {w} /\ IsFiniteSet(inflight')
  BY FS_RemoveElement DEF Done, RequestsFine
<1> QED BY <1>1 DEF RequestsFine, RequestFine, Request, KnownStays

LEMMA SameFine ==
    ASSUME RequestsFine, KnownStays, UNCHANGED inflight
    PROVE  RequestsFine'
BY DEF RequestsFine, RequestFine, Request, KnownStays

LEMMA BegunFine ==
    ASSUME TypeInv, UNCHANGED alone, NEW op, NEW t, NEW u, NEW left, Begun(op, t, u, left),
           op \in SeatOps => u # Owner,
           op \in LeaveOps => left \subseteq Teams,
           op = "insertSharing" => left \subseteq Items /\ Known(t)
    PROVE  TypeInv'
<1>1. PICK s \in Request : /\ s.op = op /\ s.team = t /\ s.user = u /\ s.left = left
                           /\ \A w \in inflight : w.nr # s.nr
                           /\ inflight' = inflight \cup {s}
  BY DEF Begun
<1>2. UNCHANGED tables
  BY DEF Begun
<1>3. RequestFine(s)
  BY <1>1 DEF RequestFine
<1>4. IsFiniteSet(inflight')
  BY <1>1, FS_AddElement DEF TypeInv, RequestsFine
<1>5. RequestsFine'
  BY <1>1, <1>2, <1>3, <1>4 DEF TypeInv, RequestsFine, RequestFine, Known, Exists, tables
<1>6. TablesFine' /\ OwnerSits' /\ TeamsKnown'
  BY <1>2 DEF TypeInv, TablesFine, OwnerSits, TeamsKnown, Known, Exists, ExistingTeams, tables, Begun
<1> QED BY <1>5, <1>6 DEF TypeInv

LEMMA BeginningType ==
    ASSUME TypeInv, UNCHANGED alone, Beginning
    PROVE  TypeInv'
<1> USE DEF Ops, SeatOps, LeaveOps
<1>1. ASSUME NEW u \in Users, findWorkspaceUser(u), Begun("insertTeam", DefaultTeam, u, {})
      PROVE  TypeInv'
  BY <1>1, BegunFine
<1>2. ASSUME NEW u \in Users, ~ findWorkspaceUser(u), Begun("insertSeat", DefaultTeam, u, {})
      PROVE  TypeInv'
  <2>1. u # Owner
    BY <1>2 DEF findWorkspaceUser, TypeInv, OwnerSits
  <2> QED BY <1>2, <2>1, BegunFine
<1>3. ASSUME NEW t \in Teams, NEW u \in Users,
             \/ Begun("insertMember", t, u, {}) \/ Begun("replaceManager", t, u, {})
             \/ Begun("removeMember", t, u, {}) \/ Begun("setManager", t, u, {})
      PROVE  TypeInv'
  BY <1>3, BegunFine
<1>4. ASSUME NEW u \in Users, u # Owner, Begun("leaveManaged", DefaultTeam, u, getTeamsWhereUserIsManager(u))
      PROVE  TypeInv'
  <2>1. getTeamsWhereUserIsManager(u) \subseteq Teams
    BY DEF getTeamsWhereUserIsManager, ExistingTeams
  <2> QED BY <1>4, <2>1, BegunFine
<1>5. ASSUME NEW i \in Items, NEW t \in Teams, Exists(t), Begun("insertSharing", t, Owner, {i})
      PROVE  TypeInv'
  BY <1>5, BegunFine DEF Known
<1> QED BY <1>1, <1>2, <1>3, <1>4, <1>5 DEF Beginning

LEMMA AnsweredType ==
    ASSUME TypeInv, UNCHANGED alone, Answered
    PROVE  TypeInv'
<1> USE WorkspaceTeamsConstants DEF WorkspaceTeamsConstants
<1>1. ASSUME NEW t \in Teams, deleteTeam(t) PROVE TypeInv'
  <2>1. manager' = [manager EXCEPT ![t] = Nobody] /\ gone' = gone \cup {t} /\ t # DefaultTeam
    BY <1>1 DEF deleteTeam, getAndValidateNonDefaultTeamWorkspace, isDefaultTeam
  <2>2. rows' = [rows EXCEPT ![t] = [u \in DOMAIN @ |-> 0]]
    BY <1>1 DEF deleteTeam
  <2>3. UNCHANGED <<seat, shared, inflight, headless>>
    BY <1>1 DEF deleteTeam
  <2>4. manager \in [Teams -> ManagerColumn] /\ rows \in [Teams -> [Users -> 0 .. MaxRows]]
    BY DEF TypeInv, TablesFine
  <2>5. \A x \in Teams : /\ Exists(x)' <=> Exists(x) /\ x # t
                         /\ Known(x) => Known(x)'
    BY <2>1, <2>4 DEF Exists, Known
  <2>6. rows' \in [Teams -> [Users -> 0 .. MaxRows]]
    BY <2>2, <2>4
  <2>7. \A x \in Teams, u \in Users : rows'[x][u] = IF x = t THEN 0 ELSE rows[x][u]
    BY <2>2, <2>4
  <2>8. RequestsFine'
    BY <2>3, <2>5, SameFine DEF TypeInv, KnownStays
  <2>9. TeamsKnown'
    <3>0. (ExistingTeams)' = ExistingTeams \ {t}
      BY <2>5 DEF ExistingTeams
    <3>1. Exists(DefaultTeam)' /\ (gone \cap ExistingTeams = {})'
      <4>1. Exists(DefaultTeam) /\ gone \cap ExistingTeams = {}
        BY DEF TypeInv, TeamsKnown
      <4>2. Exists(DefaultTeam)'
        BY <2>1, <2>5, <4>1
      <4>3. gone' \cap (ExistingTeams)' = {}
        BY <2>1, <3>0, <4>1
      <4> QED BY <4>2, <4>3
    <3>2. \A x \in Teams, u \in Users : rows'[x][u] > 0 => Exists(x)'
      BY <2>5, <2>7 DEF TypeInv, TeamsKnown
    <3>3. \A i \in Items, x \in Teams : shared'[i][x] > 0 => Known(x)'
      BY <2>3, <2>5 DEF TypeInv, TeamsKnown
    <3> QED BY <3>1, <3>2, <3>3 DEF TeamsKnown
  <2>10. TablesFine'
    BY <2>1, <2>3, <2>4, <2>6 DEF TypeInv, TablesFine, ManagerColumn
  <2> QED BY <2>3, <2>8, <2>9, <2>10 DEF TypeInv, OwnerSits
<1>2. ASSUME NEW u \in Users, deactivateWorkspaceUser(u) \/ activateWorkspaceUser(u) PROVE TypeInv'
  <2>1. seat' \in [Users -> SeatStates] /\ OwnerSits'
    BY <1>2 DEF deactivateWorkspaceUser, activateWorkspaceUser, isUserOwner, SeatStates,
        TypeInv, TablesFine, OwnerSits
  <2>2. UNCHANGED <<manager, rows, shared, inflight, gone, headless>>
    BY <1>2 DEF deactivateWorkspaceUser, activateWorkspaceUser, Histories
  <2>3. RequestsFine'
    BY <2>2, SameFine DEF TypeInv, KnownStays, Known, Exists
  <2> QED BY <2>1, <2>2, <2>3 DEF TypeInv, TablesFine, TeamsKnown, Known, Exists, ExistingTeams
<1>3. ASSUME NEW i \in Items, removeSharing(i) PROVE TypeInv'
  <2>1. shared' = [shared EXCEPT ![i] = [t \in DOMAIN @ |-> 0]]
    BY <1>3 DEF removeSharing
  <2>2. UNCHANGED <<seat, manager, rows, inflight, gone, headless>>
    BY <1>3 DEF removeSharing, Histories
  <2>3. shared \in [Items -> [Teams -> Nat]]
    BY DEF TypeInv, TablesFine
  <2>4. /\ shared' \in [Items -> [Teams -> Nat]]
        /\ \A j \in Items, t \in Teams : shared'[j][t] > 0 => shared[j][t] > 0
    BY <2>1, <2>3
  <2>5. RequestsFine'
    BY <2>2, SameFine DEF TypeInv, KnownStays, Known, Exists
  <2>6. TeamsKnown'
    <3>1. \A j \in Items, t \in Teams : shared'[j][t] > 0 => Known(t)
      BY <2>4 DEF TypeInv, TeamsKnown
    <3>2. \A t \in Teams : Known(t)' <=> Known(t)
      BY <2>2 DEF Known, Exists
    <3>3. \A j \in Items, t \in Teams : shared'[j][t] > 0 => Known(t)'
      BY <3>1, <3>2
    <3>4. Exists(DefaultTeam)' /\ (gone \cap ExistingTeams = {})' /\ (\A t \in Teams, u \in Users : rows[t][u] > 0 => Exists(t))'
      BY <2>2 DEF TypeInv, TeamsKnown, ExistingTeams, Exists
    <3> QED BY <3>3, <3>4 DEF TeamsKnown
  <2> QED BY <2>2, <2>4, <2>5, <2>6 DEF TypeInv, TablesFine, OwnerSits
<1> QED BY <1>1, <1>2, <1>3 DEF Answered

\* A row is added to a team that exists, or is taken away.
LEMMA RowsAdded ==
    ASSUME TypeInv, NEW t \in Teams, NEW u \in Users, addUserToTeam(t, u)
    PROVE  /\ rows' \in [Teams -> [Users -> 0 .. MaxRows]]
           /\ \A x \in Teams, v \in Users : x # t \/ v # u => rows'[x][v] = rows[x][v]
           /\ rows'[t][u] = IF Exists(t) THEN rows[t][u] + 1 ELSE rows[t][u]
<1>1. rows \in [Teams -> [Users -> 0 .. MaxRows]] /\ MaxRows \in Nat
  BY WorkspaceTeamsConstants DEF WorkspaceTeamsConstants, TypeInv, TablesFine
<1>2. rows[t][u] < MaxRows /\ rows[t][u] \in 0 .. MaxRows
  BY <1>1 DEF addUserToTeam
<1>3. CASE Exists(t)
  <2>1. rows' = [rows EXCEPT ![t][u] = @ + 1]
    BY <1>3 DEF addUserToTeam
  <2> QED BY <1>1, <1>2, <1>3, <2>1
<1>4. CASE ~ Exists(t)
  BY <1>1, <1>4 DEF addUserToTeam
<1> QED BY <1>3, <1>4

LEMMA RowsDeleted ==
    ASSUME TypeInv, NEW t \in Teams, NEW u \in Users, deleteUserFromTeam(t, u)
    PROVE  /\ rows' \in [Teams -> [Users -> 0 .. MaxRows]]
           /\ \A x \in Teams, v \in Users : x # t \/ v # u => rows'[x][v] = rows[x][v]
           /\ rows'[t][u] = 0
<1>1. rows \in [Teams -> [Users -> 0 .. MaxRows]] /\ MaxRows \in Nat
  BY WorkspaceTeamsConstants DEF WorkspaceTeamsConstants, TypeInv, TablesFine
<1>2. rows' = [rows EXCEPT ![t][u] = 0]
  BY DEF deleteUserFromTeam
<1> QED BY <1>1, <1>2

LEMMA ManagerUpdated ==
    ASSUME TypeInv, NEW t \in Teams, NEW u \in Users, updateManager(t, u)
    PROVE  /\ manager' \in [Teams -> ManagerColumn]
           /\ \A x \in Teams : x # t => manager'[x] = manager[x]
           /\ manager'[t] = IF Exists(t) THEN u ELSE Nobody
           /\ \A x \in Teams : Exists(x)' <=> Exists(x)
           /\ (ExistingTeams)' = ExistingTeams
<1>1. manager \in [Teams -> ManagerColumn] /\ u # Nobody
  BY WorkspaceTeamsConstants DEF WorkspaceTeamsConstants, TypeInv, TablesFine
<1>2. manager' = [manager EXCEPT ![t] = IF @ = Nobody THEN @ ELSE u]
  BY DEF updateManager
<1>3. /\ manager' \in [Teams -> ManagerColumn]
      /\ \A x \in Teams : x # t => manager'[x] = manager[x]
      /\ manager'[t] = IF Exists(t) THEN u ELSE Nobody
  BY <1>1, <1>2 DEF ManagerColumn, Exists
<1>4. \A x \in Teams : Exists(x)' <=> Exists(x)
  BY <1>1, <1>3 DEF Exists
<1>5. (ExistingTeams)' = ExistingTeams
  BY <1>4 DEF ExistingTeams
<1> QED BY <1>3, <1>4, <1>5

\* What a request does to rows and managers keeps their types, whatever races.
LEMMA TablesStep ==
    ASSUME TypeInv, UNCHANGED <<alone, shared, gone>>,
           rows' \in [Teams -> [Users -> 0 .. MaxRows]], manager' \in [Teams -> ManagerColumn],
           \A t \in Teams, u \in Users : rows'[t][u] > 0 => Exists(t)',
           \A t \in Teams : Exists(t)' <=> Exists(t), headless' \subseteq Teams,
           seat' \in [Users -> SeatStates], seat'[Owner] = "active",
           RequestsFine'
    PROVE  TypeInv'
<1>1. TablesFine' /\ OwnerSits'
  BY DEF TypeInv, TablesFine, OwnerSits
<1>2. \A t \in Teams : Known(t)' <=> Known(t)
  BY DEF Known
<1>3. \A i \in Items, t \in Teams : shared'[i][t] > 0 => Known(t)'
  BY <1>2 DEF TypeInv, TeamsKnown
<1>4. Exists(DefaultTeam)'
  BY WorkspaceTeamsConstants DEF WorkspaceTeamsConstants, TypeInv, TeamsKnown
<1>5. (gone \cap ExistingTeams = {})'
  <2>1. (ExistingTeams)' = ExistingTeams
    BY DEF ExistingTeams
  <2> QED BY <2>1 DEF TypeInv, TeamsKnown
<1> QED BY <1>1, <1>3, <1>4, <1>5 DEF TypeInv, TeamsKnown

LEMMA CreatingType ==
    ASSUME TypeInv, UNCHANGED alone, NEW w \in inflight, createTeamInserts(w)
    PROVE  TypeInv'
<1>1. RequestFine(w) /\ w.team \in Teams /\ w.user \in Users
  BY DEF TypeInv, RequestsFine, RequestFine, Request
<1>2. CASE w.op = "insertTeam"
  <2>1. PICK t \in Teams \ (ExistingTeams \cup gone) :
            /\ manager' = [manager EXCEPT ![t] = w.user]
            /\ headless' = headless \cup {t}
            /\ Goes(w, [w EXCEPT !.op = "insertManager", !.team = t])
    BY <1>2 DEF createTeamInserts
  <2>2. UNCHANGED <<seat, rows, shared, gone>>
    BY <1>2 DEF createTeamInserts
  <2>3. PICK s : s = [w EXCEPT !.op = "insertManager", !.team = t]
    OBVIOUS
  <2>4. /\ s \in Request /\ s.nr = w.nr /\ s.op = "insertManager" /\ s.team = t /\ s.user = w.user
    BY <1>1, <2>3 DEF RequestFine, Request, Ops
  <2>5. w.user # Nobody /\ manager \in [Teams -> ManagerColumn] /\ ~ Exists(t) /\ t # DefaultTeam
    BY <1>1, WorkspaceTeamsConstants DEF WorkspaceTeamsConstants, TypeInv, TablesFine, TeamsKnown, ExistingTeams
  <2>6. /\ manager' \in [Teams -> ManagerColumn]
        /\ \A x \in Teams : Exists(x)' <=> Exists(x) \/ x = t
    BY <1>1, <2>1, <2>5 DEF Exists, ManagerColumn
  <2>7. KnownStays
    BY <2>2, <2>6 DEF KnownStays, Known
  <2>8. RequestFine(s)'
    BY <2>4 DEF RequestFine, SeatOps, LeaveOps
  <2>9. RequestsFine'
    BY <2>1, <2>3, <2>4, <2>7, <2>8, GoesFine DEF TypeInv
  <2>10. TablesFine' /\ OwnerSits'
    BY <2>1, <2>2, <2>6 DEF TypeInv, TablesFine, OwnerSits
  <2>11. TeamsKnown'
    <3>1. (ExistingTeams)' = ExistingTeams \cup {t}
      BY <2>6 DEF ExistingTeams
    <3>2. Exists(DefaultTeam)' /\ gone' \cap (ExistingTeams)' = {}
      BY <2>1, <2>2, <2>6, <3>1, WorkspaceTeamsConstants DEF WorkspaceTeamsConstants, TypeInv, TeamsKnown
    <3>3. \A x \in Teams, u \in Users : rows'[x][u] > 0 => Exists(x)'
      BY <2>2, <2>6 DEF TypeInv, TeamsKnown
    <3>4. \A i \in Items, x \in Teams : shared'[i][x] > 0 => Known(x)'
      BY <2>2, <2>7 DEF TypeInv, TeamsKnown, KnownStays
    <3> QED BY <3>2, <3>3, <3>4 DEF TeamsKnown
  <2> QED BY <2>9, <2>10, <2>11 DEF TypeInv
<1>3. CASE w.op = "insertManager"
  <2>1. addUserToTeam(w.team, w.user) /\ headless' = headless \ {w.team} /\ Done(w)
    BY <1>3 DEF createTeamInserts
  <2>2. UNCHANGED <<manager, seat, shared, gone>>
    BY <1>3 DEF createTeamInserts
  <2>3. /\ rows' \in [Teams -> [Users -> 0 .. MaxRows]]
        /\ \A x \in Teams, v \in Users : rows'[x][v] > 0 => Exists(x)
    BY <1>1, <2>1, RowsAdded DEF TypeInv, TeamsKnown
  <2>4. \A x \in Teams : Exists(x)' <=> Exists(x)
    BY <2>2 DEF Exists
  <2>5. RequestsFine'
    BY <2>1, <2>2, <2>4, DoneFine DEF TypeInv, KnownStays, Known
  <2>6. /\ manager' \in [Teams -> ManagerColumn] /\ seat' \in [Users -> SeatStates]
        /\ seat'[Owner] = "active" /\ headless' \subseteq Teams
    BY <2>1, <2>2 DEF TypeInv, TablesFine, OwnerSits
  <2> QED BY <2>2, <2>3, <2>4, <2>5, <2>6, TablesStep
<1> QED BY <1>2, <1>3 DEF createTeamInserts

LEMMA WithOp ==
    ASSUME NEW w \in Request, NEW op \in Ops, Goes(w, [w EXCEPT !.op = op])
    PROVE  Went(w, op, w.team, w.left)
<1>1. PICK s : s = [w EXCEPT !.op = op]
  OBVIOUS
<1>2. /\ s \in Request /\ s.nr = w.nr /\ s.op = op /\ s.team = w.team /\ s.user = w.user
      /\ s.left = w.left
  BY <1>1 DEF Request
<1> QED BY <1>1, <1>2 DEF Went

LEMMA WithTeam ==
    ASSUME NEW w \in Request, NEW op \in Ops, NEW t \in Teams, Goes(w, [w EXCEPT !.op = op, !.team = t])
    PROVE  Went(w, op, t, w.left)
<1>1. PICK s : s = [w EXCEPT !.op = op, !.team = t]
  OBVIOUS
<1>2. /\ s \in Request /\ s.nr = w.nr /\ s.op = op /\ s.team = t /\ s.user = w.user
      /\ s.left = w.left
  BY <1>1 DEF Request
<1> QED BY <1>1, <1>2 DEF Went

LEMMA WithLeft ==
    ASSUME NEW w \in Request, NEW op \in Ops, NEW left \in SUBSET (Teams \cup Items),
           Goes(w, [w EXCEPT !.op = op, !.left = left])
    PROVE  Went(w, op, w.team, left)
<1>1. PICK s : s = [w EXCEPT !.op = op, !.left = left]
  OBVIOUS
<1>2. /\ s \in Request /\ s.nr = w.nr /\ s.op = op /\ s.team = w.team /\ s.user = w.user
      /\ s.left = left
  BY <1>1 DEF Request
<1> QED BY <1>1, <1>2 DEF Went

LEMMA WentFine ==
    ASSUME RequestsFine, KnownStays, NEW w \in inflight, NEW op, NEW t, NEW left, Went(w, op, t, left),
           op \in SeatOps => w.user # Owner, op \in LeaveOps => left \subseteq Teams,
           op # "insertSharing"
    PROVE  RequestsFine'
<1>1. PICK s \in Request : /\ s.op = op /\ s.team = t /\ s.user = w.user /\ s.left = left
                           /\ s.nr = w.nr /\ Goes(w, s)
  BY DEF Went
<1>2. RequestFine(s)'
  BY <1>1 DEF RequestFine
<1> QED BY <1>1, <1>2, GoesFine

\* What a request with a statement of its own does, from types alone.
LEMMA RequestTypes ==
    ASSUME TypeInv, NEW w \in inflight
    PROVE  RequestFine(w) /\ w \in Request /\ w.team \in Teams /\ w.user \in Users /\ w.left \in SUBSET (Teams \cup Items)
BY DEF TypeInv, RequestsFine, RequestFine, Request

\* Rows are added or deleted and nothing else.
LEMMA RowsStep ==
    ASSUME TypeInv, NEW w \in inflight, NEW t \in Teams, NEW u \in Users,
           addUserToTeam(t, u) \/ deleteUserFromTeam(t, u),
           UNCHANGED <<seat, manager, shared, gone, headless, alone>>, RequestsFine'
    PROVE  TypeInv'
<1>1. /\ rows' \in [Teams -> [Users -> 0 .. MaxRows]]
      /\ \A x \in Teams, v \in Users : rows'[x][v] > 0 => Exists(x)
  <2>1. CASE addUserToTeam(t, u)
    BY <2>1, RowsAdded DEF TypeInv, TeamsKnown
  <2>2. CASE deleteUserFromTeam(t, u)
    BY <2>2, RowsDeleted DEF TypeInv, TeamsKnown
  <2> QED BY <2>1, <2>2
<1>2. \A x \in Teams : Exists(x)' <=> Exists(x)
  BY DEF Exists
<1>3. /\ manager' \in [Teams -> ManagerColumn] /\ seat' \in [Users -> SeatStates]
      /\ seat'[Owner] = "active" /\ headless' \subseteq Teams
  BY DEF TypeInv, TablesFine, OwnerSits
<1> QED BY <1>1, <1>2, <1>3, TablesStep

LEMMA ManagerStep ==
    ASSUME TypeInv, NEW t \in Teams, NEW u \in Users, updateManager(t, u),
           UNCHANGED <<seat, rows, shared, gone, headless, alone>>, RequestsFine'
    PROVE  TypeInv'
<1>1. /\ manager' \in [Teams -> ManagerColumn]
      /\ \A x \in Teams : Exists(x)' <=> Exists(x)
  BY ManagerUpdated
<1>2. /\ rows' \in [Teams -> [Users -> 0 .. MaxRows]] /\ seat' \in [Users -> SeatStates]
      /\ seat'[Owner] = "active" /\ headless' \subseteq Teams
  BY DEF TypeInv, TablesFine, OwnerSits
<1>3. \A x \in Teams, v \in Users : rows'[x][v] > 0 => Exists(x)'
  BY <1>1 DEF TypeInv, TeamsKnown
<1> QED BY <1>1, <1>2, <1>3, TablesStep

LEMMA SeatStep ==
    ASSUME TypeInv, NEW u \in Users, NEW state \in SeatStates, seat' = [seat EXCEPT ![u] = state],
           u = Owner => state = "active",
           UNCHANGED <<manager, rows, shared, gone, headless, alone>>, RequestsFine'
    PROVE  TypeInv'
<1>1. /\ rows' \in [Teams -> [Users -> 0 .. MaxRows]] /\ manager' \in [Teams -> ManagerColumn]
      /\ headless' \subseteq Teams
  BY DEF TypeInv, TablesFine
<1>2. seat' \in [Users -> SeatStates] /\ seat'[Owner] = "active"
  BY WorkspaceTeamsConstants DEF WorkspaceTeamsConstants, TypeInv, TablesFine, OwnerSits
<1>3. \A x \in Teams : Exists(x)' <=> Exists(x)
  BY DEF Exists
<1>4. \A x \in Teams, v \in Users : rows'[x][v] > 0 => Exists(x)'
  BY <1>3 DEF TypeInv, TeamsKnown
<1> QED BY <1>1, <1>2, <1>3, <1>4, TablesStep

\* Nothing a step of these does makes a team unknown.
LEMMA SameTeams ==
    ASSUME UNCHANGED gone, UNCHANGED manager \/ \E t \in Teams, u \in Users : TypeInv /\ updateManager(t, u)
    PROVE  KnownStays
<1>1. \A x \in Teams : Exists(x)' <=> Exists(x)
  <2>1. CASE UNCHANGED manager
    BY <2>1 DEF Exists
  <2>2. ASSUME NEW t \in Teams, NEW u \in Users, TypeInv, updateManager(t, u)
        PROVE  \A x \in Teams : Exists(x)' <=> Exists(x)
    BY <2>2, ManagerUpdated
  <2> QED BY <2>1, <2>2
<1> QED BY <1>1 DEF KnownStays, Known

LEMMA MovingType ==
    ASSUME TypeInv, UNCHANGED alone, NEW w \in inflight,
           addMemberInserts(w) \/ removeMemberWrites(w) \/ setManager(w)
    PROVE  TypeInv'
<1> USE DEF Ops, SeatOps, LeaveOps
<1>1. RequestFine(w) /\ w \in Request /\ w.team \in Teams /\ w.user \in Users
  BY RequestTypes
<1>2. UNCHANGED <<seat, shared, gone, headless>>
  BY DEF addMemberInserts, removeMemberWrites, setManager, Histories
<1>3. CASE addMemberInserts(w)
  <2>1. addUserToTeam(w.team, w.user) /\ Done(w) /\ UNCHANGED manager
    BY <1>3 DEF addMemberInserts
  <2>2. RequestsFine'
    BY <1>2, <2>1, SameTeams, DoneFine DEF TypeInv
  <2> QED BY <1>1, <1>2, <2>1, <2>2, RowsStep
<1>4. CASE removeMemberWrites(w) /\ w.op = "replaceManager"
  <2>1. updateManager(w.team, Owner) /\ Goes(w, [w EXCEPT !.op = "removeMember"]) /\ UNCHANGED rows
    BY <1>4 DEF removeMemberWrites
  <2>2. Owner \in Users
    BY WorkspaceTeamsConstants DEF WorkspaceTeamsConstants
  <2>3. KnownStays
    BY <1>1, <1>2, <2>1, <2>2, SameTeams
  <2>4. Went(w, "removeMember", w.team, w.left)
    BY <1>1, <2>1, WithOp
  <2>5. RequestsFine'
    BY <2>3, <2>4, WentFine DEF TypeInv
  <2> QED BY <1>1, <1>2, <2>1, <2>2, <2>5, ManagerStep
<1>5. CASE removeMemberWrites(w) /\ w.op # "replaceManager"
  <2>1. deleteUserFromTeam(w.team, w.user) /\ Done(w) /\ UNCHANGED manager
    BY <1>5 DEF removeMemberWrites
  <2>2. RequestsFine'
    BY <1>2, <2>1, SameTeams, DoneFine DEF TypeInv
  <2> QED BY <1>1, <1>2, <2>1, <2>2, RowsStep
<1>6. CASE setManager(w)
  <2>1. updateManager(w.team, w.user) /\ Done(w) /\ UNCHANGED rows
    BY <1>6 DEF setManager
  <2>2. KnownStays
    BY <1>1, <1>2, <2>1, SameTeams
  <2>3. RequestsFine'
    BY <2>1, <2>2, DoneFine DEF TypeInv
  <2> QED BY <1>1, <1>2, <2>1, <2>3, ManagerStep
<1> QED BY <1>3, <1>4, <1>5, <1>6

LEMMA AcceptingType ==
    ASSUME TypeInv, UNCHANGED alone, NEW w \in inflight, acceptWorkspaceInviteInserts(w)
    PROVE  TypeInv'
<1> USE DEF Ops, SeatOps, LeaveOps, SeatStates
<1>1. RequestFine(w) /\ w \in Request /\ w.team \in Teams /\ w.user \in Users
  BY RequestTypes
<1>2. UNCHANGED <<manager, shared, gone, headless>> /\ KnownStays
  BY SameTeams DEF acceptWorkspaceInviteInserts, Histories
<1>3. w.user # Owner
  BY <1>1 DEF acceptWorkspaceInviteInserts, RequestFine
<1>4. CASE /\ w.op = "insertSeat" /\ seat' = [seat EXCEPT ![w.user] = "active"]
           /\ Goes(w, [w EXCEPT !.op = "insertDefault"]) /\ UNCHANGED rows
  <2>1. Went(w, "insertDefault", w.team, w.left)
    BY <1>1, <1>4, WithOp
  <2>2. RequestsFine'
    BY <1>2, <1>3, <2>1, WentFine DEF TypeInv
  <2> QED BY <1>1, <1>2, <1>3, <1>4, <2>2, SeatStep
<1>5. CASE /\ w.op = "insertDefault" /\ addUserToTeam(w.team, w.user)
           /\ Done(w) /\ UNCHANGED seat
  <2>1. RequestsFine'
    BY <1>2, <1>5, DoneFine DEF TypeInv
  <2> QED BY <1>1, <1>2, <1>5, <2>1, RowsStep
<1>6. CASE /\ w.op = "insertDefault" /\ seat' = [seat EXCEPT ![w.user] = "none"]
           /\ Goes(w, [w EXCEPT !.op = "removeMember"]) /\ UNCHANGED rows
  <2>1. Went(w, "removeMember", w.team, w.left)
    BY <1>1, <1>6, WithOp
  <2>2. RequestsFine'
    BY <1>2, <2>1, WentFine DEF TypeInv
  <2> QED BY <1>1, <1>2, <1>3, <1>6, <2>2, SeatStep
<1> QED BY <1>4, <1>5, <1>6 DEF acceptWorkspaceInviteInserts

LEMMA LeavingType ==
    ASSUME TypeInv, UNCHANGED alone, NEW w \in inflight, leavesTeams(w)
    PROVE  TypeInv'
<1> USE DEF Ops, SeatOps, LeaveOps, SeatStates
<1>1. RequestFine(w) /\ w \in Request /\ w.team \in Teams /\ w.user \in Users
  BY RequestTypes
<1>2. UNCHANGED <<shared, gone, headless>>
  BY DEF leavesTeams, Histories
<1>3. w.user # Owner /\ w.left \subseteq Teams
  BY <1>1 DEF leavesTeams, RequestFine
<1>4. CASE w.op = "leaveManaged" /\ w.left # {}
  <2>1. PICK t \in w.left : updateManager(t, Owner) /\ Goes(w, [w EXCEPT !.op = "leaveManagedTeam", !.team = t])
    BY <1>4 DEF leavesTeams
  <2>2. UNCHANGED <<seat, rows>>
    BY <1>4 DEF leavesTeams
  <2>3. Owner \in Users /\ t \in Teams
    BY <1>3, WorkspaceTeamsConstants DEF WorkspaceTeamsConstants
  <2>4. Went(w, "leaveManagedTeam", t, w.left)
    BY <1>1, <2>1, <2>3, WithTeam
  <2>5. KnownStays
    BY <1>2, <2>1, <2>3, SameTeams
  <2>6. RequestsFine'
    BY <1>3, <2>4, <2>5, WentFine DEF TypeInv
  <2> QED BY <1>2, <2>1, <2>2, <2>3, <2>6, ManagerStep
<1>5. CASE w.op = "leaveManagedTeam"
  <2>1. /\ deleteUserFromTeam(w.team, w.user)
        /\ Goes(w, [w EXCEPT !.op = "leaveManaged", !.left = @ \ {w.team}])
        /\ UNCHANGED <<seat, manager>>
    BY <1>5 DEF leavesTeams
  <2>2. Went(w, "leaveManaged", w.team, w.left \ {w.team})
    BY <1>1, <1>3, <2>1, WithLeft
  <2>3. RequestsFine'
    BY <1>2, <1>3, <2>1, <2>2, SameTeams, WentFine DEF TypeInv
  <2> QED BY <1>1, <1>2, <2>1, <2>3, RowsStep
<1>6. CASE w.op = "leaveManaged" /\ w.left = {}
  <2>1. /\ Goes(w, [w EXCEPT !.op = "leaveTeams", !.left = getTeamsUserBelongsTo(w.user)])
        /\ UNCHANGED <<seat, manager, rows>>
    BY <1>6 DEF leavesTeams
  <2>2. getTeamsUserBelongsTo(w.user) \subseteq Teams
    BY DEF getTeamsUserBelongsTo, ExistingTeams
  <2>3. Went(w, "leaveTeams", w.team, getTeamsUserBelongsTo(w.user))
    BY <1>1, <2>1, <2>2, WithLeft
  <2>4. RequestsFine'
    BY <1>2, <1>3, <2>1, <2>2, <2>3, SameTeams, WentFine DEF TypeInv
  <2>5. seat' \in [Users -> SeatStates] /\ seat'[Owner] = "active" /\ headless' \subseteq Teams
    BY <1>2, <2>1 DEF TypeInv, TablesFine, OwnerSits
  <2>6. rows' \in [Teams -> [Users -> 0 .. MaxRows]] /\ manager' \in [Teams -> ManagerColumn]
    BY <2>1 DEF TypeInv, TablesFine
  <2>7. (\A x \in Teams : Exists(x)' <=> Exists(x)) /\ \A x \in Teams, v \in Users : rows'[x][v] > 0 => Exists(x)'
    BY <2>1 DEF Exists, TypeInv, TeamsKnown
  <2> QED BY <1>2, <2>1, <2>4, <2>5, <2>6, <2>7, TablesStep
<1>7. CASE w.op = "leaveTeams" /\ w.left # {}
  <2>1. PICK t \in w.left : deleteUserFromTeam(t, w.user) /\ Goes(w, [w EXCEPT !.left = @ \ {t}])
    BY <1>7 DEF leavesTeams
  <2>2. UNCHANGED <<seat, manager>>
    BY <1>7 DEF leavesTeams
  <2>3. [w EXCEPT !.left = @ \ {t}] = [w EXCEPT !.op = "leaveTeams", !.left = w.left \ {t}]
    BY <1>1, <1>7 DEF Request
  <2>4. Went(w, "leaveTeams", w.team, w.left \ {t})
    BY <1>1, <1>3, <2>1, <2>3, WithLeft
  <2>5. RequestsFine'
    BY <1>2, <1>3, <2>2, <2>4, SameTeams, WentFine DEF TypeInv
  <2> QED BY <1>1, <1>2, <1>3, <2>1, <2>2, <2>5, RowsStep
<1>8. CASE w.op = "leaveTeams" /\ w.left = {}
  <2>1. seat' = [seat EXCEPT ![w.user] = "none"] /\ Done(w) /\ UNCHANGED <<manager, rows>>
    BY <1>8 DEF leavesTeams
  <2>2. RequestsFine'
    BY <1>2, <2>1, SameTeams, DoneFine DEF TypeInv
  <2> QED BY <1>1, <1>2, <1>3, <2>1, <2>2, SeatStep
<1> QED BY <1>4, <1>5, <1>6, <1>7, <1>8 DEF leavesTeams

LEMMA SharingType ==
    ASSUME TypeInv, UNCHANGED alone, NEW w \in inflight, shareItemInserts(w)
    PROVE  TypeInv'
<1>1. RequestFine(w) /\ w.team \in Teams /\ w.left \subseteq Items /\ Known(w.team)
  BY RequestTypes DEF shareItemInserts, RequestFine
<1>2. PICK i \in w.left : shared' = [shared EXCEPT ![i][w.team] = @ + 1]
  BY DEF shareItemInserts
<1>3. Done(w) /\ UNCHANGED <<seat, manager, rows, gone, headless>>
  BY DEF shareItemInserts, Histories
<1>4. shared \in [Items -> [Teams -> Nat]] /\ i \in Items
  BY <1>1 DEF TypeInv, TablesFine
<1>5. shared' \in [Items -> [Teams -> Nat]]
  BY <1>1, <1>2, <1>4
<1>6. \A j \in Items, t \in Teams : shared'[j][t] > 0 => shared[j][t] > 0 \/ t = w.team
  BY <1>1, <1>2, <1>4
<1>7. \A j \in Items, t \in Teams : shared'[j][t] > 0 => Known(t)
  BY <1>1, <1>6 DEF TypeInv, TeamsKnown
<1>8. RequestsFine'
  BY <1>3, SameTeams, DoneFine DEF TypeInv
<1>9. TeamsKnown'
  BY <1>3, <1>7 DEF TypeInv, TeamsKnown, Known, Exists, ExistingTeams
<1> QED BY <1>3, <1>5, <1>8, <1>9 DEF TypeInv, TablesFine, OwnerSits

LEMMA TypeStep == TypeInv /\ [Next]_vars => TypeInv'
<1> SUFFICES ASSUME TypeInv, [Next]_vars PROVE TypeInv'
  OBVIOUS
<1>1. CASE UNCHANGED vars
  BY <1>1 DEF vars, TypeInv, TablesFine, RequestsFine, RequestFine, OwnerSits, TeamsKnown, Known, Exists, ExistingTeams
<1>2. CASE Next
  <2>1. UNCHANGED alone /\ Step
    BY <1>2 DEF Next
  <2>2. Beginning \/ Answered \/ \E w \in inflight : RequestStep(w)
    BY <2>1, StepKinds
  <2>3. ASSUME NEW w \in inflight, requestDies(w) PROVE TypeInv'
    <3>1. Done(w) /\ UNCHANGED <<seat, manager, rows, shared, gone, headless>>
      BY <2>3 DEF requestDies, Histories
    <3>2. RequestsFine'
      BY <3>1, SameTeams, DoneFine DEF TypeInv
    <3>3. TablesFine' /\ OwnerSits' /\ TeamsKnown'
      BY <2>1, <3>1 DEF TypeInv, TablesFine, OwnerSits, TeamsKnown, Known, Exists, ExistingTeams
    <3> QED BY <3>2, <3>3 DEF TypeInv
  <2>4. ASSUME NEW w \in inflight, RequestStep(w) PROVE TypeInv'
    BY <2>1, <2>3, <2>4, CreatingType, MovingType, AcceptingType, LeavingType, SharingType DEF RequestStep
  <2> QED BY <2>1, <2>2, <2>4, BeginningType, AnsweredType
<1> QED BY <1>1, <1>2

LEMMA InitType == Init => TypeInv
<1> SUFFICES ASSUME Init PROVE TypeInv
  OBVIOUS
<1> USE WorkspaceTeamsConstants DEF WorkspaceTeamsConstants
<1>1. TablesFine
  BY DEF Init, TablesFine, SeatStates, ManagerColumn
<1>2. RequestsFine
  BY FS_EmptySet DEF Init, RequestsFine
<1>3. OwnerSits /\ TeamsKnown
  BY DEF Init, OwnerSits, TeamsKnown, Exists, ExistingTeams
<1> QED BY <1>1, <1>2, <1>3 DEF TypeInv

LEMMA TypeInvariant == Spec => []TypeInv
BY InitType, TypeStep, PTL DEF Spec

----------------------------------------------------------------------------
(* Requests that wait for each other.                                      *)

\* Nothing but an active seat elsewhere brings this user into a team.
OutOf(u) ==
    \A t \in Teams : rows[t][u] > 0 \/ manager[t] = u => u \in Elsewhere /\ t # DefaultTeam

Placed == \A u \in Users : seat[u] = "none" => OutOf(u)

Managed == \A t \in ExistingTeams \ headless : manager[t] = Owner \/ rows[t][manager[t]] > 0

\* What a request has made sure of, by its next statement.
DoingOf(op, t, u, left) ==
    /\ op = "insertTeam" => Cardinality(ExistingTeams) < MaxTeams /\ findWorkspaceUser(u)
    /\ op = "insertManager" =>
          /\ t # DefaultTeam /\ manager[t] = u /\ findWorkspaceUser(u)
          /\ \A v \in Users : rows[t][v] = 0
    /\ op = "insertMember" =>
          /\ t # DefaultTeam /\ (findWorkspaceUser(u) \/ u \in Elsewhere)
          /\ rows[t][u] = 0 /\ getTeamMembersCount(t) < MaxMembers
    /\ op = "removeMember" => (manager[t] = u => u = Owner)
    /\ op = "setManager" => rows[t][u] > 0 \/ u = Owner
    /\ op = "insertSeat" => t = DefaultTeam /\ OutOf(u)
    /\ op = "insertDefault" => t = DefaultTeam /\ OutOf(u) /\ findWorkspaceUser(u)
    /\ op = "leaveManaged" => getTeamsWhereUserIsManager(u) \subseteq left
    /\ op = "leaveManagedTeam" => getTeamsWhereUserIsManager(u) \subseteq left \ {t}
    /\ op = "leaveTeams" => getTeamsWhereUserIsManager(u) = {} /\ getTeamsUserBelongsTo(u) \subseteq left

Doing(w) == DoingOf(w.op, w.team, w.user, w.left)

OneAtATime == (\A v, w \in inflight : v = w) /\ \A w \in inflight : Doing(w)

AloneInv == OneAtATime /\ Placed /\ Managed /\ OneRowWithinLimits

\* The rows of a team, of users and their order.
MembersOf(members) == {e \in Users \X (1 .. MaxRows) : e[2] <= members[e[1]]}

LEMMA MembersFinite ==
    ASSUME NEW members PROVE IsFiniteSet(MembersOf(members)) /\ Cardinality(MembersOf(members)) \in Nat
<1>1. IsFiniteSet(Users) /\ MaxRows \in Nat
  BY WorkspaceTeamsConstants DEF WorkspaceTeamsConstants
<1>2. IsFiniteSet(1 .. MaxRows)
  BY <1>1, FS_Interval
<1>3. IsFiniteSet(Users \X (1 .. MaxRows))
  BY <1>1, <1>2, FS_Product
<1>4. IsFiniteSet(MembersOf(members))
  BY <1>3, FS_Subset DEF MembersOf
<1> QED BY <1>4, FS_CardinalityType

LEMMA OneMore ==
    ASSUME NEW S, IsFiniteSet(S), NEW x
    PROVE  IsFiniteSet(S \cup {x}) /\ Cardinality(S \cup {x}) <= Cardinality(S) + 1
<1>1. Cardinality(S) \in Nat
  BY FS_CardinalityType
<1> QED BY <1>1, FS_AddElement

LEMMA FewerMembers ==
    ASSUME NEW some \in [Users -> 0 .. MaxRows], NEW more \in [Users -> 0 .. MaxRows],
           \A u \in Users : some[u] <= more[u]
    PROVE  Cardinality(MembersOf(some)) <= Cardinality(MembersOf(more))
<1>1. MembersOf(some) \subseteq MembersOf(more)
  <2> SUFFICES ASSUME NEW u \in Users, NEW n \in 1 .. MaxRows, n <= some[u] PROVE n <= more[u]
    BY DEF MembersOf
  <2>1. some[u] \in Nat /\ more[u] \in Nat /\ MaxRows \in Nat
    BY WorkspaceTeamsConstants DEF WorkspaceTeamsConstants
  <2> QED BY <2>1
<1> QED BY <1>1, MembersFinite, FS_Subset

LEMMA OneMember ==
    ASSUME NEW some \in [Users -> 0 .. MaxRows], NEW more \in [Users -> 0 .. MaxRows], NEW u \in Users,
           some[u] = 0, more[u] = 1, \A v \in Users \ {u} : some[v] = more[v]
    PROVE  Cardinality(MembersOf(more)) <= Cardinality(MembersOf(some)) + 1
<1>1. MembersOf(more) \subseteq MembersOf(some) \cup {<<u, 1>>}
  <2> SUFFICES ASSUME NEW v \in Users, NEW n \in 1 .. MaxRows, n <= more[v]
               PROVE  n <= some[v] \/ (v = u /\ n = 1)
    BY DEF MembersOf
  <2>1. MaxRows \in Nat
    BY WorkspaceTeamsConstants DEF WorkspaceTeamsConstants
  <2> QED BY <2>1
<1>2. /\ IsFiniteSet(MembersOf(some) \cup {<<u, 1>>})
      /\ Cardinality(MembersOf(some) \cup {<<u, 1>>}) <= Cardinality(MembersOf(some)) + 1
  BY MembersFinite, OneMore
<1>4. Cardinality(MembersOf(more)) <= Cardinality(MembersOf(some) \cup {<<u, 1>>})
  BY <1>1, <1>2, FS_Subset
<1>5. Cardinality(MembersOf(some) \cup {<<u, 1>>}) \in Nat
  BY <1>2, FS_CardinalityType
<1> QED BY <1>2, <1>4, <1>5, MembersFinite

LEMMA CountOfMembers ==
    \A t \in Teams : /\ getTeamMembersCount(t) = Cardinality(MembersOf(rows[t]))
                     /\ getTeamMembersCount(t)' = Cardinality(MembersOf(rows'[t]))
BY DEF getTeamMembersCount, MembersOf

\* Fewer rows and no more teams are within the limits.
LEMMA StaysWithin ==
    ASSUME TypeInv, TypeInv', OneRowWithinLimits,
           \A t \in Teams, u \in Users : rows'[t][u] <= rows[t][u],
           (ExistingTeams)' \subseteq ExistingTeams
    PROVE  OneRowWithinLimits'
<1>1. /\ rows \in [Teams -> [Users -> 0 .. MaxRows]] /\ rows' \in [Teams -> [Users -> 0 .. MaxRows]]
      /\ MaxRows \in Nat /\ MaxMembers \in Nat /\ MaxTeams \in Nat
  BY WorkspaceTeamsConstants DEF WorkspaceTeamsConstants, TypeInv, TablesFine
<1>2. \A t \in Teams, u \in Users : rows'[t][u] <= 1
  BY <1>1 DEF OneRowWithinLimits
<1>3. ASSUME NEW t \in Teams \ {DefaultTeam} PROVE getTeamMembersCount(t)' <= MaxMembers
  <2>1. Cardinality(MembersOf(rows'[t])) <= Cardinality(MembersOf(rows[t]))
    BY <1>1, FewerMembers
  <2>2. Cardinality(MembersOf(rows[t])) <= MaxMembers
    BY CountOfMembers DEF OneRowWithinLimits
  <2>3. Cardinality(MembersOf(rows'[t])) \in Nat /\ Cardinality(MembersOf(rows[t])) \in Nat
    BY MembersFinite
  <2> QED BY <1>1, <2>1, <2>2, <2>3, CountOfMembers
<1>4. Cardinality(ExistingTeams)' <= MaxTeams
  <2>1. IsFiniteSet(ExistingTeams)
    BY WorkspaceTeamsConstants, FS_Subset DEF WorkspaceTeamsConstants, ExistingTeams
  <2>2. IsFiniteSet((ExistingTeams)') /\ Cardinality((ExistingTeams)') <= Cardinality(ExistingTeams)
    BY <2>1, FS_Subset
  <2>3. Cardinality(ExistingTeams) \in Nat /\ Cardinality((ExistingTeams)') \in Nat
    BY <2>1, <2>2, FS_CardinalityType
  <2> QED BY <1>1, <2>2, <2>3 DEF OneRowWithinLimits
<1> QED BY <1>2, <1>3, <1>4 DEF OneRowWithinLimits

\* A row for a user who had none, of a team with room for one more.
LEMMA RowWithin ==
    ASSUME TypeInv, TypeInv', OneRowWithinLimits, NEW t \in Teams, NEW u \in Users,
           addUserToTeam(t, u), rows[t][u] = 0, UNCHANGED manager,
           t # DefaultTeam => getTeamMembersCount(t) < MaxMembers
    PROVE  OneRowWithinLimits'
<1>1. /\ rows \in [Teams -> [Users -> 0 .. MaxRows]] /\ rows' \in [Teams -> [Users -> 0 .. MaxRows]]
      /\ MaxRows \in Nat /\ MaxMembers \in Nat
  BY WorkspaceTeamsConstants DEF WorkspaceTeamsConstants, TypeInv, TablesFine
<1>2. /\ \A x \in Teams, v \in Users : x # t \/ v # u => rows'[x][v] = rows[x][v]
      /\ rows'[t][u] \in {0, 1}
  BY RowsAdded
<1>3. \A x \in Teams, v \in Users : rows'[x][v] <= 1
  BY <1>2 DEF OneRowWithinLimits
<1>4. Cardinality(ExistingTeams)' <= MaxTeams
  BY DEF OneRowWithinLimits, ExistingTeams, Exists
<1>5. ASSUME NEW x \in Teams \ {DefaultTeam} PROVE getTeamMembersCount(x)' <= MaxMembers
  <2>1. CASE x = t /\ rows'[t][u] = 1
    <3>1. Cardinality(MembersOf(rows'[t])) <= Cardinality(MembersOf(rows[t])) + 1
      BY <1>1, <1>2, <2>1, OneMember
    <3>2. Cardinality(MembersOf(rows[t])) < MaxMembers
      BY <2>1, CountOfMembers
    <3>3. Cardinality(MembersOf(rows'[t])) \in Nat /\ Cardinality(MembersOf(rows[t])) \in Nat
      BY MembersFinite
    <3> QED BY <1>1, <2>1, <3>1, <3>2, <3>3, CountOfMembers
  <2>2. CASE x # t \/ rows'[t][u] = 0
    <3>1. rows'[x] = rows[x]
      BY <1>1, <1>2, <2>2
    <3> QED BY <3>1, CountOfMembers DEF OneRowWithinLimits
  <2> QED BY <1>2, <2>1, <2>2
<1> QED BY <1>3, <1>4, <1>5 DEF OneRowWithinLimits

LEMMA AfterWent ==
    ASSUME OneAtATime, NEW w \in inflight, NEW op, NEW t, NEW left, Went(w, op, t, left),
           DoingOf(op, t, w.user, left)'
    PROVE  OneAtATime'
<1>1. PICK s : /\ s.op = op /\ s.team = t /\ s.user = w.user /\ s.left = left
               /\ inflight' = (inflight \ {w}) \cup {s}
  BY DEF Went, Goes
<1>2. inflight' = {s}
  BY <1>1 DEF OneAtATime
<1>3. Doing(s)'
  BY <1>1 DEF Doing
<1> QED BY <1>2, <1>3 DEF OneAtATime

LEMMA AfterDone ==
    ASSUME OneAtATime, NEW w \in inflight, Done(w)
    PROVE  OneAtATime'
BY DEF OneAtATime, Done

LEMMA AfterBegun ==
    ASSUME TypeInv, AloneInv, alone, NEW op, NEW t, NEW u, NEW left, Begun(op, t, u, left),
           DoingOf(op, t, u, left)
    PROVE  AloneInv'
<1>1. PICK s : s.op = op /\ s.team = t /\ s.user = u /\ s.left = left /\ inflight' = inflight \cup {s}
  BY DEF Begun
<1>2. inflight = {} /\ UNCHANGED tables
  BY DEF Begun, Quiet
<1>3. DoingOf(op, t, u, left)'
  BY <1>2 DEF tables, DoingOf, OutOf, ExistingTeams, Exists, findWorkspaceUser, getTeamMembersCount,
      getTeamsWhereUserIsManager, getTeamsUserBelongsTo
<1>4. Doing(s)'
  BY <1>1, <1>3 DEF Doing
<1>5. OneAtATime'
  BY <1>1, <1>2, <1>4 DEF OneAtATime
<1>6. Placed' /\ Managed' /\ OneRowWithinLimits'
  BY <1>2 DEF tables, AloneInv, Placed, OutOf, Managed, OneRowWithinLimits, ExistingTeams, Exists, getTeamMembersCount
<1> QED BY <1>5, <1>6 DEF AloneInv

LEMMA BeginningAlone ==
    ASSUME TypeInv, AloneInv, alone, Beginning
    PROVE  AloneInv'
<1>1. ASSUME NEW m \in Users, findWorkspaceUser(m), Cardinality(ExistingTeams) < MaxTeams,
             Begun("insertTeam", DefaultTeam, m, {})
      PROVE  AloneInv'
  <2>1. DoingOf("insertTeam", DefaultTeam, m, {})
    BY <1>1 DEF DoingOf
  <2> QED BY <1>1, <2>1, AfterBegun
<1>2. ASSUME NEW t \in Teams, NEW u \in Users,
             getAndValidateNonDefaultTeamWorkspace(t), findActiveUserAnywhere(u),
             ~ getTeamUser(u, t), getTeamMembersCount(t) < MaxMembers,
             Begun("insertMember", t, u, {})
      PROVE  AloneInv'
  <2>1. rows[t][u] = 0
    BY <1>2, WorkspaceTeamsConstants DEF WorkspaceTeamsConstants, getTeamUser, TypeInv, TablesFine
  <2>2. DoingOf("insertMember", t, u, {})
    BY <1>2, <2>1 DEF DoingOf, getAndValidateNonDefaultTeamWorkspace, findActiveUserAnywhere, isDefaultTeam,
        findWorkspaceUser
  <2> QED BY <1>2, <2>2, AfterBegun
<1>3. ASSUME NEW t \in Teams, NEW u \in Users,
             \/ Begun("replaceManager", t, u, {})
             \/ manager[t] # u /\ Begun("removeMember", t, u, {})
             \/ (getTeamUser(u, t) \/ u = Owner) /\ Begun("setManager", t, u, {})
      PROVE  AloneInv'
  <2>1. CASE Begun("replaceManager", t, u, {})
    <3>1. DoingOf("replaceManager", t, u, {})
      BY DEF DoingOf
    <3> QED BY <2>1, <3>1, AfterBegun
  <2>2. CASE manager[t] # u /\ Begun("removeMember", t, u, {})
    <3>1. DoingOf("removeMember", t, u, {})
      BY <2>2 DEF DoingOf
    <3> QED BY <2>2, <3>1, AfterBegun
  <2>3. CASE (getTeamUser(u, t) \/ u = Owner) /\ Begun("setManager", t, u, {})
    <3>1. DoingOf("setManager", t, u, {})
      BY <2>3 DEF DoingOf, getTeamUser
    <3> QED BY <2>3, <3>1, AfterBegun
  <2> QED BY <1>3, <2>1, <2>2, <2>3
<1>4. ASSUME NEW u \in Users, ~ findWorkspaceUser(u), Begun("insertSeat", DefaultTeam, u, {})
      PROVE  AloneInv'
  <2>1. OutOf(u)
    BY <1>4 DEF AloneInv, Placed, findWorkspaceUser
  <2>2. DoingOf("insertSeat", DefaultTeam, u, {})
    BY <2>1 DEF DoingOf
  <2> QED BY <1>4, <2>2, AfterBegun
<1>5. ASSUME NEW u \in Users, Begun("leaveManaged", DefaultTeam, u, getTeamsWhereUserIsManager(u))
      PROVE  AloneInv'
  <2>1. DoingOf("leaveManaged", DefaultTeam, u, getTeamsWhereUserIsManager(u))
    BY DEF DoingOf
  <2> QED BY <1>5, <2>1, AfterBegun
<1>6. ASSUME NEW i \in Items, NEW t \in Teams, Begun("insertSharing", t, Owner, {i})
      PROVE  AloneInv'
  <2>1. DoingOf("insertSharing", t, Owner, {i})
    BY DEF DoingOf
  <2> QED BY <1>6, <2>1, AfterBegun
<1> QED BY <1>1, <1>2, <1>3, <1>4, <1>5, <1>6 DEF Beginning

LEMMA AnsweredAlone ==
    ASSUME TypeInv, TypeInv', AloneInv, alone, Answered
    PROVE  AloneInv'
<1>1. ASSUME NEW t \in Teams, deleteTeam(t) PROVE AloneInv'
  <2>1. /\ manager' = [manager EXCEPT ![t] = Nobody] /\ t # DefaultTeam
        /\ rows' = [rows EXCEPT ![t] = [u \in DOMAIN @ |-> 0]]
        /\ UNCHANGED <<seat, inflight, headless>> /\ inflight = {}
    BY <1>1 DEF deleteTeam, Quiet, getAndValidateNonDefaultTeamWorkspace, isDefaultTeam
  <2>2. /\ manager \in [Teams -> ManagerColumn] /\ rows \in [Teams -> [Users -> 0 .. MaxRows]]
        /\ Nobody \notin Users /\ MaxRows \in Nat
    BY WorkspaceTeamsConstants DEF WorkspaceTeamsConstants, TypeInv, TablesFine
  <2>3. \A x \in Teams : manager'[x] = IF x = t THEN Nobody ELSE manager[x]
    BY <2>1, <2>2
  <2>4. \A x \in Teams, u \in Users : rows'[x][u] = IF x = t THEN 0 ELSE rows[x][u]
    BY <2>1, <2>2
  <2>5. (ExistingTeams)' = ExistingTeams \ {t}
    BY <2>3 DEF ExistingTeams, Exists
  <2>6. Placed'
    BY <2>1, <2>2, <2>3, <2>4 DEF AloneInv, Placed, OutOf
  <2>7. Managed'
    <3> SUFFICES ASSUME NEW x \in (ExistingTeams)', x \notin headless'
                 PROVE  manager'[x] = Owner \/ rows'[x][manager'[x]] > 0
      BY DEF Managed
    <3>1. x \in ExistingTeams \ headless /\ x # t /\ x \in Teams
      BY <2>1, <2>5 DEF ExistingTeams
    <3>2. manager'[x] = manager[x] /\ manager[x] \in Users
      BY <2>2, <2>3, <3>1 DEF ExistingTeams, Exists, ManagerColumn
    <3>3. rows'[x][manager[x]] = rows[x][manager[x]]
      BY <2>4, <3>1, <3>2
    <3>4. manager[x] = Owner \/ rows[x][manager[x]] > 0
      BY <3>1 DEF AloneInv, Managed
    <3> QED BY <3>2, <3>3, <3>4
  <2>8. \A x \in Teams, u \in Users : rows'[x][u] <= rows[x][u]
    BY <2>2, <2>4
  <2>9. OneRowWithinLimits'
    BY <2>5, <2>8, StaysWithin DEF AloneInv
  <2> QED BY <2>1, <2>6, <2>7, <2>9 DEF AloneInv, OneAtATime
<1>2. ASSUME NEW u \in Users, deactivateWorkspaceUser(u) \/ activateWorkspaceUser(u) PROVE AloneInv'
  <2>1. UNCHANGED <<manager, rows, inflight, headless>> /\ inflight = {} /\ seat \in [Users -> SeatStates]
    BY <1>2 DEF deactivateWorkspaceUser, activateWorkspaceUser, Histories, Quiet, TypeInv, TablesFine
  <2>2. \A v \in Users : seat'[v] = "none" => seat[v] = "none"
    BY <1>2, <2>1 DEF deactivateWorkspaceUser, activateWorkspaceUser, SeatStates
  <2>3. Placed'
    BY <2>1, <2>2 DEF AloneInv, Placed, OutOf
  <2>4. Managed' /\ OneRowWithinLimits'
    BY <2>1 DEF AloneInv, Managed, OneRowWithinLimits, ExistingTeams, Exists, getTeamMembersCount
  <2> QED BY <2>1, <2>3, <2>4 DEF AloneInv, OneAtATime
<1>3. ASSUME NEW i \in Items, removeSharing(i) PROVE AloneInv'
  <2>1. UNCHANGED <<seat, manager, rows, inflight, headless>> /\ inflight = {}
    BY <1>3 DEF removeSharing, Histories, Quiet
  <2> QED BY <2>1 DEF AloneInv, Managed, OneRowWithinLimits, ExistingTeams, Exists, getTeamMembersCount,
              Placed, OutOf, OneAtATime
<1> QED BY <1>1, <1>2, <1>3 DEF Answered

LEMMA NoMembers ==
    ASSUME TypeInv, NEW t \in Teams, \A u \in Users : rows[t][u] = 0
    PROVE  getTeamMembersCount(t) < MaxMembers
<1>1. MaxMembers \in Nat \ {0}
  BY WorkspaceTeamsConstants DEF WorkspaceTeamsConstants
<1>2. MembersOf(rows[t]) = {}
  <2> SUFFICES ASSUME NEW u \in Users, NEW n \in 1 .. MaxRows, n <= rows[t][u] PROVE FALSE
    BY DEF MembersOf
  <2> QED OBVIOUS
<1> QED BY <1>1, <1>2, CountOfMembers, FS_EmptySet

\* Rows are added for a user who may be in the team.
LEMMA AddedAlone ==
    ASSUME TypeInv, TypeInv', Placed, OneRowWithinLimits, NEW t \in Teams, NEW u \in Users, addUserToTeam(t, u),
           UNCHANGED <<seat, manager>>, rows[t][u] = 0,
           t # DefaultTeam => getTeamMembersCount(t) < MaxMembers,
           findWorkspaceUser(u) \/ (u \in Elsewhere /\ t # DefaultTeam)
    PROVE  Placed' /\ OneRowWithinLimits'
<1>1. OneRowWithinLimits'
  BY RowWithin
<1>2. \A x \in Teams, v \in Users : x # t \/ v # u => rows'[x][v] = rows[x][v]
  BY RowsAdded
<1>3. ASSUME NEW v \in Users, seat'[v] = "none", NEW x \in Teams, rows'[x][v] > 0 \/ manager'[x] = v
      PROVE  v \in Elsewhere /\ x # DefaultTeam
  <2>1. CASE x = t /\ v = u
    BY <1>3, <2>1 DEF findWorkspaceUser
  <2>2. CASE x # t \/ v # u
    BY <1>2, <1>3, <2>2 DEF Placed, OutOf
  <2> QED BY <2>1, <2>2
<1> QED BY <1>1, <1>3 DEF Placed, OutOf

\* A row is taken away from one who does not manage the team, or need not.
LEMMA DeletedAlone ==
    ASSUME TypeInv, TypeInv', Placed, Managed, OneRowWithinLimits, NEW t \in Teams, NEW u \in Users,
           deleteUserFromTeam(t, u), UNCHANGED <<seat, manager, headless>>, manager[t] = u => u = Owner
    PROVE  Placed' /\ Managed' /\ OneRowWithinLimits'
<1>1. /\ \A x \in Teams, v \in Users : x # t \/ v # u => rows'[x][v] = rows[x][v]
      /\ rows'[t][u] = 0
  BY RowsDeleted
<1>2. rows \in [Teams -> [Users -> 0 .. MaxRows]] /\ MaxRows \in Nat /\ manager \in [Teams -> ManagerColumn]
  BY WorkspaceTeamsConstants DEF WorkspaceTeamsConstants, TypeInv, TablesFine
<1>3. \A x \in Teams, v \in Users : rows'[x][v] <= rows[x][v]
  BY <1>1, <1>2
<1>4. (ExistingTeams)' = ExistingTeams
  BY DEF ExistingTeams, Exists
<1>5. OneRowWithinLimits'
  BY <1>3, <1>4, StaysWithin
<1>6. \A x \in Teams, v \in Users : rows'[x][v] > 0 => rows[x][v] > 0
  BY <1>1
<1>7. Placed'
  BY <1>6 DEF Placed, OutOf
<1>8. Managed'
  <2> SUFFICES ASSUME NEW x \in ExistingTeams \ headless, manager[x] # Owner PROVE rows'[x][manager[x]] > 0
    BY <1>4 DEF Managed
  <2>1. manager[x] \in Users /\ x \in Teams
    BY <1>2 DEF ExistingTeams, Exists, ManagerColumn
  <2>2. rows[x][manager[x]] > 0 /\ (x # t \/ manager[x] # u)
    BY DEF Managed
  <2> QED BY <1>1, <2>1, <2>2
<1> QED BY <1>5, <1>7, <1>8

\* A team gets a manager who is in it, or the owner.
LEMMA ManagedAlone ==
    ASSUME TypeInv, TypeInv', Placed, Managed, OneRowWithinLimits, NEW t \in Teams, NEW u \in Users,
           updateManager(t, u), UNCHANGED <<seat, rows, headless>>, rows[t][u] > 0 \/ u = Owner
    PROVE  Placed' /\ Managed' /\ OneRowWithinLimits'
<1>1. /\ \A x \in Teams : x # t => manager'[x] = manager[x]
      /\ manager'[t] = IF Exists(t) THEN u ELSE Nobody
      /\ (ExistingTeams)' = ExistingTeams
  BY ManagerUpdated
<1>2. OneRowWithinLimits'
  BY <1>1 DEF OneRowWithinLimits, getTeamMembersCount
<1>3. Managed'
  <2> SUFFICES ASSUME NEW x \in ExistingTeams \ headless PROVE manager'[x] = Owner \/ rows'[x][manager'[x]] > 0
    BY <1>1 DEF Managed
  <2>1. CASE x = t
    BY <1>1, <2>1 DEF ExistingTeams
  <2>2. CASE x # t
    BY <1>1, <2>2 DEF ExistingTeams, Managed
  <2> QED BY <2>1, <2>2
<1>4. ASSUME NEW v \in Users, seat'[v] = "none", NEW x \in Teams, rows'[x][v] > 0 \/ manager'[x] = v
      PROVE  v \in Elsewhere /\ x # DefaultTeam
  <2>1. seat[v] = "none" /\ v # Owner /\ v # Nobody
    BY <1>4, WorkspaceTeamsConstants DEF WorkspaceTeamsConstants, TypeInv, OwnerSits
  <2>2. rows[x][v] > 0 \/ manager[x] = v
    BY <1>1, <1>4, <2>1
  <2> QED BY <2>1, <2>2 DEF Placed, OutOf
<1> QED BY <1>2, <1>3, <1>4 DEF Placed, OutOf

LEMMA CreatingAlone ==
    ASSUME TypeInv, TypeInv', AloneInv, NEW w \in inflight, createTeamInserts(w)
    PROVE  AloneInv'
<1>1. RequestFine(w) /\ w \in Request /\ w.team \in Teams /\ w.user \in Users /\ Doing(w)
  BY RequestTypes DEF AloneInv, OneAtATime
<1>2. CASE w.op = "insertTeam"
  <2>1. PICK t \in Teams \ (ExistingTeams \cup gone) :
            /\ manager' = [manager EXCEPT ![t] = w.user]
            /\ headless' = headless \cup {t}
            /\ Goes(w, [w EXCEPT !.op = "insertManager", !.team = t])
    BY <1>2 DEF createTeamInserts
  <2>2. UNCHANGED <<seat, rows>> /\ findWorkspaceUser(w.user) /\ Cardinality(ExistingTeams) < MaxTeams
    BY <1>1, <1>2 DEF createTeamInserts, Doing, DoingOf
  <2>3. Went(w, "insertManager", t, w.left)
    BY <1>1, <2>1, WithTeam DEF Ops
  <2>4. /\ w.user # Nobody /\ ~ Exists(t) /\ t # DefaultTeam /\ manager \in [Teams -> ManagerColumn]
        /\ rows \in [Teams -> [Users -> 0 .. MaxRows]] /\ MaxRows \in Nat
    BY <1>1, WorkspaceTeamsConstants DEF WorkspaceTeamsConstants, TypeInv, TablesFine, TeamsKnown, ExistingTeams
  <2>5. \A u \in Users : rows[t][u] = 0
    BY <2>4 DEF TypeInv, TeamsKnown
  <2>6. \A x \in Teams : manager'[x] = IF x = t THEN w.user ELSE manager[x]
    BY <1>1, <2>1, <2>4
  <2>7. DoingOf("insertManager", t, w.user, w.left)'
    BY <2>2, <2>4, <2>5, <2>6 DEF DoingOf, findWorkspaceUser
  <2>8. OneAtATime'
    BY <2>3, <2>7, AfterWent DEF AloneInv
  <2>9. Placed'
    <3> SUFFICES ASSUME NEW v \in Users, seat[v] = "none", NEW x \in Teams, rows[x][v] > 0 \/ manager'[x] = v
                 PROVE  v \in Elsewhere /\ x # DefaultTeam
      BY <2>2 DEF Placed, OutOf
    <3>1. v # w.user
      BY <2>2 DEF findWorkspaceUser
    <3>2. rows[x][v] > 0 \/ manager[x] = v
      BY <2>6, <3>1
    <3> QED BY <3>2 DEF AloneInv, Placed, OutOf
  <2>10. (ExistingTeams)' = ExistingTeams \cup {t}
    BY <2>4, <2>6 DEF ExistingTeams, Exists
  <2>11. Managed'
    <3> SUFFICES ASSUME NEW x \in ExistingTeams \ headless, x # t
                 PROVE  manager'[x] = Owner \/ rows[x][manager'[x]] > 0
      BY <2>1, <2>2, <2>10 DEF Managed
    <3>1. manager'[x] = manager[x]
      BY <2>6 DEF ExistingTeams
    <3> QED BY <3>1 DEF AloneInv, Managed
  <2>12. Cardinality(ExistingTeams)' <= MaxTeams
    <3>1. IsFiniteSet(ExistingTeams) /\ MaxTeams \in Nat
      BY WorkspaceTeamsConstants, FS_Subset DEF WorkspaceTeamsConstants, ExistingTeams
    <3>2. Cardinality(ExistingTeams) \in Nat
      BY <3>1, FS_CardinalityType
    <3>3. IsFiniteSet(ExistingTeams \cup {t}) /\ Cardinality(ExistingTeams \cup {t}) <= Cardinality(ExistingTeams) + 1
      BY <3>1, OneMore
    <3>4. Cardinality(ExistingTeams \cup {t}) \in Nat
      BY <3>3, FS_CardinalityType
    <3> QED BY <2>2, <2>10, <3>1, <3>2, <3>3, <3>4
  <2>13. OneRowWithinLimits'
    BY <2>2, <2>12 DEF AloneInv, OneRowWithinLimits, getTeamMembersCount
  <2> QED BY <2>8, <2>9, <2>11, <2>13 DEF AloneInv
<1>3. CASE w.op = "insertManager"
  <2>1. /\ addUserToTeam(w.team, w.user) /\ headless' = headless \ {w.team} /\ Done(w)
        /\ UNCHANGED <<seat, manager>>
    BY <1>3 DEF createTeamInserts
  <2>2. /\ w.team # DefaultTeam /\ manager[w.team] = w.user /\ findWorkspaceUser(w.user)
        /\ \A v \in Users : rows[w.team][v] = 0
    BY <1>1, <1>3 DEF Doing, DoingOf
  <2>3. getTeamMembersCount(w.team) < MaxMembers
    BY <1>1, <2>2, NoMembers
  <2>4. Placed' /\ OneRowWithinLimits'
    BY <1>1, <2>1, <2>2, <2>3, AddedAlone DEF AloneInv
  <2>5. /\ \A x \in Teams, v \in Users : x # w.team \/ v # w.user => rows'[x][v] = rows[x][v]
        /\ rows'[w.team][w.user] = IF Exists(w.team) THEN rows[w.team][w.user] + 1 ELSE rows[w.team][w.user]
    BY <1>1, <2>1, RowsAdded
  <2>6. Exists(w.team)
    BY <1>1, <2>2, WorkspaceTeamsConstants DEF WorkspaceTeamsConstants, Exists
  <2>7. Managed'
    <3> SUFFICES ASSUME NEW x \in (ExistingTeams)', x \notin headless'
                 PROVE  manager[x] = Owner \/ rows'[x][manager[x]] > 0
      BY <2>1 DEF Managed
    <3>1. CASE x = w.team
      BY <1>1, <2>2, <2>5, <2>6, <3>1
    <3>2. CASE x # w.team
      <4>1. x \in ExistingTeams \ headless /\ x \in Teams /\ manager[x] \in Users
        BY <2>1, <3>2 DEF ExistingTeams, Exists, TypeInv, TablesFine, ManagerColumn
      <4>2. manager[x] = Owner \/ rows[x][manager[x]] > 0
        BY <4>1 DEF AloneInv, Managed
      <4> QED BY <2>5, <3>2, <4>1, <4>2
    <3> QED BY <3>1, <3>2
  <2> QED BY <2>1, <2>4, <2>7, AfterDone DEF AloneInv
<1> QED BY <1>2, <1>3 DEF createTeamInserts

LEMMA MovingAlone ==
    ASSUME TypeInv, TypeInv', AloneInv, NEW w \in inflight,
           addMemberInserts(w) \/ removeMemberWrites(w) \/ setManager(w)
    PROVE  AloneInv'
<1>1. RequestFine(w) /\ w \in Request /\ w.team \in Teams /\ w.user \in Users /\ Doing(w)
  BY RequestTypes DEF AloneInv, OneAtATime
<1>2. UNCHANGED <<seat, headless>> /\ Owner \in Users
  BY WorkspaceTeamsConstants DEF WorkspaceTeamsConstants, addMemberInserts, removeMemberWrites, setManager, Histories
<1>3. CASE addMemberInserts(w)
  <2>1. addUserToTeam(w.team, w.user) /\ Done(w) /\ UNCHANGED manager
    BY <1>3 DEF addMemberInserts
  <2>2. /\ w.team # DefaultTeam /\ (findWorkspaceUser(w.user) \/ w.user \in Elsewhere)
        /\ rows[w.team][w.user] = 0 /\ getTeamMembersCount(w.team) < MaxMembers
    BY <1>1, <1>3 DEF addMemberInserts, Doing, DoingOf
  <2>3. Placed' /\ OneRowWithinLimits'
    BY <1>1, <1>2, <2>1, <2>2, AddedAlone DEF AloneInv
  <2>4. \A x \in Teams, v \in Users : rows[x][v] > 0 => rows'[x][v] > 0
    BY <1>1, <2>1, <2>2, RowsAdded
  <2>5. Managed'
    <3> SUFFICES ASSUME NEW x \in ExistingTeams \ headless PROVE manager[x] = Owner \/ rows'[x][manager[x]] > 0
      BY <1>2, <2>1 DEF Managed, ExistingTeams, Exists
    <3>1. x \in Teams /\ manager[x] \in Users
      BY DEF ExistingTeams, Exists, TypeInv, TablesFine, ManagerColumn
    <3> QED BY <2>4, <3>1 DEF AloneInv, Managed
  <2> QED BY <2>1, <2>3, <2>5, AfterDone DEF AloneInv
<1>4. CASE removeMemberWrites(w) /\ w.op = "replaceManager"
  <2>1. updateManager(w.team, Owner) /\ Goes(w, [w EXCEPT !.op = "removeMember"]) /\ UNCHANGED rows
    BY <1>4 DEF removeMemberWrites
  <2>2. Placed' /\ Managed' /\ OneRowWithinLimits'
    BY <1>1, <1>2, <2>1, ManagedAlone DEF AloneInv
  <2>3. Went(w, "removeMember", w.team, w.left)
    BY <1>1, <2>1, WithOp DEF Ops
  <2>4. manager'[w.team] = w.user => w.user = Owner
    BY <1>1, <1>2, <2>1, ManagerUpdated, WorkspaceTeamsConstants DEF WorkspaceTeamsConstants
  <2>5. DoingOf("removeMember", w.team, w.user, w.left)'
    BY <2>4 DEF DoingOf
  <2> QED BY <2>2, <2>3, <2>5, AfterWent DEF AloneInv
<1>5. CASE removeMemberWrites(w) /\ w.op # "replaceManager"
  <2>1. deleteUserFromTeam(w.team, w.user) /\ Done(w) /\ UNCHANGED manager
    BY <1>5 DEF removeMemberWrites
  <2>2. manager[w.team] = w.user => w.user = Owner
    BY <1>1, <1>5 DEF removeMemberWrites, Doing, DoingOf
  <2>3. Placed' /\ Managed' /\ OneRowWithinLimits'
    BY <1>1, <1>2, <2>1, <2>2, DeletedAlone DEF AloneInv
  <2> QED BY <2>1, <2>3, AfterDone DEF AloneInv
<1>6. CASE setManager(w)
  <2>1. updateManager(w.team, w.user) /\ Done(w) /\ UNCHANGED rows
    BY <1>6 DEF setManager
  <2>2. rows[w.team][w.user] > 0 \/ w.user = Owner
    BY <1>1, <1>6 DEF setManager, Doing, DoingOf
  <2>3. Placed' /\ Managed' /\ OneRowWithinLimits'
    BY <1>1, <1>2, <2>1, <2>2, ManagedAlone DEF AloneInv
  <2> QED BY <2>1, <2>3, AfterDone DEF AloneInv
<1> QED BY <1>3, <1>4, <1>5, <1>6

LEMMA AcceptingAlone ==
    ASSUME TypeInv, TypeInv', AloneInv, NEW w \in inflight, acceptWorkspaceInviteInserts(w)
    PROVE  AloneInv'
<1> USE DEF Ops, SeatOps, LeaveOps
<1>1. RequestFine(w) /\ w \in Request /\ w.team \in Teams /\ w.user \in Users /\ Doing(w)
  BY RequestTypes DEF AloneInv, OneAtATime
<1>2. UNCHANGED <<manager, headless>>
  BY DEF acceptWorkspaceInviteInserts, Histories
<1>3. w.team = DefaultTeam /\ OutOf(w.user) /\ seat \in [Users -> SeatStates]
  BY <1>1 DEF acceptWorkspaceInviteInserts, Doing, DoingOf, TypeInv, TablesFine
<1>4. UNCHANGED rows => Managed' /\ OneRowWithinLimits' /\ OutOf(w.user)'
  BY <1>2, <1>3 DEF AloneInv, Managed, OneRowWithinLimits, OutOf, ExistingTeams, Exists, getTeamMembersCount
<1>5. CASE /\ w.op = "insertSeat" /\ seat' = [seat EXCEPT ![w.user] = "active"]
           /\ Goes(w, [w EXCEPT !.op = "insertDefault"]) /\ UNCHANGED rows
  <2>1. Went(w, "insertDefault", w.team, w.left)
    BY <1>1, <1>5, WithOp
  <2>2. findWorkspaceUser(w.user)' /\ \A v \in Users : seat'[v] = "none" => seat[v] = "none"
    BY <1>1, <1>3, <1>5 DEF findWorkspaceUser
  <2>3. DoingOf("insertDefault", w.team, w.user, w.left)'
    BY <1>3, <1>4, <1>5, <2>2 DEF DoingOf
  <2>4. Placed'
    BY <1>2, <1>5, <2>2 DEF AloneInv, Placed, OutOf
  <2> QED BY <1>4, <1>5, <2>1, <2>3, <2>4, AfterWent DEF AloneInv
<1>6. CASE /\ w.op = "insertDefault" /\ addUserToTeam(w.team, w.user)
           /\ Done(w) /\ UNCHANGED seat
  <2>1. findWorkspaceUser(w.user)
    BY <1>1, <1>6 DEF Doing, DoingOf
  <2>2. rows[w.team][w.user] = 0
    BY <1>1, <1>3 DEF OutOf, TypeInv, TablesFine
  <2>3. Placed' /\ OneRowWithinLimits'
    BY <1>1, <1>2, <1>3, <1>6, <2>1, <2>2, AddedAlone DEF AloneInv
  <2>4. \A x \in Teams, v \in Users : rows[x][v] > 0 => rows'[x][v] > 0
    BY <1>1, <1>6, <2>2, RowsAdded
  <2>5. Managed'
    <3> SUFFICES ASSUME NEW x \in ExistingTeams \ headless PROVE manager[x] = Owner \/ rows'[x][manager[x]] > 0
      BY <1>2 DEF Managed, ExistingTeams, Exists
    <3>1. x \in Teams /\ manager[x] \in Users
      BY DEF ExistingTeams, Exists, TypeInv, TablesFine, ManagerColumn
    <3> QED BY <2>4, <3>1 DEF AloneInv, Managed
  <2> QED BY <1>6, <2>3, <2>5, AfterDone DEF AloneInv
<1>7. CASE /\ w.op = "insertDefault" /\ seat' = [seat EXCEPT ![w.user] = "none"]
           /\ Goes(w, [w EXCEPT !.op = "removeMember"]) /\ UNCHANGED rows
  <2>1. Went(w, "removeMember", w.team, w.left)
    BY <1>1, <1>7, WithOp
  <2>2. manager[w.team] # w.user
    BY <1>1, <1>3 DEF OutOf
  <2>3. DoingOf("removeMember", w.team, w.user, w.left)'
    BY <1>2, <2>2 DEF DoingOf
  <2>4. \A v \in Users : seat'[v] = "none" => seat[v] = "none" \/ v = w.user
    BY <1>3, <1>7
  <2>5. Placed'
    BY <1>2, <1>3, <1>7, <2>4 DEF AloneInv, Placed, OutOf
  <2> QED BY <1>4, <1>7, <2>1, <2>3, <2>5, AfterWent DEF AloneInv
<1> QED BY <1>5, <1>6, <1>7 DEF acceptWorkspaceInviteInserts

LEMMA LeavingAlone ==
    ASSUME TypeInv, TypeInv', AloneInv, NEW w \in inflight, leavesTeams(w)
    PROVE  AloneInv'
<1> USE DEF Ops, SeatOps, LeaveOps
<1>1. RequestFine(w) /\ w \in Request /\ w.team \in Teams /\ w.user \in Users /\ Doing(w)
  BY RequestTypes DEF AloneInv, OneAtATime
<1>2. UNCHANGED headless /\ Owner \in Users /\ Nobody \notin Users
  BY WorkspaceTeamsConstants DEF WorkspaceTeamsConstants, leavesTeams, Histories
<1>3. w.user # Owner /\ w.left \subseteq Teams
  BY <1>1 DEF leavesTeams, RequestFine
<1>4. CASE w.op = "leaveManaged" /\ w.left # {}
  <2>1. PICK t \in w.left : updateManager(t, Owner) /\ Goes(w, [w EXCEPT !.op = "leaveManagedTeam", !.team = t])
    BY <1>4 DEF leavesTeams
  <2>2. UNCHANGED <<seat, rows>> /\ t \in Teams
    BY <1>3, <1>4 DEF leavesTeams
  <2>3. Placed' /\ Managed' /\ OneRowWithinLimits'
    BY <1>2, <2>1, <2>2, ManagedAlone DEF AloneInv
  <2>4. Went(w, "leaveManagedTeam", t, w.left)
    BY <1>1, <2>1, <2>2, WithTeam
  <2>5. getTeamsWhereUserIsManager(w.user) \subseteq w.left
    BY <1>1, <1>4 DEF Doing, DoingOf
  <2>6. /\ \A x \in Teams : x # t => manager'[x] = manager[x]
        /\ manager'[t] # w.user /\ (ExistingTeams)' = ExistingTeams
    BY <1>1, <1>2, <1>3, <2>1, <2>2, ManagerUpdated
  <2>7. getTeamsWhereUserIsManager(w.user)' \subseteq w.left \ {t}
    BY <2>5, <2>6 DEF getTeamsWhereUserIsManager, ExistingTeams
  <2>8. DoingOf("leaveManagedTeam", t, w.user, w.left)'
    BY <2>7 DEF DoingOf
  <2> QED BY <2>3, <2>4, <2>8, AfterWent DEF AloneInv
<1>5. CASE w.op = "leaveManagedTeam"
  <2>1. /\ deleteUserFromTeam(w.team, w.user)
        /\ Goes(w, [w EXCEPT !.op = "leaveManaged", !.left = @ \ {w.team}])
        /\ UNCHANGED <<seat, manager>>
    BY <1>5 DEF leavesTeams
  <2>2. Went(w, "leaveManaged", w.team, w.left \ {w.team})
    BY <1>1, <1>3, <2>1, WithLeft
  <2>3. getTeamsWhereUserIsManager(w.user) \subseteq w.left \ {w.team}
    BY <1>1, <1>5 DEF Doing, DoingOf
  <2>4. manager[w.team] # w.user
    BY <1>1, <1>2, <2>3 DEF getTeamsWhereUserIsManager, ExistingTeams, Exists
  <2>5. Placed' /\ Managed' /\ OneRowWithinLimits'
    BY <1>1, <1>2, <2>1, <2>4, DeletedAlone DEF AloneInv
  <2>6. DoingOf("leaveManaged", w.team, w.user, w.left \ {w.team})'
    BY <2>1, <2>3 DEF DoingOf, getTeamsWhereUserIsManager, ExistingTeams, Exists
  <2> QED BY <2>2, <2>5, <2>6, AfterWent DEF AloneInv
<1>6. CASE w.op = "leaveManaged" /\ w.left = {}
  <2>1. /\ Goes(w, [w EXCEPT !.op = "leaveTeams", !.left = getTeamsUserBelongsTo(w.user)])
        /\ UNCHANGED <<seat, manager, rows>>
    BY <1>6 DEF leavesTeams
  <2>2. getTeamsUserBelongsTo(w.user) \subseteq Teams
    BY DEF getTeamsUserBelongsTo, ExistingTeams
  <2>3. Went(w, "leaveTeams", w.team, getTeamsUserBelongsTo(w.user))
    BY <1>1, <2>1, <2>2, WithLeft
  <2>4. getTeamsWhereUserIsManager(w.user) = {}
    BY <1>1, <1>6 DEF Doing, DoingOf
  <2>5. PICK left : left = getTeamsUserBelongsTo(w.user)
    OBVIOUS
  <2>6. getTeamsUserBelongsTo(w.user)' = left /\ getTeamsWhereUserIsManager(w.user)' = {}
    BY <2>1, <2>4, <2>5 DEF getTeamsUserBelongsTo, getTeamsWhereUserIsManager, ExistingTeams, Exists
  <2>7. DoingOf("leaveTeams", w.team, w.user, left)'
    BY <2>6 DEF DoingOf
  <2>8. OneAtATime'
    BY <2>3, <2>5, <2>7, AfterWent DEF AloneInv
  <2>9. Placed' /\ Managed' /\ OneRowWithinLimits'
    BY <1>2, <2>1 DEF AloneInv, Placed, OutOf, Managed, OneRowWithinLimits, ExistingTeams, Exists, getTeamMembersCount
  <2> QED BY <2>8, <2>9 DEF AloneInv
<1>7. CASE w.op = "leaveTeams" /\ w.left # {}
  <2>1. PICK t \in w.left : deleteUserFromTeam(t, w.user) /\ Goes(w, [w EXCEPT !.left = @ \ {t}])
    BY <1>7 DEF leavesTeams
  <2>2. UNCHANGED <<seat, manager>> /\ t \in Teams
    BY <1>3, <1>7 DEF leavesTeams
  <2>3. [w EXCEPT !.left = @ \ {t}] = [w EXCEPT !.op = "leaveTeams", !.left = w.left \ {t}]
    BY <1>1, <1>7 DEF Request
  <2>4. Went(w, "leaveTeams", w.team, w.left \ {t})
    BY <1>1, <1>3, <2>1, <2>3, WithLeft
  <2>5. getTeamsWhereUserIsManager(w.user) = {} /\ getTeamsUserBelongsTo(w.user) \subseteq w.left
    BY <1>1, <1>7 DEF Doing, DoingOf
  <2>6. manager[t] # w.user
    BY <1>1, <1>2, <2>2, <2>5 DEF getTeamsWhereUserIsManager, ExistingTeams, Exists
  <2>7. Placed' /\ Managed' /\ OneRowWithinLimits'
    BY <1>1, <1>2, <2>1, <2>2, <2>6, DeletedAlone DEF AloneInv
  <2>8. /\ \A x \in Teams, v \in Users : x # t \/ v # w.user => rows'[x][v] = rows[x][v]
        /\ rows'[t][w.user] = 0
    BY <1>1, <2>1, <2>2, RowsDeleted
  <2>9. getTeamsUserBelongsTo(w.user)' \subseteq w.left \ {t} /\ getTeamsWhereUserIsManager(w.user)' = {}
    BY <1>1, <2>2, <2>5, <2>8 DEF getTeamsUserBelongsTo, getTeamsWhereUserIsManager, ExistingTeams, Exists
  <2>10. DoingOf("leaveTeams", w.team, w.user, w.left \ {t})'
    BY <2>9 DEF DoingOf
  <2> QED BY <2>4, <2>7, <2>10, AfterWent DEF AloneInv
<1>8. CASE w.op = "leaveTeams" /\ w.left = {}
  <2>1. seat' = [seat EXCEPT ![w.user] = "none"] /\ Done(w) /\ UNCHANGED <<manager, rows>>
    BY <1>8 DEF leavesTeams
  <2>2. getTeamsWhereUserIsManager(w.user) = {} /\ getTeamsUserBelongsTo(w.user) = {}
    BY <1>1, <1>8 DEF Doing, DoingOf
  <2>3. \A t \in Teams : ~ (rows[t][w.user] > 0) /\ manager[t] # w.user
    BY <1>1, <1>2, <2>2 DEF getTeamsWhereUserIsManager, getTeamsUserBelongsTo, ExistingTeams, Exists,
        TypeInv, TeamsKnown
  <2>4. \A v \in Users : seat'[v] = "none" => seat[v] = "none" \/ v = w.user
    BY <2>1 DEF TypeInv, TablesFine
  <2>5. Placed'
    BY <2>1, <2>3, <2>4 DEF AloneInv, Placed, OutOf
  <2>6. Managed' /\ OneRowWithinLimits'
    BY <1>2, <2>1 DEF AloneInv, Managed, OneRowWithinLimits, ExistingTeams, Exists, getTeamMembersCount
  <2> QED BY <2>1, <2>5, <2>6, AfterDone DEF AloneInv
<1> QED BY <1>4, <1>5, <1>6, <1>7, <1>8 DEF leavesTeams

LEMMA RequestStepAlone ==
    ASSUME TypeInv, TypeInv', AloneInv, NEW w \in inflight, RequestStep(w)
    PROVE  AloneInv'
<1>1. CASE shareItemInserts(w) \/ requestDies(w)
  <2>1. Done(w) /\ UNCHANGED <<seat, manager, rows, headless>>
    BY <1>1 DEF shareItemInserts, requestDies, Histories
  <2>2. Placed' /\ Managed' /\ OneRowWithinLimits'
    BY <2>1 DEF AloneInv, Placed, OutOf, Managed, OneRowWithinLimits, ExistingTeams, Exists, getTeamMembersCount
  <2> QED BY <2>1, <2>2, AfterDone DEF AloneInv
<1> QED BY <1>1, CreatingAlone, MovingAlone, AcceptingAlone, LeavingAlone DEF RequestStep

AloneHolds == alone => AloneInv

LEMMA AloneStep == TypeInv /\ TypeInv' /\ AloneHolds /\ [Next]_vars => AloneHolds'
<1> SUFFICES ASSUME TypeInv, TypeInv', AloneHolds, [Next]_vars, alone' PROVE AloneInv'
  BY DEF AloneHolds
<1>1. UNCHANGED alone
  BY DEF Next, vars
<1>2. alone /\ AloneInv
  BY <1>1 DEF AloneHolds
<1>3. CASE UNCHANGED vars
  <2>1. UNCHANGED <<seat, manager, rows, inflight, headless>>
    BY <1>3 DEF vars
  <2>2. Placed' /\ Managed' /\ OneRowWithinLimits'
    BY <1>2, <2>1 DEF AloneInv, Placed, OutOf, Managed, OneRowWithinLimits, ExistingTeams, Exists, getTeamMembersCount
  <2>3. ASSUME NEW w \in inflight PROVE Doing(w)'
    <3>1. PICK op, t, u, left : op = w.op /\ t = w.team /\ u = w.user /\ left = w.left
      OBVIOUS
    <3>2. DoingOf(op, t, u, left)
      BY <1>2, <3>1 DEF AloneInv, OneAtATime, Doing
    <3>3. DoingOf(op, t, u, left)'
      BY <2>1, <3>2 DEF DoingOf, OutOf, ExistingTeams, Exists, findWorkspaceUser, getTeamMembersCount,
          getTeamsWhereUserIsManager, getTeamsUserBelongsTo
    <3> QED BY <3>1, <3>3 DEF Doing
  <2>4. OneAtATime'
    BY <1>2, <2>1, <2>3 DEF AloneInv, OneAtATime
  <2> QED BY <2>2, <2>4 DEF AloneInv
<1>4. CASE Next
  <2>1. Beginning \/ Answered \/ \E w \in inflight : RequestStep(w)
    BY <1>4, StepKinds DEF Next
  <2> QED BY <1>2, <2>1, BeginningAlone, AnsweredAlone, RequestStepAlone
<1> QED BY <1>3, <1>4

LEMMA InitAlone == Init => AloneHolds
<1> SUFFICES ASSUME Init PROVE AloneInv
  BY DEF AloneHolds
<1> USE WorkspaceTeamsConstants DEF WorkspaceTeamsConstants
<1>1. TypeInv
  BY InitType
<1>2. OneAtATime
  BY DEF Init, OneAtATime
<1>3. \A t \in Teams, u \in Users : rows[t][u] = IF t = DefaultTeam /\ u = Owner THEN 1 ELSE 0
  BY DEF Init
<1>4. \A t \in Teams : manager[t] = IF t = DefaultTeam THEN Owner ELSE Nobody
  BY DEF Init
<1>5. \A u \in Users \ {Owner} : OutOf(u)
  BY <1>3, <1>4 DEF OutOf
<1>6. Placed
  BY <1>5 DEF Init, Placed
<1>7. ExistingTeams = {DefaultTeam}
  BY <1>4 DEF ExistingTeams, Exists
<1>8. Managed
  BY <1>4, <1>7 DEF Managed
<1>9. Cardinality(ExistingTeams) <= MaxTeams
  <2>1. Cardinality(ExistingTeams) = 1
    BY <1>7, FS_Singleton
  <2> QED BY <2>1
<1>10. ASSUME NEW t \in Teams \ {DefaultTeam} PROVE getTeamMembersCount(t) <= MaxMembers
  <2>1. getTeamMembersCount(t) < MaxMembers
    BY <1>1, <1>3, NoMembers
  <2>2. getTeamMembersCount(t) \in Nat
    BY MembersFinite, CountOfMembers
  <2> QED BY <2>1, <2>2
<1>11. OneRowWithinLimits
  BY <1>3, <1>9, <1>10 DEF OneRowWithinLimits
<1> QED BY <1>2, <1>6, <1>8, <1>11 DEF AloneInv

LEMMA AloneInvariant == Spec => [](TypeInv /\ AloneHolds)
<1>1. Init => TypeInv /\ AloneHolds
  BY InitType, InitAlone
<1>2. TypeInv /\ AloneHolds /\ [Next]_vars => TypeInv' /\ AloneHolds'
  BY TypeStep, AloneStep
<1> QED BY <1>1, <1>2, PTL DEF Spec

----------------------------------------------------------------------------
(* What follows for the tables and for those who read them.                *)

LEMMA NumbersDiffer ==
    ASSUME RequestsFine PROVE Cardinality({w.nr : w \in inflight}) = Cardinality(inflight)
<1>1. PICK f : f = [w \in inflight |-> w.nr]
  OBVIOUS
<1>2. f \in Bijection(inflight, {w.nr : w \in inflight})
  <2>1. f \in [inflight -> {w.nr : w \in inflight}]
    BY <1>1
  <2>2. \A v, w \in inflight : f[v] = f[w] => v = w
    BY <1>1 DEF RequestsFine
  <2>3. \A n \in {w.nr : w \in inflight} : \E w \in inflight : f[w] = n
    BY <1>1
  <2> QED BY <2>1, <2>2, <2>3 DEF Bijection, Injection, IsInjective, Surjection
<1>3. ExistsBijection(inflight, {w.nr : w \in inflight})
  BY <1>2 DEF ExistsBijection
<1> QED BY <1>3, FS_Bijection DEF RequestsFine

\* Whatever races or stops half way, tables keep their columns, requests are
\* told apart, and nobody is in a team that is gone.
THEOREM TypeCorrect == Spec => []TypeOK
<1>1. TypeInv => TypeOK
  <2> SUFFICES ASSUME TypeInv PROVE TypeOK
    OBVIOUS
  <2>1. seat \in [Users -> SeatStates] /\ manager \in [Teams -> ManagerColumn] /\ shared \in [Items -> [Teams -> Nat]]
    BY DEF TypeInv, TablesFine
  <2>2. rows \in [Teams -> [Users -> Nat]]
    BY WorkspaceTeamsConstants DEF WorkspaceTeamsConstants, TypeInv, TablesFine
  <2>3. \A t \in Teams, u \in Users : rows[t][u] > 0 => Exists(t)
    BY DEF TypeInv, TeamsKnown
  <2>4. gone \cap ExistingTeams = {} /\ headless \subseteq Teams
    BY DEF TypeInv, TablesFine, TeamsKnown
  <2>5. Cardinality({w.nr : w \in inflight}) = Cardinality(inflight)
    BY NumbersDiffer DEF TypeInv
  <2> QED BY <2>1, <2>2, <2>3, <2>4, <2>5 DEF TypeOK
<1> QED BY <1>1, TypeInvariant, PTL

LEMMA NeverLockedOut == ASSUME TypeInv PROVE OwnerNeverLockedOut /\ ReceiversListable
<1>1. seat[Owner] = "active"
  BY DEF TypeInv, OwnerSits
<1>2. OwnerNeverLockedOut
  BY <1>1 DEF OwnerNeverLockedOut, verifyWorkspaceAccessByRole, verifyTeamAccessByRole, findWorkspaceUser,
     isUserOwner, ExistingTeams
<1>3. ASSUME NEW i \in Items, getItemSharedWith(i).throws PROVE \E t \in gone : shared[i][t] > 0
  <2>1. ~ {t \in Teams : shared[i][t] > 0} \subseteq ExistingTeams
    BY <1>3 DEF getItemSharedWith
  <2>2. PICK t \in Teams : shared[i][t] > 0 /\ t \notin ExistingTeams
    BY <2>1
  <2> QED BY <2>2 DEF TypeInv, TeamsKnown, Known, ExistingTeams
<1> QED BY <1>2, <1>3 DEF ReceiversListable

LEMMA CoherentAlone ==
    ASSUME TypeInv, AloneInv
    PROVE  TeamPeopleHaveSeats /\ ManagerCanManage /\ OneRowWithinLimits /\ ListingsAgree
<1>1. /\ seat \in [Users -> SeatStates] /\ manager \in [Teams -> ManagerColumn]
      /\ Owner \in Users /\ Nobody \notin Users
  BY WorkspaceTeamsConstants DEF WorkspaceTeamsConstants, TypeInv, TablesFine
<1>2. TeamPeopleHaveSeats
  BY DEF TeamPeopleHaveSeats, AloneInv, Placed, OutOf, findWorkspaceUser, ExistingTeams
<1>3. ManagerCanManage
  BY DEF ManagerCanManage, AloneInv, Managed, getTeamUser
<1>4. ASSUME NEW u \in Users, u # Owner, headless = {}
      PROVE  getTeamsWhereUserIsManager(u) # {} <=> \E d \in getMemberDetails(u) : d.isManager
  <2>1. \A t \in getTeamsWhereUserIsManager(u) : rows[t][u] > 0
    BY <1>4 DEF getTeamsWhereUserIsManager, AloneInv, Managed, ExistingTeams
  <2>2. getTeamsWhereUserIsManager(u) # {} => \E t \in getTeamsUserBelongsTo(u) : manager[t] = u
    BY <2>1 DEF getTeamsWhereUserIsManager, getTeamsUserBelongsTo
  <2>3. (\E t \in getTeamsUserBelongsTo(u) : manager[t] = u) => getTeamsWhereUserIsManager(u) # {}
    BY DEF getTeamsWhereUserIsManager, getTeamsUserBelongsTo
  <2>4. (\E d \in getMemberDetails(u) : d.isManager) <=> \E t \in getTeamsUserBelongsTo(u) : manager[t] = u
    <3>1. ASSUME NEW d \in getMemberDetails(u), d.isManager PROVE \E t \in getTeamsUserBelongsTo(u) : manager[t] = u
      <4>1. PICK t \in getTeamsUserBelongsTo(u) : d = [team |-> t, isManager |-> manager[t] = u]
        BY DEF getMemberDetails
      <4>2. d.isManager <=> manager[t] = u
        BY <4>1
      <4> QED BY <3>1, <4>2
    <3>2. ASSUME NEW t \in getTeamsUserBelongsTo(u), manager[t] = u PROVE \E d \in getMemberDetails(u) : d.isManager
      <4>1. PICK d : d = [team |-> t, isManager |-> manager[t] = u]
        OBVIOUS
      <4>2. d \in getMemberDetails(u)
        BY <4>1 DEF getMemberDetails
      <4>3. d.isManager
        BY <3>2, <4>1
      <4> QED BY <4>2, <4>3
    <3> QED BY <3>1, <3>2
  <2> QED BY <2>2, <2>3, <2>4
<1>5. ASSUME NEW u \in Users, NEW t \in getWorkspaceTeams(u), seat[u] = "active"
      PROVE  verifyTeamAccessByRole(u, t, "MEMBER")
  BY <1>5 DEF getWorkspaceTeams, verifyTeamAccessByRole, getTeamsUserBelongsTo, ExistingTeams, getTeamUser, isUserOwner
<1>6. ASSUME NEW m \in getWorkspaceMembers
      PROVE  /\ ~ m.isOwner /\ headless = {} =>
                   (m.isManager <=> \E d \in getMemberDetails(m.user) : d.isManager)
             /\ \A t \in getWorkspaceTeams(m.user) :
                   seat[m.user] = "active" => verifyTeamAccessByRole(m.user, t, "MEMBER")
  <2>1. PICK u \in Users : m = [user |-> u, isOwner |-> isUserOwner(u),
                                isManager |-> getTeamsWhereUserIsManager(u) # {}]
    BY DEF getWorkspaceMembers
  <2>2. /\ m.user = u /\ (m.isOwner <=> u = Owner)
        /\ (m.isManager <=> getTeamsWhereUserIsManager(u) # {})
    BY <2>1 DEF isUserOwner
  <2> QED BY <1>4, <1>5, <2>2
<1>7. ListingsAgree
  BY <1>6 DEF ListingsAgree
<1> QED BY <1>2, <1>3, <1>7 DEF AloneInv

\* Whatever races or stops half way, the owner is never locked out and whom an
\* item is shared with can be shown until one of those teams is deleted; where
\* requests wait for each other, the people of teams have seats, somebody can
\* manage each team, limits are kept and both lists tell the same.
THEOREM TeamsAreCoherent == Spec => []TeamsCoherent
<1>1. TypeInv /\ AloneHolds => TeamsCoherent
  BY NeverLockedOut, CoherentAlone DEF TeamsCoherent, AloneHolds
<1> QED BY <1>1, AloneInvariant, PTL

----------------------------------------------------------------------------
(* Items of members.                                                       *)

Persons == Members \cup {Owner}

Kinds == {"folder", "file"}

Columns == [kind : Kinds, parent : Ids \cup {WorkspaceRoot}, status : {"free", "EXISTS", "TRASHED", "DELETED"}]

ItemOps == {"joinFolder", "joinSeat", "joinItem", "insertFile", "insertFolder", "insertItem",
            "leaveLooks", "leaveRows", "leaveSeat", "empty", "emptied"}

Counts == [folder : Nat, file : Nat]

ItemTask == [nr : Nat, op : ItemOps, user : Persons, id : Ids \cup {WorkspaceRoot}, kind : Kinds,
             page : Nat, counts : Counts, deleting : SUBSET Ids, reported : SUBSET Ids,
             before : SUBSET Ids]

NothingCounted == [folder |-> 0, file |-> 0]

\* What was reported and is not being deleted any more is deleted, and by the
\* time the request is answered nothing is being deleted.
Recorded(w) ==
    /\ \A i \in w.reported \ w.deleting : row[i].status = "DELETED"
    /\ w.op # "empty" => w.deleting = {}

ItemsFine ==
    /\ row \in [Ids -> Columns]
    /\ creator \in [Ids -> Persons \cup {NoOne}]
    /\ root \in [Persons -> Ids \cup {WorkspaceRoot}]
    /\ comeback \subseteq Persons
    /\ work \subseteq ItemTask
    /\ \A w \in work : Recorded(w)

OneByOne == part = "items alone"

Waits == OneByOne => work = {}

\* A new request.
Started(op, u, id, kind, counts, before) ==
    /\ Waits /\ UNCHANGED <<row, creator, root, comeback>>
    /\ \E v \in ItemTask :
          /\ v.op = op /\ v.user = u /\ v.id = id /\ v.kind = kind /\ v.page = 0 /\ v.counts = counts
          /\ v.deleting = {} /\ v.reported = {} /\ v.before = before
          /\ work' = work \cup {v}

\* The request goes on with this statement.
GoesOn(w, op, id) ==
    \E v \in ItemTask :
        /\ v.op = op /\ v.id = id
        /\ v.nr = w.nr /\ v.user = w.user /\ v.kind = w.kind /\ v.page = w.page /\ v.counts = w.counts
        /\ v.deleting = w.deleting /\ v.reported = w.reported /\ v.before = w.before
        /\ work' = (work \ {w}) \cup {v}

Ends(w) == work' = work \ {w}

TrashOf(u) == {i \in Ids : creator[i] = u /\ row[i].status = "TRASHED"}

OfKind(S, k) == {i \in S : row[i].kind = k}

\* The steps, those of one at a time and those that race alike.
Starts ==
    \/ \E u \in Members :
          /\ root[u] = WorkspaceRoot /\ (OneByOne => \A i \in Ids : creator[i] # u)
          /\ Started("joinFolder", u, WorkspaceRoot, "folder", NothingCounted, {})
    \/ \E u \in Members :
          /\ root[u] # WorkspaceRoot
          /\ Started("leaveLooks", u, root[u], "folder", NothingCounted, {})
    \/ \E u \in Persons, counts \in Counts, before \in SUBSET Ids :
          /\ OneByOne =>
                /\ before = TrashOf(u)
                /\ counts.folder = Cardinality(OfKind(before, "folder"))
                /\ counts.file = Cardinality(OfKind(before, "file"))
          /\ Started("empty", u, WorkspaceRoot, "folder", counts, before)
    \/ \E u \in Persons, p \in Ids, op \in {"insertFile", "insertFolder"}, k \in Kinds :
          /\ root[u] # WorkspaceRoot /\ row[p].kind = "folder" /\ creator[p] = u
          /\ Started(op, u, p, k, NothingCounted, {})

\* A member sets columns of an item of the own.
Sets ==
    \E u \in Persons, i \in Ids, r \in Columns :
        /\ root[u] # WorkspaceRoot /\ creator[i] = u
        /\ row[i].status \in {"EXISTS", "TRASHED"} /\ r.status # "free" /\ r.kind = row[i].kind
        /\ \/ r.parent = row[i].parent
           \/ r.parent \in Ids /\ row[r.parent].kind = "folder" /\ row[r.parent].status = "EXISTS"
        /\ Waits /\ row' = [row EXCEPT ![i] = r] /\ UNCHANGED <<creator, root, work, comeback>>

Inserts(w, k, p, op) ==
    \E i \in Ids, r \in Columns :
        /\ row[i].status = "free" /\ r.kind = k /\ r.parent = p /\ r.status = "EXISTS"
        /\ row' = [row EXCEPT ![i] = r] /\ GoesOn(w, op, i)

Joins(w) ==
    \/ /\ w.op = "joinFolder" /\ Inserts(w, "folder", WorkspaceRoot, "joinSeat")
       /\ UNCHANGED <<creator, root, comeback>>
    \/ /\ w.op = "joinSeat" /\ root' = [root EXCEPT ![w.user] = w.id]
       /\ comeback' \in {comeback, comeback \cup {w.user}}
       /\ (\A i \in Ids : creator[i] # w.user) => comeback' = comeback
       /\ GoesOn(w, "joinItem", w.id) /\ UNCHANGED <<row, creator>>
    \/ /\ w.op = "joinItem" /\ creator' = [creator EXCEPT ![w.id] = w.user] /\ Ends(w)
       /\ UNCHANGED <<row, root, comeback>>
    \/ /\ w.op = "joinItem" /\ root' = [root EXCEPT ![w.user] = WorkspaceRoot] /\ Ends(w)
       /\ UNCHANGED <<row, creator, comeback>>

Creates(w) ==
    \/ /\ w.op \in {"insertFile", "insertFolder"} /\ Inserts(w, w.kind, w.id, "insertItem")
       /\ UNCHANGED <<creator, root, comeback>>
    \/ /\ w.op = "insertItem" /\ creator' = [creator EXCEPT ![w.id] = w.user] /\ Ends(w)
       /\ UNCHANGED <<row, root, comeback>>

\* What is live in the root folder of the leaver.
Live(u, p) == {i \in Ids : creator[i] = u /\ row[i].status = "EXISTS" /\ row[i].parent = p}

Leaves(w) ==
    \/ /\ w.op = "leaveLooks" /\ (OneByOne => Live(w.user, w.id) = {})
       /\ GoesOn(w, "leaveSeat", w.id) /\ UNCHANGED <<row, creator, root, comeback>>
    \/ /\ w.op = "leaveLooks" /\ row[w.id].status \in {"EXISTS", "TRASHED"}
       /\ \E r \in Columns :
             /\ r.kind = "folder" /\ r.parent = OwnerRoot /\ r.status = "EXISTS"
             /\ row' = [row EXCEPT ![w.id] = r]
       /\ GoesOn(w, "leaveRows", w.id) /\ UNCHANGED <<creator, root, comeback>>
    \/ w.op = "leaveLooks" /\ Ends(w) /\ UNCHANGED <<row, creator, root, comeback>>
    \/ /\ w.op = "leaveRows"
       /\ creator' = [i \in DOMAIN creator |-> IF creator[i] = w.user THEN Owner ELSE creator[i]]
       /\ GoesOn(w, "leaveSeat", w.id) /\ UNCHANGED <<row, root, comeback>>
    \/ /\ w.op = "leaveSeat" /\ root' = [root EXCEPT ![w.user] = WorkspaceRoot]
       /\ Ends(w) /\ UNCHANGED <<row, creator, comeback>>

\* The first page is all there is, or a whole page.
Reads(w) ==
    /\ w.op = "empty"
    /\ \E items \in SUBSET Ids, v \in ItemTask :
          /\ OneByOne =>
                /\ items \subseteq OfKind(TrashOf(w.user), w.kind)
                /\ w.page = 0 => items = OfKind(TrashOf(w.user), w.kind) \/ Cardinality(items) >= Chunk
          /\ v.op = "empty" /\ v.id = w.id
          /\ v.nr = w.nr /\ v.user = w.user /\ v.kind = w.kind /\ v.page > 0 /\ v.counts = w.counts
          /\ v.deleting = w.deleting \cup items /\ v.reported = w.reported \cup items
          /\ v.before = w.before
          /\ work' = (work \ {w}) \cup {v}
    /\ UNCHANGED <<row, creator, root, comeback>>

Deletes(w) ==
    /\ w.op = "empty"
    /\ \E i \in w.deleting, r \in Columns, v \in ItemTask :
          /\ r.kind = row[i].kind /\ r.parent = row[i].parent /\ r.status = "DELETED"
          /\ row' = [row EXCEPT ![i] = r]
          /\ v.op = "empty" /\ v.id = w.id
          /\ v.nr = w.nr /\ v.user = w.user /\ v.kind = w.kind /\ v.page = w.page /\ v.counts = w.counts
          /\ v.deleting = w.deleting \ {i} /\ v.reported = w.reported /\ v.before = w.before
          /\ work' = (work \ {w}) \cup {v}
    /\ UNCHANGED <<creator, root, comeback>>

\* After the folders the files, after the files the answer.
Turns(w) ==
    /\ w.op = "empty" /\ w.deleting = {} /\ w.page >= w.counts[w.kind]
    /\ \E v \in ItemTask :
          /\ \/ w.kind = "folder" /\ v.op = "empty" /\ v.kind = "file" /\ v.page = 0
             \/ w.kind = "file" /\ v.op = "emptied" /\ v.kind = "file" /\ v.page = w.page
          /\ v.id = w.id /\ v.nr = w.nr /\ v.user = w.user /\ v.counts = w.counts
          /\ v.deleting = {} /\ v.reported = w.reported /\ v.before = w.before
          /\ work' = (work \ {w}) \cup {v}
    /\ UNCHANGED <<row, creator, root, comeback>>

Stops(w) ==
    (w.op = "emptied" \/ ~ OneByOne) /\ Ends(w) /\ UNCHANGED <<row, creator, root, comeback>>

ItemsStep ==
    \/ Starts \/ Sets
    \/ \E w \in work : Joins(w) \/ Creates(w) \/ Leaves(w) \/ Reads(w) \/ Deletes(w) \/ Turns(w) \/ Stops(w)

----------------------------------------------------------------------------
LEMMA ItemConstants ==
    /\ IsFiniteSet(Ids) /\ OwnerRoot \in RacingIds /\ RacingIds \subseteq Ids /\ WorkspaceRoot \notin Ids
    /\ Owner \notin Members /\ NoOne \notin Persons /\ Chunk \in Nat \ {0}
<1>1. AloneItems!IsFiniteSet(Ids) => IsFiniteSet(Ids)
  BY Zenon DEF IsFiniteSet, AloneItems!IsFiniteSet
<1> QED BY <1>1, WorkspaceItemsInstances
      DEF WorkspaceItemsInstances, AloneItems!WorkspaceItemsConstants,
          TogetherItems!WorkspaceItemsConstants, Persons

LEMMA SameCardinality == \A S : AloneItems!Cardinality(S) = Cardinality(S)
  BY Zenon DEF Cardinality, AloneItems!Cardinality

LEMMA SameMin == \A S : AloneItems!Min(S) = TogetherItems!Min(S)
  BY Zenon DEF AloneItems!Min, TogetherItems!Min

LEMMA FewOf ==
    ASSUME NEW a \in Nat, NEW b \in Nat
    PROVE  AloneItems!Min({a, b}) \in {a, b} /\ AloneItems!Min({a, b}) <= a /\ AloneItems!Min({a, b}) <= b
<1>1. \E x \in {a, b} : \A y \in {a, b} : x <= y
  <2>1. CASE a <= b
    BY <2>1
  <2>2. CASE b <= a
    BY <2>2
  <2> QED BY <2>1, <2>2
<1>2. PICK m : m = AloneItems!Min({a, b})
  OBVIOUS
<1>3. m = CHOOSE x \in {a, b} : \A y \in {a, b} : x <= y
  BY <1>2 DEF AloneItems!Min
<1>4. m \in {a, b} /\ \A y \in {a, b} : m <= y
  BY <1>1, <1>3
<1> QED BY <1>2, <1>4

LEMMA StartedByAlone ==
    ASSUME ItemsFine, OneByOne, NEW t \in ItemTask, t.deleting = {}, t.reported = {}, t.page = 0,
           AloneItems!Begin(t)
    PROVE  Started(t.op, t.user, t.id, t.kind, t.counts, t.before)
<1>1. PICK k \in Nat : work' = work \cup {[t EXCEPT !.nr = k]}
  BY DEF AloneItems!Begin
<1>2. PICK v : v = [t EXCEPT !.nr = k]
  OBVIOUS
<1>3. /\ v \in ItemTask /\ v.op = t.op /\ v.user = t.user /\ v.id = t.id /\ v.kind = t.kind
      /\ v.page = 0 /\ v.counts = t.counts /\ v.deleting = {} /\ v.reported = {} /\ v.before = t.before
  BY <1>2 DEF ItemTask
<1>4. Waits /\ UNCHANGED <<row, creator, root, comeback>>
  BY DEF AloneItems!Begin, AloneItems!Quiet, Waits, OneByOne
<1> QED BY <1>1, <1>2, <1>3, <1>4 DEF Started

LEMMA PlainAlone ==
    ASSUME ItemsFine, OneByOne, NEW op \in ItemOps, NEW u \in Persons, NEW id \in Ids \cup {WorkspaceRoot},
           NEW k \in Kinds, AloneItems!Begin([AloneItems!Task(op, u) EXCEPT !.id = id, !.kind = k])
    PROVE  Started(op, u, id, k, NothingCounted, {})
<1>1. PICK t : t = [AloneItems!Task(op, u) EXCEPT !.id = id, !.kind = k]
  OBVIOUS
<1>2. /\ t \in ItemTask /\ t.op = op /\ t.user = u /\ t.id = id /\ t.kind = k /\ t.page = 0
      /\ t.counts = NothingCounted /\ t.deleting = {} /\ t.reported = {} /\ t.before = {}
  BY <1>1 DEF AloneItems!Task, ItemTask, Counts, NothingCounted, Kinds
<1>3. AloneItems!Begin(t)
  BY <1>1
<1>4. Started(t.op, t.user, t.id, t.kind, t.counts, t.before)
  BY <1>2, <1>3, StartedByAlone
<1> QED BY <1>2, <1>4

LEMMA GoesOnAlone ==
    ASSUME ItemsFine, NEW w \in work, NEW op \in ItemOps, NEW id \in Ids \cup {WorkspaceRoot},
           AloneItems!Goes(w, [w EXCEPT !.op = op, !.id = id])
    PROVE  GoesOn(w, op, id)
<1>1. PICK v : v = [w EXCEPT !.op = op, !.id = id]
  OBVIOUS
<1>2. w \in ItemTask
  BY DEF ItemsFine
<1>3. /\ v \in ItemTask /\ v.op = op /\ v.id = id
      /\ v.nr = w.nr /\ v.user = w.user /\ v.kind = w.kind /\ v.page = w.page /\ v.counts = w.counts
      /\ v.deleting = w.deleting /\ v.reported = w.reported /\ v.before = w.before
  BY <1>1, <1>2 DEF ItemTask
<1>4. work' = (work \ {w}) \cup {v}
  BY <1>1 DEF AloneItems!Goes
<1> QED BY <1>3, <1>4 DEF GoesOn

LEMMA StaysAlone ==
    ASSUME ItemsFine, NEW w \in work, NEW op \in ItemOps, AloneItems!Goes(w, [w EXCEPT !.op = op])
    PROVE  GoesOn(w, op, w.id)
<1>1. w \in ItemTask
  BY DEF ItemsFine
<1>2. [w EXCEPT !.op = op] = [w EXCEPT !.op = op, !.id = w.id] /\ w.id \in Ids \cup {WorkspaceRoot}
  BY <1>1 DEF ItemTask
<1> QED BY <1>2, GoesOnAlone

LEMMA InsertsAlone ==
    ASSUME ItemsFine, NEW w \in work, NEW k \in Kinds, NEW p \in Ids \cup {WorkspaceRoot},
           NEW op \in ItemOps, AloneItems!Insert(w, [kind |-> k, parent |-> p, status |-> "EXISTS"], op)
    PROVE  Inserts(w, k, p, op)
<1>1. PICK i \in Ids :
          /\ row[i].status = "free"
          /\ row' = [row EXCEPT ![i] = [kind |-> k, parent |-> p, status |-> "EXISTS"]]
          /\ AloneItems!Goes(w, [w EXCEPT !.op = op, !.id = i])
  BY ItemConstants DEF AloneItems!Insert
<1>2. PICK r : r = [kind |-> k, parent |-> p, status |-> "EXISTS"]
  OBVIOUS
<1>3. r \in Columns /\ r.kind = k /\ r.parent = p /\ r.status = "EXISTS"
  BY <1>2 DEF Columns
<1>4. GoesOn(w, op, i)
  BY <1>1, GoesOnAlone
<1> QED BY <1>1, <1>2, <1>3, <1>4 DEF Inserts

LEMMA StartedByTogether ==
    ASSUME ItemsFine, ~ OneByOne, NEW t \in ItemTask, t.deleting = {}, t.reported = {}, t.page = 0,
           TogetherItems!Begin(t)
    PROVE  Started(t.op, t.user, t.id, t.kind, t.counts, t.before)
<1>1. PICK k \in Nat : work' = work \cup {[t EXCEPT !.nr = k]}
  BY DEF TogetherItems!Begin
<1>2. PICK v : v = [t EXCEPT !.nr = k]
  OBVIOUS
<1>3. /\ v \in ItemTask /\ v.op = t.op /\ v.user = t.user /\ v.id = t.id /\ v.kind = t.kind
      /\ v.page = 0 /\ v.counts = t.counts /\ v.deleting = {} /\ v.reported = {} /\ v.before = t.before
  BY <1>2 DEF ItemTask
<1>4. Waits /\ UNCHANGED <<row, creator, root, comeback>>
  BY DEF TogetherItems!Begin, TogetherItems!Quiet, Waits, OneByOne
<1> QED BY <1>1, <1>2, <1>3, <1>4 DEF Started

LEMMA PlainTogether ==
    ASSUME ItemsFine, ~ OneByOne, NEW op \in ItemOps, NEW u \in Persons, NEW id \in Ids \cup {WorkspaceRoot},
           NEW k \in Kinds, TogetherItems!Begin([TogetherItems!Task(op, u) EXCEPT !.id = id, !.kind = k])
    PROVE  Started(op, u, id, k, NothingCounted, {})
<1>1. PICK t : t = [TogetherItems!Task(op, u) EXCEPT !.id = id, !.kind = k]
  OBVIOUS
<1>2. /\ t \in ItemTask /\ t.op = op /\ t.user = u /\ t.id = id /\ t.kind = k /\ t.page = 0
      /\ t.counts = NothingCounted /\ t.deleting = {} /\ t.reported = {} /\ t.before = {}
  BY <1>1 DEF TogetherItems!Task, ItemTask, Counts, NothingCounted, Kinds
<1>3. TogetherItems!Begin(t)
  BY <1>1
<1>4. Started(t.op, t.user, t.id, t.kind, t.counts, t.before)
  BY <1>2, <1>3, StartedByTogether
<1> QED BY <1>2, <1>4

LEMMA GoesOnTogether ==
    ASSUME ItemsFine, NEW w \in work, NEW op \in ItemOps, NEW id \in Ids \cup {WorkspaceRoot},
           TogetherItems!Goes(w, [w EXCEPT !.op = op, !.id = id])
    PROVE  GoesOn(w, op, id)
<1>1. PICK v : v = [w EXCEPT !.op = op, !.id = id]
  OBVIOUS
<1>2. w \in ItemTask
  BY DEF ItemsFine
<1>3. /\ v \in ItemTask /\ v.op = op /\ v.id = id
      /\ v.nr = w.nr /\ v.user = w.user /\ v.kind = w.kind /\ v.page = w.page /\ v.counts = w.counts
      /\ v.deleting = w.deleting /\ v.reported = w.reported /\ v.before = w.before
  BY <1>1, <1>2 DEF ItemTask
<1>4. work' = (work \ {w}) \cup {v}
  BY <1>1 DEF TogetherItems!Goes
<1> QED BY <1>3, <1>4 DEF GoesOn

LEMMA StaysTogether ==
    ASSUME ItemsFine, NEW w \in work, NEW op \in ItemOps, TogetherItems!Goes(w, [w EXCEPT !.op = op])
    PROVE  GoesOn(w, op, w.id)
<1>1. w \in ItemTask
  BY DEF ItemsFine
<1>2. [w EXCEPT !.op = op] = [w EXCEPT !.op = op, !.id = w.id] /\ w.id \in Ids \cup {WorkspaceRoot}
  BY <1>1 DEF ItemTask
<1> QED BY <1>2, GoesOnTogether

LEMMA InsertsTogether ==
    ASSUME ItemsFine, NEW w \in work, NEW k \in Kinds, NEW p \in Ids \cup {WorkspaceRoot},
           NEW op \in ItemOps, TogetherItems!Insert(w, [kind |-> k, parent |-> p, status |-> "EXISTS"], op)
    PROVE  Inserts(w, k, p, op)
<1>1. PICK i \in Ids :
          /\ row[i].status = "free"
          /\ row' = [row EXCEPT ![i] = [kind |-> k, parent |-> p, status |-> "EXISTS"]]
          /\ TogetherItems!Goes(w, [w EXCEPT !.op = op, !.id = i])
  BY ItemConstants DEF TogetherItems!Insert
<1>2. PICK r : r = [kind |-> k, parent |-> p, status |-> "EXISTS"]
  OBVIOUS
<1>3. r \in Columns /\ r.kind = k /\ r.parent = p /\ r.status = "EXISTS"
  BY <1>2 DEF Columns
<1>4. GoesOn(w, op, i)
  BY <1>1, GoesOnTogether
<1> QED BY <1>1, <1>2, <1>3, <1>4 DEF Inserts

LEMMA JoinsShapeAlone ==
    ASSUME ItemsFine, OneByOne, NEW w \in work, AloneItems!acceptWorkspaceInviteWrites(w)
    PROVE  Joins(w)
<1> USE DEF AloneItems!acceptWorkspaceInviteWrites
<1>1. w \in ItemTask
  BY DEF ItemsFine
<1>2. CASE w.op = "joinFolder"
  <2>1. AloneItems!Insert(w, [kind |-> "folder", parent |-> WorkspaceRoot, status |-> "EXISTS"], "joinSeat")
    BY <1>2 DEF AloneItems!Folder
  <2>2. Inserts(w, "folder", WorkspaceRoot, "joinSeat")
    BY <2>1, InsertsAlone DEF Kinds, ItemOps
  <2> QED BY <1>2, <2>2 DEF Joins
<1>3. CASE w.op = "joinSeat"
  <2>1. AloneItems!Goes(w, [w EXCEPT !.op = "joinItem"])
    BY <1>3
  <2>2. GoesOn(w, "joinItem", w.id)
    BY <2>1, StaysAlone DEF ItemOps
  <2>3. /\ comeback' \in {comeback, comeback \cup {w.user}}
        /\ (\A i \in Ids : creator[i] # w.user) => comeback' = comeback
    BY <1>3, ItemConstants
  <2> QED BY <1>3, <2>2, <2>3 DEF Joins
<1>4. CASE w.op = "joinItem"
  BY <1>4 DEF Joins, Ends, AloneItems!createItem, AloneItems!Done
<1> QED BY <1>2, <1>3, <1>4

LEMMA CreatesShapeAlone ==
    ASSUME ItemsFine, OneByOne, NEW w \in work, AloneItems!createWrites(w)
    PROVE  Creates(w)
<1> USE DEF AloneItems!createWrites
<1>1. w \in ItemTask
  BY DEF ItemsFine
<1>2. CASE w.op \in {"insertFile", "insertFolder"}
  <2>1. AloneItems!Insert(w, [kind |-> w.kind, parent |-> w.id, status |-> "EXISTS"], "insertItem")
    BY <1>2
  <2>2. Inserts(w, w.kind, w.id, "insertItem")
    BY <1>1, <2>1, InsertsAlone DEF ItemTask, ItemOps
  <2> QED BY <1>2, <2>2 DEF Creates
<1>3. CASE w.op = "insertItem"
  BY <1>3 DEF Creates, Ends, AloneItems!createItem, AloneItems!Done
<1> QED BY <1>2, <1>3

LEMMA LeavesShapeAlone ==
    ASSUME ItemsFine, OneByOne, NEW w \in work,
           AloneItems!transferPersonalItemsToWorkspaceOwner(w) \/ AloneItems!leaveWorkspaceWrites(w)
    PROVE  Leaves(w)
<1>1. w \in ItemTask
  BY DEF ItemsFine
<1>2. CASE AloneItems!transferPersonalItemsToWorkspaceOwner(w)
  <2> DEFINE found == AloneItems!getFoldersInWorkspace(w.user, w.id) \cup AloneItems!getFilesInWorkspace(w.user, w.id)
  <2>1. w.op = "leaveLooks" /\ UNCHANGED <<creator, root, comeback>>
    BY <1>2 DEF AloneItems!transferPersonalItemsToWorkspaceOwner
  <2>2. CASE found = {} /\ AloneItems!Goes(w, [w EXCEPT !.op = "leaveSeat"]) /\ UNCHANGED row
    <3>1. GoesOn(w, "leaveSeat", w.id)
      BY <2>2, StaysAlone DEF ItemOps
    <3>2. OneByOne => Live(w.user, w.id) = {}
      <4>1. ASSUME NEW i \in Live(w.user, w.id) PROVE FALSE
        <5>1. i \in Ids /\ creator[i] = w.user /\ row[i].status = "EXISTS" /\ row[i].parent = w.id
          BY <4>1 DEF Live
        <5>2. row[i].kind \in {"folder", "file"}
          BY <5>1 DEF ItemsFine, Columns, Kinds
        <5>3. i \in found
          BY <5>1, <5>2 DEF AloneItems!getFoldersInWorkspace, AloneItems!getFilesInWorkspace, AloneItems!ItemsWhere
        <5> QED BY <2>2, <5>3
      <4> QED BY <4>1
    <3> QED BY <2>1, <2>2, <3>1, <3>2 DEF Leaves
  <2>3. CASE /\ found # {} /\ AloneItems!movable(w.id, OwnerRoot)
             /\ row' = [row EXCEPT ![w.id] = AloneItems!Folder(OwnerRoot)]
             /\ AloneItems!Goes(w, [w EXCEPT !.op = "leaveRows"])
    <3>1. GoesOn(w, "leaveRows", w.id)
      BY <2>3, StaysAlone DEF ItemOps
    <3>2. row[w.id].status \in {"EXISTS", "TRASHED"}
      BY <2>3 DEF AloneItems!movable
    <3>3. PICK r : r = AloneItems!Folder(OwnerRoot)
      OBVIOUS
    <3>4. r \in Columns /\ r.kind = "folder" /\ r.parent = OwnerRoot /\ r.status = "EXISTS"
      BY <3>3, ItemConstants DEF AloneItems!Folder, Columns, Kinds
    <3> QED BY <2>1, <2>3, <3>1, <3>2, <3>3, <3>4 DEF Leaves
  <2>4. CASE AloneItems!Done(w) /\ UNCHANGED row
    BY <2>1, <2>4 DEF Leaves, Ends, AloneItems!Done
  <2> QED BY <1>2, <2>2, <2>3, <2>4 DEF AloneItems!transferPersonalItemsToWorkspaceOwner
<1>3. CASE AloneItems!leaveWorkspaceWrites(w)
  <2>1. CASE w.op = "leaveRows"
    <3>1. AloneItems!Goes(w, [w EXCEPT !.op = "leaveSeat"])
      BY <1>3, <2>1 DEF AloneItems!leaveWorkspaceWrites
    <3>2. GoesOn(w, "leaveSeat", w.id)
      BY <3>1, StaysAlone DEF ItemOps
    <3> QED BY <1>3, <2>1, <3>2 DEF Leaves, AloneItems!leaveWorkspaceWrites
  <2>2. CASE w.op = "leaveSeat"
    BY <1>3, <2>2 DEF Leaves, Ends, AloneItems!leaveWorkspaceWrites, AloneItems!Done
  <2> QED BY <1>3, <2>1, <2>2 DEF AloneItems!leaveWorkspaceWrites
<1> QED BY <1>2, <1>3

LEMMA ReadsShapeAlone ==
    ASSUME ItemsFine, OneByOne, NEW w \in work, AloneItems!emptyTrashItems(w)
    PROVE  Reads(w)
<1> DEFINE found == AloneItems!ItemsWhere(w.user, w.kind, "TRASHED")
           size  == IF AloneItems!Cardinality(found) <= w.page THEN 0
                    ELSE AloneItems!Min({Chunk, AloneItems!Cardinality(found) - w.page})
<1>1. w \in ItemTask /\ w.op = "empty" /\ w.page \in Nat
  BY DEF ItemsFine, ItemTask, AloneItems!emptyTrashItems
<1>2. PICK items \in SUBSET found :
          /\ AloneItems!Cardinality(items) = size
          /\ AloneItems!Goes(w, [w EXCEPT !.page = @ + Chunk, !.deleting = @ \cup items, !.reported = @ \cup items])
  BY DEF AloneItems!emptyTrashItems, AloneItems!kSubset
<1>3. items \subseteq Ids
  BY ItemConstants DEF AloneItems!ItemsWhere
<1>4. PICK v : v = [w EXCEPT !.page = @ + Chunk, !.deleting = @ \cup items, !.reported = @ \cup items]
  OBVIOUS
<1>5. /\ v \in ItemTask /\ v.op = "empty" /\ v.id = w.id
      /\ v.nr = w.nr /\ v.user = w.user /\ v.kind = w.kind /\ v.page > 0 /\ v.counts = w.counts
      /\ v.deleting = w.deleting \cup items /\ v.reported = w.reported \cup items
      /\ v.before = w.before
  <2>1. w.page + Chunk \in Nat /\ w.page + Chunk > 0
    BY <1>1, ItemConstants
  <2>2. w.deleting \cup items \in SUBSET Ids /\ w.reported \cup items \in SUBSET Ids
    BY <1>1, <1>3 DEF ItemTask
  <2> QED BY <1>1, <1>4, <2>1, <2>2 DEF ItemTask
<1>6. work' = (work \ {w}) \cup {v} /\ UNCHANGED <<row, creator, root, comeback>>
  BY <1>2, <1>4 DEF AloneItems!Goes, AloneItems!emptyTrashItems
<1>7. /\ items \subseteq OfKind(TrashOf(w.user), w.kind)
      /\ w.page = 0 => items = OfKind(TrashOf(w.user), w.kind) \/ Cardinality(items) >= Chunk
  <2>1. found = OfKind(TrashOf(w.user), w.kind)
    BY DEF AloneItems!ItemsWhere, OfKind, TrashOf
  <2>2. IsFiniteSet(found)
    BY ItemConstants, FS_Subset DEF AloneItems!ItemsWhere
  <2>3. PICK n \in Nat : n = Cardinality(found)
    BY <2>2, FS_CardinalityType
  <2>4. Cardinality(items) = size /\ AloneItems!Cardinality(found) = n
    BY <1>2, <2>3, SameCardinality
  <2>5. ASSUME w.page = 0 PROVE items = found \/ Cardinality(items) >= Chunk
    <3>1. CASE n = 0
      <4>1. found = {}
        BY <2>2, <2>3, <3>1, FS_EmptySet
      <4> QED BY <1>2, <4>1
    <3>2. CASE n # 0
      <4>1. n - 0 = n /\ ~ (n <= 0)
        BY <3>2
      <4>2. size = AloneItems!Min({Chunk, n})
        BY <2>4, <2>5, <4>1
      <4>3. size \in {Chunk, n}
        BY <4>2, FewOf, ItemConstants
      <4>4. CASE size = Chunk
        BY <2>4, <4>4, ItemConstants
      <4>5. CASE size = n
        BY <1>2, <2>2, <2>3, <2>4, <4>5, FS_Subset
      <4> QED BY <4>3, <4>4, <4>5
    <3> QED BY <3>1, <3>2
  <2> QED BY <1>2, <2>1, <2>5
<1> QED BY <1>1, <1>3, <1>5, <1>6, <1>7 DEF Reads

LEMMA DeletesShapeAlone ==
    ASSUME ItemsFine, OneByOne, NEW w \in work, AloneItems!emptyTrashDeletes(w)
    PROVE  Deletes(w) \/ Turns(w)
<1>1. w \in ItemTask /\ w.op = "empty" /\ UNCHANGED <<creator, root, comeback>>
  BY DEF ItemsFine, AloneItems!emptyTrashDeletes
<1>2. CASE \E i \in w.deleting : /\ row' = [row EXCEPT ![i].status = "DELETED"]
                                 /\ AloneItems!Goes(w, [w EXCEPT !.deleting = @ \ {i}])
  <2>1. PICK i \in w.deleting : /\ row' = [row EXCEPT ![i].status = "DELETED"]
                                /\ AloneItems!Goes(w, [w EXCEPT !.deleting = @ \ {i}])
    BY <1>2
  <2>2. PICK r : r = [row[i] EXCEPT !.status = "DELETED"]
    OBVIOUS
  <2>3. row[i] \in Columns
    BY <1>1 DEF ItemsFine, ItemTask
  <2>4. /\ r \in Columns /\ r.kind = row[i].kind /\ r.parent = row[i].parent /\ r.status = "DELETED"
        /\ row' = [row EXCEPT ![i] = r]
    BY <2>1, <2>2, <2>3 DEF Columns
  <2>5. PICK v : v = [w EXCEPT !.deleting = @ \ {i}]
    OBVIOUS
  <2>6. /\ v \in ItemTask /\ v.op = "empty" /\ v.id = w.id
        /\ v.nr = w.nr /\ v.user = w.user /\ v.kind = w.kind /\ v.page = w.page /\ v.counts = w.counts
        /\ v.deleting = w.deleting \ {i} /\ v.reported = w.reported /\ v.before = w.before
    BY <1>1, <2>5 DEF ItemTask
  <2>7. work' = (work \ {w}) \cup {v}
    BY <2>1, <2>5 DEF AloneItems!Goes
  <2> QED BY <1>1, <2>4, <2>6, <2>7 DEF Deletes
<1>3. CASE /\ w.page >= w.counts[w.kind] /\ w.deleting = {} /\ UNCHANGED row
           /\ AloneItems!Goes(w, IF w.kind = "folder" THEN [w EXCEPT !.kind = "file", !.page = 0]
                                              ELSE [w EXCEPT !.op = "emptied"])
  <2>1. PICK v : v = IF w.kind = "folder" THEN [w EXCEPT !.kind = "file", !.page = 0]
                                          ELSE [w EXCEPT !.op = "emptied"]
    OBVIOUS
  <2>2. work' = (work \ {w}) \cup {v}
    BY <1>3, <2>1 DEF AloneItems!Goes
  <2>3. w.kind \in Kinds
    BY <1>1 DEF ItemTask
  <2>4. /\ v \in ItemTask
        /\ \/ w.kind = "folder" /\ v.op = "empty" /\ v.kind = "file" /\ v.page = 0
           \/ w.kind = "file" /\ v.op = "emptied" /\ v.kind = "file" /\ v.page = w.page
        /\ v.id = w.id /\ v.nr = w.nr /\ v.user = w.user /\ v.counts = w.counts
        /\ v.deleting = {} /\ v.reported = w.reported /\ v.before = w.before
    <3>1. CASE w.kind = "folder"
      BY <1>1, <1>3, <2>1, <3>1 DEF ItemTask, Kinds
    <3>2. CASE w.kind = "file"
      BY <1>1, <1>3, <2>1, <3>2 DEF ItemTask, Kinds, ItemOps
    <3> QED BY <2>3, <3>1, <3>2 DEF Kinds
  <2> QED BY <1>1, <1>3, <2>2, <2>4 DEF Turns
<1> QED BY <1>2, <1>3 DEF AloneItems!emptyTrashDeletes

LEMMA SetsShapeAlone ==
    ASSUME ItemsFine, OneByOne, NEW u \in Persons, NEW i \in Ids,
           \/ AloneItems!moveItemsToTrash(u, i) \/ AloneItems!deleteItemsPermanently(u, i)
           \/ \E to \in Ids : AloneItems!moveItem(u, i, to)
    PROVE  Sets
<1>1. root[u] # WorkspaceRoot /\ creator[i] = u
  BY DEF AloneItems!moveItemsToTrash, AloneItems!deleteItemsPermanently, AloneItems!moveItem, AloneItems!canActivate, AloneItems!HasSeat,
         AloneItems!isUserCreatorOfItem
<1>2. i \in Ids /\ row[i] \in Columns
  BY ItemConstants DEF ItemsFine
<1> DEFINE Fits(r) == /\ row[i].status \in {"EXISTS", "TRASHED"} /\ r.status # "free" /\ r.kind = row[i].kind
                      /\ \/ r.parent = row[i].parent
                         \/ r.parent \in Ids /\ row[r.parent].kind = "folder" /\ row[r.parent].status = "EXISTS"
                      /\ AloneItems!SetRow(i, r)
<1>3. \E r \in Columns : Fits(r)
  <2>1. CASE AloneItems!moveItemsToTrash(u, i)
    <3>1. PICK r : r = [row[i] EXCEPT !.status = "TRASHED"]
      OBVIOUS
    <3>2. r \in Columns /\ r.status = "TRASHED" /\ r.kind = row[i].kind /\ r.parent = row[i].parent
      BY <1>2, <3>1 DEF Columns
    <3> QED BY <2>1, <3>1, <3>2 DEF AloneItems!moveItemsToTrash
  <2>2. CASE AloneItems!deleteItemsPermanently(u, i)
    <3>1. PICK r : r = [row[i] EXCEPT !.status = "DELETED"]
      OBVIOUS
    <3>2. r \in Columns /\ r.status = "DELETED" /\ r.kind = row[i].kind /\ r.parent = row[i].parent
      BY <1>2, <3>1 DEF Columns
    <3> QED BY <2>2, <3>1, <3>2 DEF AloneItems!deleteItemsPermanently
  <2>3. ASSUME NEW to \in Ids, AloneItems!moveItem(u, i, to) PROVE \E r \in Columns : Fits(r)
    <3>1. PICK r : r = [row[i] EXCEPT !.parent = to, !.status = "EXISTS"]
      OBVIOUS
    <3>2. r \in Columns /\ r.status = "EXISTS" /\ r.kind = row[i].kind /\ r.parent = to /\ to \in Ids
      BY <1>2, <3>1, ItemConstants DEF Columns
    <3>3. AloneItems!movable(i, to) /\ AloneItems!SetRow(i, r)
      BY <2>3, <3>1 DEF AloneItems!moveItem
    <3> QED BY <3>2, <3>3 DEF AloneItems!movable
  <2> QED BY <2>1, <2>2, <2>3
<1>4. \A r : AloneItems!SetRow(i, r) => Waits /\ row' = [row EXCEPT ![i] = r] /\ UNCHANGED <<creator, root, work, comeback>>
  BY DEF AloneItems!SetRow, AloneItems!Quiet, Waits, OneByOne
<1> QED BY <1>1, <1>2, <1>3, <1>4 DEF Sets

LEMMA StartsShapeAlone ==
    ASSUME ItemsFine, OneByOne, NEW u \in Persons,
           \/ u \in Members /\ AloneItems!acceptWorkspaceInvite(u)
           \/ u \in Members /\ AloneItems!HasSeat(u) /\ AloneItems!leaveWorkspace(u)
           \/ AloneItems!emptyTrash(u)
           \/ \E i \in Ids : AloneItems!createFileRequest(u, i) \/ AloneItems!createFolderRequest(u, i)
    PROVE  Starts
<1> USE DEF AloneItems!HasSeat
<1>1. CASE u \in Members /\ AloneItems!acceptWorkspaceInvite(u)
  <2>1. PICK t : t = AloneItems!Task("joinFolder", u)
    OBVIOUS
  <2>2. /\ t \in ItemTask /\ t.op = "joinFolder" /\ t.user = u /\ t.id = WorkspaceRoot /\ t.kind = "folder"
        /\ t.page = 0 /\ t.counts = NothingCounted /\ t.deleting = {} /\ t.reported = {} /\ t.before = {}
    BY <2>1 DEF AloneItems!Task, ItemTask, Counts, NothingCounted, Kinds, ItemOps
  <2>3. AloneItems!Begin(t)
    BY <1>1, <2>1 DEF AloneItems!acceptWorkspaceInvite
  <2>4. Started("joinFolder", u, WorkspaceRoot, "folder", NothingCounted, {})
    BY <2>2, <2>3, StartedByAlone
  <2>5. root[u] = WorkspaceRoot /\ (OneByOne => \A i \in Ids : creator[i] # u)
    BY <1>1 DEF AloneItems!acceptWorkspaceInvite
  <2> QED BY <1>1, <2>4, <2>5 DEF Starts
<1>2. CASE u \in Members /\ AloneItems!HasSeat(u) /\ AloneItems!leaveWorkspace(u)
  <2>1. PICK t : t = [AloneItems!Task("leaveLooks", u) EXCEPT !.id = root[u]]
    OBVIOUS
  <2>2. root[u] \in Ids \cup {WorkspaceRoot}
    BY DEF ItemsFine
  <2>3. /\ t \in ItemTask /\ t.op = "leaveLooks" /\ t.user = u /\ t.id = root[u] /\ t.kind = "folder"
        /\ t.page = 0 /\ t.counts = NothingCounted /\ t.deleting = {} /\ t.reported = {} /\ t.before = {}
    BY <2>1, <2>2 DEF AloneItems!Task, ItemTask, Counts, NothingCounted, Kinds, ItemOps
  <2>4. AloneItems!Begin(t)
    BY <1>2, <2>1 DEF AloneItems!leaveWorkspace
  <2>5. Started("leaveLooks", u, root[u], "folder", NothingCounted, {})
    BY <2>3, <2>4, StartedByAlone
  <2> QED BY <1>2, <2>5 DEF Starts
<1>3. CASE AloneItems!emptyTrash(u)
  <2> DEFINE folders == AloneItems!ItemsWhere(u, "folder", "TRASHED")
             files   == AloneItems!ItemsWhere(u, "file", "TRASHED")
  <2>1. PICK counts : counts = [folder |-> AloneItems!Cardinality(folders), file |-> AloneItems!Cardinality(files)]
    OBVIOUS
  <2>2. PICK before : before = folders \cup files
    OBVIOUS
  <2>3. before \subseteq Ids /\ folders \subseteq Ids /\ files \subseteq Ids
    BY <2>2, ItemConstants DEF AloneItems!ItemsWhere
  <2>4. AloneItems!Cardinality(folders) = Cardinality(folders) /\ AloneItems!Cardinality(files) = Cardinality(files)
    BY Zenon DEF AloneItems!Cardinality, Cardinality
  <2>5. IsFiniteSet(folders) /\ IsFiniteSet(files)
    BY <2>3, ItemConstants, FS_Subset
  <2>6. Cardinality(folders) \in Nat /\ Cardinality(files) \in Nat
    BY <2>5, FS_CardinalityType
  <2>7. counts \in Counts /\ counts.folder = Cardinality(folders) /\ counts.file = Cardinality(files)
    BY <2>1, <2>4, <2>6 DEF Counts
  <2>8. PICK t : t = [AloneItems!Task("empty", u) EXCEPT !.counts = counts, !.before = before]
    OBVIOUS
  <2>9. /\ t \in ItemTask /\ t.op = "empty" /\ t.user = u /\ t.id = WorkspaceRoot /\ t.kind = "folder"
        /\ t.page = 0 /\ t.counts = counts /\ t.deleting = {} /\ t.reported = {} /\ t.before = before
    BY <2>3, <2>7, <2>8 DEF AloneItems!Task, ItemTask, Kinds, ItemOps
  <2>10. AloneItems!Begin(t)
    BY <1>3, <2>1, <2>2, <2>8 DEF AloneItems!emptyTrash, AloneItems!emptyUserTrashedItems, AloneItems!getWorkspaceUserTrashedItems
  <2>11. Started("empty", u, WorkspaceRoot, "folder", counts, before)
    BY <2>9, <2>10, StartedByAlone
  <2>12. OneByOne => /\ before = TrashOf(u)
                       /\ counts.folder = Cardinality(OfKind(before, "folder"))
                       /\ counts.file = Cardinality(OfKind(before, "file"))
    <3>1. before = TrashOf(u)
      <4>1. \A i \in Ids : row[i].kind \in {"folder", "file"}
        BY DEF ItemsFine, Columns, Kinds
      <4> QED BY <2>2, <4>1 DEF TrashOf, AloneItems!ItemsWhere
    <3>2. OfKind(before, "folder") = folders /\ OfKind(before, "file") = files
      BY <2>2 DEF OfKind, AloneItems!ItemsWhere
    <3> QED BY <2>7, <3>1, <3>2
  <2> QED BY <2>3, <2>7, <2>11, <2>12 DEF Starts
<1>4. ASSUME NEW i \in Ids, AloneItems!createFileRequest(u, i) \/ AloneItems!createFolderRequest(u, i)
      PROVE  Starts
  <2>1. i \in Ids
    BY ItemConstants
  <2>2. root[u] # WorkspaceRoot /\ row[i].kind = "folder" /\ creator[i] = u
    BY <1>4 DEF AloneItems!createFileRequest, AloneItems!createFolderRequest, AloneItems!createFile, AloneItems!createFolder,
                AloneItems!isUserCreatorOfItem
  <2>3. CASE AloneItems!createFileRequest(u, i)
    <3>1. AloneItems!Begin([AloneItems!Task("insertFile", u) EXCEPT !.id = i, !.kind = "file"])
      BY <2>3 DEF AloneItems!createFileRequest, AloneItems!createFile
    <3>2. Started("insertFile", u, i, "file", NothingCounted, {})
      BY <2>1, <3>1, PlainAlone DEF Kinds, ItemOps
    <3> QED BY <2>1, <2>2, <3>2 DEF Starts, Kinds
  <2>4. CASE AloneItems!createFolderRequest(u, i)
    <3>1. PICK t : t = [AloneItems!Task("insertFolder", u) EXCEPT !.id = i]
      OBVIOUS
    <3>2. /\ t \in ItemTask /\ t.op = "insertFolder" /\ t.user = u /\ t.id = i /\ t.kind = "folder"
          /\ t.page = 0 /\ t.counts = NothingCounted /\ t.deleting = {} /\ t.reported = {} /\ t.before = {}
      BY <2>1, <3>1 DEF AloneItems!Task, ItemTask, Counts, NothingCounted, Kinds, ItemOps
    <3>3. AloneItems!Begin(t)
      BY <2>4, <3>1 DEF AloneItems!createFolderRequest, AloneItems!createFolder
    <3>4. Started("insertFolder", u, i, "folder", NothingCounted, {})
      BY <3>2, <3>3, StartedByAlone
    <3> QED BY <2>1, <2>2, <3>4 DEF Starts, Kinds
  <2> QED BY <1>4, <2>3, <2>4
<1> QED BY <1>1, <1>2, <1>3, <1>4

LEMMA StepShapeAlone ==
    ASSUME ItemsFine, OneByOne, AloneItems!Next
    PROVE  ItemsStep
<1>1. ASSUME NEW u \in Members, AloneItems!acceptWorkspaceInvite(u) \/ (AloneItems!HasSeat(u) /\ AloneItems!leaveWorkspace(u))
      PROVE  ItemsStep
  BY <1>1, StartsShapeAlone DEF ItemsStep, Persons
<1>2. ASSUME NEW u \in Members, AloneItems!emptyTrash(u)
      PROVE  ItemsStep
  BY <1>2, StartsShapeAlone DEF ItemsStep, Persons
<1>3. ASSUME NEW u \in Members, NEW i \in Ids,
             AloneItems!createFileRequest(u, i) \/ AloneItems!createFolderRequest(u, i)
      PROVE  ItemsStep
  BY <1>3, StartsShapeAlone DEF ItemsStep, Persons
<1>4. ASSUME NEW u \in Members, NEW i \in Ids,
             \/ AloneItems!moveItemsToTrash(u, i) \/ AloneItems!deleteItemsPermanently(u, i)
             \/ \E to \in Ids : AloneItems!moveItem(u, i, to)
      PROVE  ItemsStep
  BY <1>4, SetsShapeAlone DEF ItemsStep, Persons
<1>5. ASSUME NEW w \in work, AloneItems!acceptWorkspaceInviteWrites(w)
      PROVE  ItemsStep
  BY <1>5, JoinsShapeAlone DEF ItemsStep
<1>6. ASSUME NEW w \in work, AloneItems!createWrites(w)
      PROVE  ItemsStep
  BY <1>6, CreatesShapeAlone DEF ItemsStep
<1>7. ASSUME NEW w \in work, AloneItems!transferPersonalItemsToWorkspaceOwner(w) \/ AloneItems!leaveWorkspaceWrites(w)
      PROVE  ItemsStep
  BY <1>7, LeavesShapeAlone DEF ItemsStep
<1>8. ASSUME NEW w \in work, AloneItems!emptyTrashItems(w) \/ AloneItems!emptyTrashDeletes(w)
      PROVE  ItemsStep
  BY <1>8, ReadsShapeAlone, DeletesShapeAlone DEF ItemsStep
<1>9. ASSUME NEW w \in work, AloneItems!emptyTrashReturns(w) \/ AloneItems!requestDies(w)
      PROVE  ItemsStep
  BY <1>9 DEF ItemsStep, Stops, Ends, AloneItems!emptyTrashReturns, AloneItems!requestDies, AloneItems!Done
<1> QED BY <1>1, <1>2, <1>3, <1>4, <1>5, <1>6, <1>7, <1>8, <1>9 DEF AloneItems!Next

LEMMA JoinsShapeTogether ==
    ASSUME ItemsFine, ~ OneByOne, NEW w \in work, TogetherItems!acceptWorkspaceInviteWrites(w)
    PROVE  Joins(w)
<1> USE DEF TogetherItems!acceptWorkspaceInviteWrites
<1>1. w \in ItemTask
  BY DEF ItemsFine
<1>2. CASE w.op = "joinFolder"
  <2>1. TogetherItems!Insert(w, [kind |-> "folder", parent |-> WorkspaceRoot, status |-> "EXISTS"], "joinSeat")
    BY <1>2 DEF TogetherItems!Folder
  <2>2. Inserts(w, "folder", WorkspaceRoot, "joinSeat")
    BY <2>1, InsertsTogether DEF Kinds, ItemOps
  <2> QED BY <1>2, <2>2 DEF Joins
<1>3. CASE w.op = "joinSeat"
  <2>1. TogetherItems!Goes(w, [w EXCEPT !.op = "joinItem"])
    BY <1>3
  <2>2. GoesOn(w, "joinItem", w.id)
    BY <2>1, StaysTogether DEF ItemOps
  <2>3. /\ comeback' \in {comeback, comeback \cup {w.user}}
        /\ (\A i \in Ids : creator[i] # w.user) => comeback' = comeback
    BY <1>3, ItemConstants
  <2> QED BY <1>3, <2>2, <2>3 DEF Joins
<1>4. CASE w.op = "joinItem"
  BY <1>4 DEF Joins, Ends, TogetherItems!createItem, TogetherItems!Done
<1> QED BY <1>2, <1>3, <1>4

LEMMA CreatesShapeTogether ==
    ASSUME ItemsFine, ~ OneByOne, NEW w \in work, TogetherItems!createWrites(w)
    PROVE  Creates(w)
<1> USE DEF TogetherItems!createWrites
<1>1. w \in ItemTask
  BY DEF ItemsFine
<1>2. CASE w.op \in {"insertFile", "insertFolder"}
  <2>1. TogetherItems!Insert(w, [kind |-> w.kind, parent |-> w.id, status |-> "EXISTS"], "insertItem")
    BY <1>2
  <2>2. Inserts(w, w.kind, w.id, "insertItem")
    BY <1>1, <2>1, InsertsTogether DEF ItemTask, ItemOps
  <2> QED BY <1>2, <2>2 DEF Creates
<1>3. CASE w.op = "insertItem"
  BY <1>3 DEF Creates, Ends, TogetherItems!createItem, TogetherItems!Done
<1> QED BY <1>2, <1>3

LEMMA LeavesShapeTogether ==
    ASSUME ItemsFine, ~ OneByOne, NEW w \in work,
           TogetherItems!transferPersonalItemsToWorkspaceOwner(w) \/ TogetherItems!leaveWorkspaceWrites(w)
    PROVE  Leaves(w)
<1>1. w \in ItemTask
  BY DEF ItemsFine
<1>2. CASE TogetherItems!transferPersonalItemsToWorkspaceOwner(w)
  <2> DEFINE found == TogetherItems!getFoldersInWorkspace(w.user, w.id) \cup TogetherItems!getFilesInWorkspace(w.user, w.id)
  <2>1. w.op = "leaveLooks" /\ UNCHANGED <<creator, root, comeback>>
    BY <1>2 DEF TogetherItems!transferPersonalItemsToWorkspaceOwner
  <2>2. CASE found = {} /\ TogetherItems!Goes(w, [w EXCEPT !.op = "leaveSeat"]) /\ UNCHANGED row
    <3>1. GoesOn(w, "leaveSeat", w.id)
      BY <2>2, StaysTogether DEF ItemOps
    <3>2. OneByOne => Live(w.user, w.id) = {}
      OBVIOUS
    <3> QED BY <2>1, <2>2, <3>1, <3>2 DEF Leaves
  <2>3. CASE /\ found # {} /\ TogetherItems!movable(w.id, OwnerRoot)
             /\ row' = [row EXCEPT ![w.id] = TogetherItems!Folder(OwnerRoot)]
             /\ TogetherItems!Goes(w, [w EXCEPT !.op = "leaveRows"])
    <3>1. GoesOn(w, "leaveRows", w.id)
      BY <2>3, StaysTogether DEF ItemOps
    <3>2. row[w.id].status \in {"EXISTS", "TRASHED"}
      BY <2>3 DEF TogetherItems!movable
    <3>3. PICK r : r = TogetherItems!Folder(OwnerRoot)
      OBVIOUS
    <3>4. r \in Columns /\ r.kind = "folder" /\ r.parent = OwnerRoot /\ r.status = "EXISTS"
      BY <3>3, ItemConstants DEF TogetherItems!Folder, Columns, Kinds
    <3> QED BY <2>1, <2>3, <3>1, <3>2, <3>3, <3>4 DEF Leaves
  <2>4. CASE TogetherItems!Done(w) /\ UNCHANGED row
    BY <2>1, <2>4 DEF Leaves, Ends, TogetherItems!Done
  <2> QED BY <1>2, <2>2, <2>3, <2>4 DEF TogetherItems!transferPersonalItemsToWorkspaceOwner
<1>3. CASE TogetherItems!leaveWorkspaceWrites(w)
  <2>1. CASE w.op = "leaveRows"
    <3>1. TogetherItems!Goes(w, [w EXCEPT !.op = "leaveSeat"])
      BY <1>3, <2>1 DEF TogetherItems!leaveWorkspaceWrites
    <3>2. GoesOn(w, "leaveSeat", w.id)
      BY <3>1, StaysTogether DEF ItemOps
    <3> QED BY <1>3, <2>1, <3>2 DEF Leaves, TogetherItems!leaveWorkspaceWrites
  <2>2. CASE w.op = "leaveSeat"
    BY <1>3, <2>2 DEF Leaves, Ends, TogetherItems!leaveWorkspaceWrites, TogetherItems!Done
  <2> QED BY <1>3, <2>1, <2>2 DEF TogetherItems!leaveWorkspaceWrites
<1> QED BY <1>2, <1>3

LEMMA ReadsShapeTogether ==
    ASSUME ItemsFine, ~ OneByOne, NEW w \in work, TogetherItems!emptyTrashItems(w)
    PROVE  Reads(w)
<1> DEFINE found == TogetherItems!ItemsWhere(w.user, w.kind, "TRASHED")
           size  == IF TogetherItems!Cardinality(found) <= w.page THEN 0
                    ELSE TogetherItems!Min({Chunk, TogetherItems!Cardinality(found) - w.page})
<1>1. w \in ItemTask /\ w.op = "empty" /\ w.page \in Nat
  BY DEF ItemsFine, ItemTask, TogetherItems!emptyTrashItems
<1>2. PICK items \in SUBSET found :
          /\ TogetherItems!Cardinality(items) = size
          /\ TogetherItems!Goes(w, [w EXCEPT !.page = @ + Chunk, !.deleting = @ \cup items, !.reported = @ \cup items])
  BY DEF TogetherItems!emptyTrashItems, TogetherItems!kSubset
<1>3. items \subseteq Ids
  BY ItemConstants DEF TogetherItems!ItemsWhere
<1>4. PICK v : v = [w EXCEPT !.page = @ + Chunk, !.deleting = @ \cup items, !.reported = @ \cup items]
  OBVIOUS
<1>5. /\ v \in ItemTask /\ v.op = "empty" /\ v.id = w.id
      /\ v.nr = w.nr /\ v.user = w.user /\ v.kind = w.kind /\ v.page > 0 /\ v.counts = w.counts
      /\ v.deleting = w.deleting \cup items /\ v.reported = w.reported \cup items
      /\ v.before = w.before
  <2>1. w.page + Chunk \in Nat /\ w.page + Chunk > 0
    BY <1>1, ItemConstants
  <2>2. w.deleting \cup items \in SUBSET Ids /\ w.reported \cup items \in SUBSET Ids
    BY <1>1, <1>3 DEF ItemTask
  <2> QED BY <1>1, <1>4, <2>1, <2>2 DEF ItemTask
<1>6. work' = (work \ {w}) \cup {v} /\ UNCHANGED <<row, creator, root, comeback>>
  BY <1>2, <1>4 DEF TogetherItems!Goes, TogetherItems!emptyTrashItems
<1>7. ~ OneByOne
  OBVIOUS
<1> QED BY <1>1, <1>3, <1>5, <1>6, <1>7 DEF Reads

LEMMA DeletesShapeTogether ==
    ASSUME ItemsFine, ~ OneByOne, NEW w \in work, TogetherItems!emptyTrashDeletes(w)
    PROVE  Deletes(w) \/ Turns(w)
<1>1. w \in ItemTask /\ w.op = "empty" /\ UNCHANGED <<creator, root, comeback>>
  BY DEF ItemsFine, TogetherItems!emptyTrashDeletes
<1>2. CASE \E i \in w.deleting : /\ row' = [row EXCEPT ![i].status = "DELETED"]
                                 /\ TogetherItems!Goes(w, [w EXCEPT !.deleting = @ \ {i}])
  <2>1. PICK i \in w.deleting : /\ row' = [row EXCEPT ![i].status = "DELETED"]
                                /\ TogetherItems!Goes(w, [w EXCEPT !.deleting = @ \ {i}])
    BY <1>2
  <2>2. PICK r : r = [row[i] EXCEPT !.status = "DELETED"]
    OBVIOUS
  <2>3. row[i] \in Columns
    BY <1>1 DEF ItemsFine, ItemTask
  <2>4. /\ r \in Columns /\ r.kind = row[i].kind /\ r.parent = row[i].parent /\ r.status = "DELETED"
        /\ row' = [row EXCEPT ![i] = r]
    BY <2>1, <2>2, <2>3 DEF Columns
  <2>5. PICK v : v = [w EXCEPT !.deleting = @ \ {i}]
    OBVIOUS
  <2>6. /\ v \in ItemTask /\ v.op = "empty" /\ v.id = w.id
        /\ v.nr = w.nr /\ v.user = w.user /\ v.kind = w.kind /\ v.page = w.page /\ v.counts = w.counts
        /\ v.deleting = w.deleting \ {i} /\ v.reported = w.reported /\ v.before = w.before
    BY <1>1, <2>5 DEF ItemTask
  <2>7. work' = (work \ {w}) \cup {v}
    BY <2>1, <2>5 DEF TogetherItems!Goes
  <2> QED BY <1>1, <2>4, <2>6, <2>7 DEF Deletes
<1>3. CASE /\ w.page >= w.counts[w.kind] /\ w.deleting = {} /\ UNCHANGED row
           /\ TogetherItems!Goes(w, IF w.kind = "folder" THEN [w EXCEPT !.kind = "file", !.page = 0]
                                              ELSE [w EXCEPT !.op = "emptied"])
  <2>1. PICK v : v = IF w.kind = "folder" THEN [w EXCEPT !.kind = "file", !.page = 0]
                                          ELSE [w EXCEPT !.op = "emptied"]
    OBVIOUS
  <2>2. work' = (work \ {w}) \cup {v}
    BY <1>3, <2>1 DEF TogetherItems!Goes
  <2>3. w.kind \in Kinds
    BY <1>1 DEF ItemTask
  <2>4. /\ v \in ItemTask
        /\ \/ w.kind = "folder" /\ v.op = "empty" /\ v.kind = "file" /\ v.page = 0
           \/ w.kind = "file" /\ v.op = "emptied" /\ v.kind = "file" /\ v.page = w.page
        /\ v.id = w.id /\ v.nr = w.nr /\ v.user = w.user /\ v.counts = w.counts
        /\ v.deleting = {} /\ v.reported = w.reported /\ v.before = w.before
    <3>1. CASE w.kind = "folder"
      BY <1>1, <1>3, <2>1, <3>1 DEF ItemTask, Kinds
    <3>2. CASE w.kind = "file"
      BY <1>1, <1>3, <2>1, <3>2 DEF ItemTask, Kinds, ItemOps
    <3> QED BY <2>3, <3>1, <3>2 DEF Kinds
  <2> QED BY <1>1, <1>3, <2>2, <2>4 DEF Turns
<1> QED BY <1>2, <1>3 DEF TogetherItems!emptyTrashDeletes

LEMMA SetsShapeTogether ==
    ASSUME ItemsFine, ~ OneByOne, NEW u \in Persons, NEW i \in RacingIds,
           \/ TogetherItems!moveItemsToTrash(u, i) \/ TogetherItems!deleteItemsPermanently(u, i)
           \/ \E to \in RacingIds : TogetherItems!moveItem(u, i, to)
    PROVE  Sets
<1>1. root[u] # WorkspaceRoot /\ creator[i] = u
  BY DEF TogetherItems!moveItemsToTrash, TogetherItems!deleteItemsPermanently, TogetherItems!moveItem, TogetherItems!canActivate, TogetherItems!HasSeat,
         TogetherItems!isUserCreatorOfItem
<1>2. i \in Ids /\ row[i] \in Columns
  BY ItemConstants DEF ItemsFine
<1> DEFINE Fits(r) == /\ row[i].status \in {"EXISTS", "TRASHED"} /\ r.status # "free" /\ r.kind = row[i].kind
                      /\ \/ r.parent = row[i].parent
                         \/ r.parent \in Ids /\ row[r.parent].kind = "folder" /\ row[r.parent].status = "EXISTS"
                      /\ TogetherItems!SetRow(i, r)
<1>3. \E r \in Columns : Fits(r)
  <2>1. CASE TogetherItems!moveItemsToTrash(u, i)
    <3>1. PICK r : r = [row[i] EXCEPT !.status = "TRASHED"]
      OBVIOUS
    <3>2. r \in Columns /\ r.status = "TRASHED" /\ r.kind = row[i].kind /\ r.parent = row[i].parent
      BY <1>2, <3>1 DEF Columns
    <3> QED BY <2>1, <3>1, <3>2 DEF TogetherItems!moveItemsToTrash
  <2>2. CASE TogetherItems!deleteItemsPermanently(u, i)
    <3>1. PICK r : r = [row[i] EXCEPT !.status = "DELETED"]
      OBVIOUS
    <3>2. r \in Columns /\ r.status = "DELETED" /\ r.kind = row[i].kind /\ r.parent = row[i].parent
      BY <1>2, <3>1 DEF Columns
    <3> QED BY <2>2, <3>1, <3>2 DEF TogetherItems!deleteItemsPermanently
  <2>3. ASSUME NEW to \in RacingIds, TogetherItems!moveItem(u, i, to) PROVE \E r \in Columns : Fits(r)
    <3>1. PICK r : r = [row[i] EXCEPT !.parent = to, !.status = "EXISTS"]
      OBVIOUS
    <3>2. r \in Columns /\ r.status = "EXISTS" /\ r.kind = row[i].kind /\ r.parent = to /\ to \in Ids
      BY <1>2, <3>1, ItemConstants DEF Columns
    <3>3. TogetherItems!movable(i, to) /\ TogetherItems!SetRow(i, r)
      BY <2>3, <3>1 DEF TogetherItems!moveItem
    <3> QED BY <3>2, <3>3 DEF TogetherItems!movable
  <2> QED BY <2>1, <2>2, <2>3
<1>4. \A r : TogetherItems!SetRow(i, r) => Waits /\ row' = [row EXCEPT ![i] = r] /\ UNCHANGED <<creator, root, work, comeback>>
  BY DEF TogetherItems!SetRow, TogetherItems!Quiet, Waits, OneByOne
<1> QED BY <1>1, <1>2, <1>3, <1>4 DEF Sets

LEMMA StartsShapeTogether ==
    ASSUME ItemsFine, ~ OneByOne, NEW u \in Persons,
           \/ u \in Members /\ TogetherItems!acceptWorkspaceInvite(u)
           \/ u \in Members /\ TogetherItems!HasSeat(u) /\ TogetherItems!leaveWorkspace(u)
           \/ TogetherItems!emptyTrash(u)
           \/ \E i \in RacingIds : TogetherItems!createFileRequest(u, i) \/ TogetherItems!createFolderRequest(u, i)
    PROVE  Starts
<1> USE DEF TogetherItems!HasSeat
<1>1. CASE u \in Members /\ TogetherItems!acceptWorkspaceInvite(u)
  <2>1. PICK t : t = TogetherItems!Task("joinFolder", u)
    OBVIOUS
  <2>2. /\ t \in ItemTask /\ t.op = "joinFolder" /\ t.user = u /\ t.id = WorkspaceRoot /\ t.kind = "folder"
        /\ t.page = 0 /\ t.counts = NothingCounted /\ t.deleting = {} /\ t.reported = {} /\ t.before = {}
    BY <2>1 DEF TogetherItems!Task, ItemTask, Counts, NothingCounted, Kinds, ItemOps
  <2>3. TogetherItems!Begin(t)
    BY <1>1, <2>1 DEF TogetherItems!acceptWorkspaceInvite
  <2>4. Started("joinFolder", u, WorkspaceRoot, "folder", NothingCounted, {})
    BY <2>2, <2>3, StartedByTogether
  <2>5. root[u] = WorkspaceRoot /\ (OneByOne => \A i \in Ids : creator[i] # u)
    BY <1>1 DEF TogetherItems!acceptWorkspaceInvite
  <2> QED BY <1>1, <2>4, <2>5 DEF Starts
<1>2. CASE u \in Members /\ TogetherItems!HasSeat(u) /\ TogetherItems!leaveWorkspace(u)
  <2>1. PICK t : t = [TogetherItems!Task("leaveLooks", u) EXCEPT !.id = root[u]]
    OBVIOUS
  <2>2. root[u] \in Ids \cup {WorkspaceRoot}
    BY DEF ItemsFine
  <2>3. /\ t \in ItemTask /\ t.op = "leaveLooks" /\ t.user = u /\ t.id = root[u] /\ t.kind = "folder"
        /\ t.page = 0 /\ t.counts = NothingCounted /\ t.deleting = {} /\ t.reported = {} /\ t.before = {}
    BY <2>1, <2>2 DEF TogetherItems!Task, ItemTask, Counts, NothingCounted, Kinds, ItemOps
  <2>4. TogetherItems!Begin(t)
    BY <1>2, <2>1 DEF TogetherItems!leaveWorkspace
  <2>5. Started("leaveLooks", u, root[u], "folder", NothingCounted, {})
    BY <2>3, <2>4, StartedByTogether
  <2> QED BY <1>2, <2>5 DEF Starts
<1>3. CASE TogetherItems!emptyTrash(u)
  <2> DEFINE folders == TogetherItems!ItemsWhere(u, "folder", "TRASHED")
             files   == TogetherItems!ItemsWhere(u, "file", "TRASHED")
  <2>1. PICK counts : counts = [folder |-> TogetherItems!Cardinality(folders), file |-> TogetherItems!Cardinality(files)]
    OBVIOUS
  <2>2. PICK before : before = folders \cup files
    OBVIOUS
  <2>3. before \subseteq Ids /\ folders \subseteq Ids /\ files \subseteq Ids
    BY <2>2, ItemConstants DEF TogetherItems!ItemsWhere
  <2>4. TogetherItems!Cardinality(folders) = Cardinality(folders) /\ TogetherItems!Cardinality(files) = Cardinality(files)
    BY Zenon DEF TogetherItems!Cardinality, Cardinality
  <2>5. IsFiniteSet(folders) /\ IsFiniteSet(files)
    BY <2>3, ItemConstants, FS_Subset
  <2>6. Cardinality(folders) \in Nat /\ Cardinality(files) \in Nat
    BY <2>5, FS_CardinalityType
  <2>7. counts \in Counts /\ counts.folder = Cardinality(folders) /\ counts.file = Cardinality(files)
    BY <2>1, <2>4, <2>6 DEF Counts
  <2>8. PICK t : t = [TogetherItems!Task("empty", u) EXCEPT !.counts = counts, !.before = before]
    OBVIOUS
  <2>9. /\ t \in ItemTask /\ t.op = "empty" /\ t.user = u /\ t.id = WorkspaceRoot /\ t.kind = "folder"
        /\ t.page = 0 /\ t.counts = counts /\ t.deleting = {} /\ t.reported = {} /\ t.before = before
    BY <2>3, <2>7, <2>8 DEF TogetherItems!Task, ItemTask, Kinds, ItemOps
  <2>10. TogetherItems!Begin(t)
    BY <1>3, <2>1, <2>2, <2>8 DEF TogetherItems!emptyTrash, TogetherItems!emptyUserTrashedItems, TogetherItems!getWorkspaceUserTrashedItems
  <2>11. Started("empty", u, WorkspaceRoot, "folder", counts, before)
    BY <2>9, <2>10, StartedByTogether
  <2>12. OneByOne => /\ before = TrashOf(u)
                       /\ counts.folder = Cardinality(OfKind(before, "folder"))
                       /\ counts.file = Cardinality(OfKind(before, "file"))
    OBVIOUS
  <2> QED BY <2>3, <2>7, <2>11, <2>12 DEF Starts
<1>4. ASSUME NEW i \in RacingIds, TogetherItems!createFileRequest(u, i) \/ TogetherItems!createFolderRequest(u, i)
      PROVE  Starts
  <2>1. i \in Ids
    BY ItemConstants
  <2>2. root[u] # WorkspaceRoot /\ row[i].kind = "folder" /\ creator[i] = u
    BY <1>4 DEF TogetherItems!createFileRequest, TogetherItems!createFolderRequest, TogetherItems!createFile, TogetherItems!createFolder,
                TogetherItems!isUserCreatorOfItem
  <2>3. CASE TogetherItems!createFileRequest(u, i)
    <3>1. TogetherItems!Begin([TogetherItems!Task("insertFile", u) EXCEPT !.id = i, !.kind = "file"])
      BY <2>3 DEF TogetherItems!createFileRequest, TogetherItems!createFile
    <3>2. Started("insertFile", u, i, "file", NothingCounted, {})
      BY <2>1, <3>1, PlainTogether DEF Kinds, ItemOps
    <3> QED BY <2>1, <2>2, <3>2 DEF Starts, Kinds
  <2>4. CASE TogetherItems!createFolderRequest(u, i)
    <3>1. PICK t : t = [TogetherItems!Task("insertFolder", u) EXCEPT !.id = i]
      OBVIOUS
    <3>2. /\ t \in ItemTask /\ t.op = "insertFolder" /\ t.user = u /\ t.id = i /\ t.kind = "folder"
          /\ t.page = 0 /\ t.counts = NothingCounted /\ t.deleting = {} /\ t.reported = {} /\ t.before = {}
      BY <2>1, <3>1 DEF TogetherItems!Task, ItemTask, Counts, NothingCounted, Kinds, ItemOps
    <3>3. TogetherItems!Begin(t)
      BY <2>4, <3>1 DEF TogetherItems!createFolderRequest, TogetherItems!createFolder
    <3>4. Started("insertFolder", u, i, "folder", NothingCounted, {})
      BY <3>2, <3>3, StartedByTogether
    <3> QED BY <2>1, <2>2, <3>4 DEF Starts, Kinds
  <2> QED BY <1>4, <2>3, <2>4
<1> QED BY <1>1, <1>2, <1>3, <1>4

LEMMA StepShapeTogether ==
    ASSUME ItemsFine, ~ OneByOne, TogetherItems!Next
    PROVE  ItemsStep
<1>1. ASSUME NEW u \in Members, TogetherItems!acceptWorkspaceInvite(u) \/ (TogetherItems!HasSeat(u) /\ TogetherItems!leaveWorkspace(u))
      PROVE  ItemsStep
  BY <1>1, StartsShapeTogether DEF ItemsStep, Persons
<1>2. ASSUME NEW u \in Members \cup {Owner}, TogetherItems!emptyTrash(u)
      PROVE  ItemsStep
  BY <1>2, StartsShapeTogether DEF ItemsStep, Persons
<1>3. ASSUME NEW u \in Members \cup {Owner}, NEW i \in RacingIds,
             TogetherItems!createFileRequest(u, i) \/ TogetherItems!createFolderRequest(u, i)
      PROVE  ItemsStep
  BY <1>3, StartsShapeTogether DEF ItemsStep, Persons
<1>4. ASSUME NEW u \in Members \cup {Owner}, NEW i \in RacingIds,
             \/ TogetherItems!moveItemsToTrash(u, i) \/ TogetherItems!deleteItemsPermanently(u, i)
             \/ \E to \in RacingIds : TogetherItems!moveItem(u, i, to)
      PROVE  ItemsStep
  BY <1>4, SetsShapeTogether DEF ItemsStep, Persons
<1>5. ASSUME NEW w \in work, TogetherItems!acceptWorkspaceInviteWrites(w)
      PROVE  ItemsStep
  BY <1>5, JoinsShapeTogether DEF ItemsStep
<1>6. ASSUME NEW w \in work, TogetherItems!createWrites(w)
      PROVE  ItemsStep
  BY <1>6, CreatesShapeTogether DEF ItemsStep
<1>7. ASSUME NEW w \in work, TogetherItems!transferPersonalItemsToWorkspaceOwner(w) \/ TogetherItems!leaveWorkspaceWrites(w)
      PROVE  ItemsStep
  BY <1>7, LeavesShapeTogether DEF ItemsStep
<1>8. ASSUME NEW w \in work, TogetherItems!emptyTrashItems(w) \/ TogetherItems!emptyTrashDeletes(w)
      PROVE  ItemsStep
  BY <1>8, ReadsShapeTogether, DeletesShapeTogether DEF ItemsStep
<1>9. ASSUME NEW w \in work, TogetherItems!emptyTrashReturns(w) \/ TogetherItems!requestDies(w)
      PROVE  ItemsStep
  BY <1>9 DEF ItemsStep, Stops, Ends, TogetherItems!emptyTrashReturns, TogetherItems!requestDies, TogetherItems!Done
<1> QED BY <1>1, <1>2, <1>3, <1>4, <1>5, <1>6, <1>7, <1>8, <1>9 DEF TogetherItems!Next

----------------------------------------------------------------------------
(* What is deleted stays deleted.                                          *)

Kept == \A i \in Ids : row[i].status = "DELETED" => row'[i].status = "DELETED"

LEMMA RowWritten ==
    ASSUME ItemsFine, NEW i, NEW r \in Columns, row' = [row EXCEPT ![i] = r],
           row[i].status = "DELETED" => r.status = "DELETED"
    PROVE  row' \in [Ids -> Columns] /\ Kept /\ \A j \in Ids : row'[j] = IF j = i THEN r ELSE row[j]
<1>1. row \in [Ids -> Columns]
  BY DEF ItemsFine
<1>2. \A j \in Ids : row'[j] = IF j = i THEN r ELSE row[j]
  BY <1>1
<1>3. row' \in [Ids -> Columns]
  BY <1>1
<1> QED BY <1>2, <1>3 DEF Kept

LEMMA RowsSame == row' = row => Kept
  BY DEF Kept

LEMMA StillRecorded ==
    ASSUME ItemsFine, Kept, NEW w \in work
    PROVE  Recorded(w)'
<1>1. w \in ItemTask /\ Recorded(w)
  BY DEF ItemsFine
<1>2. w.reported \subseteq Ids
  BY <1>1 DEF ItemTask
<1> QED BY <1>1, <1>2 DEF Recorded, Kept

LEMMA WorkFine ==
    ASSUME ItemsFine, Kept, NEW v \in ItemTask, Recorded(v)', work' \subseteq work \cup {v}
    PROVE  work' \subseteq ItemTask /\ \A w \in work' : Recorded(w)'
<1>1. work \subseteq ItemTask
  BY DEF ItemsFine
<1>2. \A w \in work : Recorded(w)'
  BY StillRecorded
<1> QED BY <1>1, <1>2

LEMMA WorkEnds ==
    ASSUME ItemsFine, Kept, work' \subseteq work
    PROVE  work' \subseteq ItemTask /\ \A w \in work' : Recorded(w)'
<1>1. work \subseteq ItemTask
  BY DEF ItemsFine
<1>2. \A w \in work : Recorded(w)'
  BY StillRecorded
<1> QED BY <1>1, <1>2

LEMMA WorkGoesOn ==
    ASSUME ItemsFine, Kept, NEW w \in work, w.op # "empty", NEW op, NEW id, op # "empty", GoesOn(w, op, id)
    PROVE  work' \subseteq ItemTask /\ \A v \in work' : Recorded(v)'
<1>1. PICK v \in ItemTask :
          v.op = op /\ v.deleting = w.deleting /\ v.reported = w.reported /\ work' = (work \ {w}) \cup {v}
  BY DEF GoesOn
<1>2. Recorded(w)' /\ Recorded(w)
  BY StillRecorded DEF ItemsFine
<1>3. w.deleting = {}
  BY <1>2 DEF Recorded
<1>4. Recorded(v)'
  BY <1>1, <1>2, <1>3 DEF Recorded
<1> QED BY <1>1, <1>4, WorkFine

LEMMA WorkStarts ==
    ASSUME ItemsFine, NEW op, NEW u, NEW id, NEW k, NEW counts, NEW before, Started(op, u, id, k, counts, before)
    PROVE  ItemsFine'
<1>1. PICK v \in ItemTask : v.deleting = {} /\ v.reported = {} /\ work' = work \cup {v}
  BY DEF Started
<1>2. UNCHANGED <<row, creator, root, comeback>>
  BY DEF Started
<1>3. Kept
  BY <1>2, RowsSame
<1>4. Recorded(v)'
  BY <1>1 DEF Recorded
<1>5. work' \subseteq ItemTask /\ \A w \in work' : Recorded(w)'
  BY <1>1, <1>3, <1>4, WorkFine
<1> QED BY <1>2, <1>5 DEF ItemsFine

LEMMA InsertsFine ==
    ASSUME ItemsFine, NEW w \in work, w.op # "empty", NEW k, NEW p, NEW op, op # "empty", Inserts(w, k, p, op),
           UNCHANGED <<creator, root, comeback>>
    PROVE  ItemsFine'
<1>1. PICK i \in Ids, r \in Columns :
          row[i].status = "free" /\ row' = [row EXCEPT ![i] = r] /\ GoesOn(w, op, i)
  BY DEF Inserts
<1>2. row' \in [Ids -> Columns] /\ Kept
  BY <1>1, RowWritten
<1>3. work' \subseteq ItemTask /\ \A v \in work' : Recorded(v)'
  BY <1>1, <1>2, WorkGoesOn
<1> QED BY <1>2, <1>3 DEF ItemsFine

LEMMA JoinsFine == ASSUME ItemsFine, NEW w \in work, Joins(w) PROVE ItemsFine'
<1>1. w \in ItemTask /\ w.user \in Persons /\ w.id \in Ids \cup {WorkspaceRoot}
  BY DEF ItemsFine, ItemTask
<1>2. CASE w.op = "joinFolder" /\ Inserts(w, "folder", WorkspaceRoot, "joinSeat") /\ UNCHANGED <<creator, root, comeback>>
  <2>1. w.op # "empty"
    BY <1>2
  <2> QED BY <1>2, <2>1, InsertsFine
<1>3. CASE /\ w.op = "joinSeat" /\ root' = [root EXCEPT ![w.user] = w.id]
           /\ comeback' \in {comeback, comeback \cup {w.user}}
           /\ GoesOn(w, "joinItem", w.id) /\ UNCHANGED <<row, creator>>
  <2>1. w.op # "empty" /\ Kept
    BY <1>3, RowsSame
  <2>2. work' \subseteq ItemTask /\ \A v \in work' : Recorded(v)'
    BY <1>3, <2>1, WorkGoesOn
  <2>3. root' \in [Persons -> Ids \cup {WorkspaceRoot}] /\ comeback' \subseteq Persons
    BY <1>1, <1>3 DEF ItemsFine
  <2> QED BY <1>3, <2>2, <2>3 DEF ItemsFine
<1>4. CASE /\ creator' = [creator EXCEPT ![w.id] = w.user] /\ Ends(w) /\ UNCHANGED <<row, root, comeback>>
  <2>1. work' \subseteq ItemTask /\ \A v \in work' : Recorded(v)'
    BY <1>4, RowsSame, WorkEnds DEF Ends
  <2>2. creator' \in [Ids -> Persons \cup {NoOne}]
    BY <1>1, <1>4 DEF ItemsFine
  <2> QED BY <1>4, <2>1, <2>2 DEF ItemsFine
<1>5. CASE /\ root' = [root EXCEPT ![w.user] = WorkspaceRoot] /\ Ends(w) /\ UNCHANGED <<row, creator, comeback>>
  <2>1. work' \subseteq ItemTask /\ \A v \in work' : Recorded(v)'
    BY <1>5, RowsSame, WorkEnds DEF Ends
  <2>2. root' \in [Persons -> Ids \cup {WorkspaceRoot}]
    BY <1>5 DEF ItemsFine
  <2> QED BY <1>5, <2>1, <2>2 DEF ItemsFine
<1> QED BY <1>2, <1>3, <1>4, <1>5 DEF Joins

LEMMA CreatesFine == ASSUME ItemsFine, NEW w \in work, Creates(w) PROVE ItemsFine'
<1>1. w \in ItemTask /\ w.user \in Persons
  BY DEF ItemsFine, ItemTask
<1>2. CASE /\ w.op \in {"insertFile", "insertFolder"} /\ Inserts(w, w.kind, w.id, "insertItem")
           /\ UNCHANGED <<creator, root, comeback>>
  <2>1. w.op # "empty"
    BY <1>2
  <2> QED BY <1>2, <2>1, InsertsFine
<1>3. CASE creator' = [creator EXCEPT ![w.id] = w.user] /\ Ends(w) /\ UNCHANGED <<row, root, comeback>>
  <2>1. work' \subseteq ItemTask /\ \A v \in work' : Recorded(v)'
    BY <1>3, RowsSame, WorkEnds DEF Ends
  <2>2. creator' \in [Ids -> Persons \cup {NoOne}]
    BY <1>1, <1>3 DEF ItemsFine
  <2> QED BY <1>3, <2>1, <2>2 DEF ItemsFine
<1> QED BY <1>2, <1>3 DEF Creates

LEMMA LeavesFine == ASSUME ItemsFine, NEW w \in work, Leaves(w) PROVE ItemsFine'
<1>1. CASE /\ w.op = "leaveLooks" /\ GoesOn(w, "leaveSeat", w.id) /\ UNCHANGED <<row, creator, root, comeback>>
  <2>1. w.op # "empty" /\ Kept
    BY <1>1, RowsSame
  <2>2. work' \subseteq ItemTask /\ \A v \in work' : Recorded(v)'
    BY <1>1, <2>1, WorkGoesOn
  <2> QED BY <1>1, <2>2 DEF ItemsFine
<1>2. CASE /\ w.op = "leaveLooks" /\ row[w.id].status \in {"EXISTS", "TRASHED"}
           /\ \E r \in Columns : row' = [row EXCEPT ![w.id] = r]
           /\ GoesOn(w, "leaveRows", w.id) /\ UNCHANGED <<creator, root, comeback>>
  <2>1. PICK r \in Columns : row' = [row EXCEPT ![w.id] = r]
    BY <1>2
  <2>2. row[w.id].status # "DELETED" /\ w.op # "empty"
    BY <1>2
  <2>3. row' \in [Ids -> Columns] /\ Kept
    BY <2>1, <2>2, RowWritten
  <2>4. work' \subseteq ItemTask /\ \A v \in work' : Recorded(v)'
    BY <1>2, <2>2, <2>3, WorkGoesOn
  <2> QED BY <1>2, <2>3, <2>4 DEF ItemsFine
<1>3. CASE Ends(w) /\ UNCHANGED <<row, creator, root, comeback>>
  <2>1. work' \subseteq ItemTask /\ \A v \in work' : Recorded(v)'
    BY <1>3, RowsSame, WorkEnds DEF Ends
  <2> QED BY <1>3, <2>1 DEF ItemsFine
<1>4. CASE /\ w.op = "leaveRows"
           /\ creator' = [i \in DOMAIN creator |-> IF creator[i] = w.user THEN Owner ELSE creator[i]]
           /\ GoesOn(w, "leaveSeat", w.id) /\ UNCHANGED <<row, root, comeback>>
  <2>1. w.op # "empty" /\ Kept
    BY <1>4, RowsSame
  <2>2. work' \subseteq ItemTask /\ \A v \in work' : Recorded(v)'
    BY <1>4, <2>1, WorkGoesOn
  <2>3. creator' \in [Ids -> Persons \cup {NoOne}]
    BY <1>4 DEF ItemsFine, Persons
  <2> QED BY <1>4, <2>2, <2>3 DEF ItemsFine
<1>5. CASE /\ root' = [root EXCEPT ![w.user] = WorkspaceRoot] /\ Ends(w) /\ UNCHANGED <<row, creator, comeback>>
  <2>1. work' \subseteq ItemTask /\ \A v \in work' : Recorded(v)'
    BY <1>5, RowsSame, WorkEnds DEF Ends
  <2>2. root' \in [Persons -> Ids \cup {WorkspaceRoot}]
    BY <1>5 DEF ItemsFine
  <2> QED BY <1>5, <2>1, <2>2 DEF ItemsFine
<1> QED BY <1>1, <1>2, <1>3, <1>4, <1>5 DEF Leaves

LEMMA EmptyingFine == ASSUME ItemsFine, NEW w \in work, Reads(w) \/ Deletes(w) \/ Turns(w) PROVE ItemsFine'
<1>1. w \in ItemTask /\ Recorded(w)
  BY DEF ItemsFine
<1>2. CASE Reads(w)
  <2>1. PICK items \in SUBSET Ids, v \in ItemTask :
            /\ v.op = "empty" /\ v.deleting = w.deleting \cup items /\ v.reported = w.reported \cup items
            /\ work' = (work \ {w}) \cup {v}
    BY <1>2 DEF Reads
  <2>2. UNCHANGED <<row, creator, root, comeback>>
    BY <1>2 DEF Reads
  <2>3. Kept
    BY <2>2, RowsSame
  <2>4. Recorded(v)'
    BY <1>1, <2>1, <2>2 DEF Recorded
  <2>5. work' \subseteq ItemTask /\ \A x \in work' : Recorded(x)'
    BY <2>1, <2>3, <2>4, WorkFine
  <2> QED BY <2>2, <2>5 DEF ItemsFine
<1>3. CASE Deletes(w)
  <2>1. PICK i \in w.deleting, r \in Columns, v \in ItemTask :
            /\ r.status = "DELETED" /\ row' = [row EXCEPT ![i] = r]
            /\ v.op = "empty" /\ v.deleting = w.deleting \ {i} /\ v.reported = w.reported
            /\ work' = (work \ {w}) \cup {v}
    BY <1>3 DEF Deletes
  <2>2. UNCHANGED <<creator, root, comeback>>
    BY <1>3 DEF Deletes
  <2>3. row' \in [Ids -> Columns] /\ Kept /\ \A j \in Ids : row'[j] = IF j = i THEN r ELSE row[j]
    BY <2>1, RowWritten
  <2>4. w.reported \subseteq Ids
    BY <1>1 DEF ItemTask
  <2>5. Recorded(v)'
    BY <1>1, <2>1, <2>3, <2>4 DEF Recorded, Kept
  <2>6. work' \subseteq ItemTask /\ \A x \in work' : Recorded(x)'
    BY <2>1, <2>3, <2>5, WorkFine
  <2> QED BY <2>2, <2>3, <2>6 DEF ItemsFine
<1>4. CASE Turns(w)
  <2>1. PICK v \in ItemTask : /\ v.deleting = {} /\ v.reported = w.reported
                              /\ work' = (work \ {w}) \cup {v}
    BY <1>4 DEF Turns
  <2>2. w.deleting = {} /\ UNCHANGED <<row, creator, root, comeback>>
    BY <1>4 DEF Turns
  <2>3. Kept
    BY <2>2, RowsSame
  <2>4. Recorded(v)'
    BY <1>1, <2>1, <2>2 DEF Recorded
  <2>5. work' \subseteq ItemTask /\ \A x \in work' : Recorded(x)'
    BY <2>1, <2>3, <2>4, WorkFine
  <2> QED BY <2>2, <2>5 DEF ItemsFine
<1> QED BY <1>2, <1>3, <1>4

LEMMA ItemsFineStep == ItemsFine /\ ItemsStep => ItemsFine'
<1> SUFFICES ASSUME ItemsFine, ItemsStep PROVE ItemsFine'
  OBVIOUS
<1>1. CASE Starts
  BY <1>1, WorkStarts DEF Starts
<1>2. CASE Sets
  <2>1. PICK i \in Ids, r \in Columns :
            /\ row[i].status \in {"EXISTS", "TRASHED"}
            /\ row' = [row EXCEPT ![i] = r] /\ UNCHANGED <<creator, root, work, comeback>>
    BY <1>2 DEF Sets
  <2>2. row[i].status # "DELETED"
    BY <2>1
  <2>3. row' \in [Ids -> Columns] /\ Kept
    BY <2>1, <2>2, RowWritten
  <2>4. work' \subseteq ItemTask /\ \A v \in work' : Recorded(v)'
    BY <2>1, <2>3, WorkEnds
  <2> QED BY <2>1, <2>3, <2>4 DEF ItemsFine
<1>3. ASSUME NEW w \in work, Joins(w) \/ Creates(w) \/ Leaves(w) \/ Reads(w) \/ Deletes(w) \/ Turns(w)
      PROVE  ItemsFine'
  BY <1>3, JoinsFine, CreatesFine, LeavesFine, EmptyingFine
<1>4. ASSUME NEW w \in work, Stops(w) PROVE ItemsFine'
  <2>1. UNCHANGED <<row, creator, root, comeback>> /\ work' \subseteq work
    BY <1>4 DEF Stops, Ends
  <2>2. work' \subseteq ItemTask /\ \A v \in work' : Recorded(v)'
    BY <2>1, RowsSame, WorkEnds
  <2> QED BY <2>1, <2>2 DEF ItemsFine
<1> QED BY <1>1, <1>2, <1>3, <1>4 DEF ItemsStep

----------------------------------------------------------------------------
(* Requests one at a time.                                                 *)

LeavingOps == {"leaveLooks", "leaveRows", "leaveSeat"}

EmptyOps == {"empty", "emptied"}

\* What a request that is not emptying has made sure of.
ItemDoing(w) ==
    /\ w.op \in {"joinFolder", "joinSeat"} => root[w.user] = WorkspaceRoot
    /\ w.op \in {"joinFolder", "joinSeat", "joinItem"} =>
          w.user # Owner /\ \A i \in Ids : creator[i] # w.user
    /\ w.op \in {"joinSeat", "joinItem"} =>
          /\ w.id \in Ids /\ creator[w.id] = NoOne
          /\ row[w.id].kind = "folder" /\ row[w.id].status = "EXISTS" /\ row[w.id].parent = WorkspaceRoot
    /\ w.op = "joinItem" => root[w.user] = w.id
    /\ w.op \in {"insertFile", "insertFolder"} =>
          root[w.user] # WorkspaceRoot /\ w.id \in Ids /\ creator[w.id] = w.user /\ row[w.id].kind = "folder"
    /\ w.op = "insertItem" =>
          /\ root[w.user] # WorkspaceRoot /\ w.id \in Ids /\ creator[w.id] = NoOne
          /\ row[w.id].status = "EXISTS" /\ row[w.id].parent \in Ids
    /\ w.op \in LeavingOps => w.user # Owner /\ w.id \in Ids /\ root[w.user] = w.id
    /\ w.op = "leaveRows" => row[w.id].parent = OwnerRoot
    /\ w.op = "leaveSeat" => Live(w.user, w.id) = {}

\* Of this kind a whole page was reported, or all there was.
Enough(w, k) == Cardinality(OfKind(w.reported, k)) >= Chunk \/ OfKind(w.before, k) \subseteq w.reported

\* What emptying took is what it was to take.
EmptyDoing(w) ==
    /\ w.deleting \subseteq w.reported /\ w.reported \subseteq w.before
    /\ \A i \in w.before :
          creator[i] = w.user /\ (i \in w.reported \ w.deleting \/ row[i].status = "TRASHED")
    /\ TrashOf(w.user) \subseteq w.before
    /\ w.counts.folder = Cardinality(OfKind(w.before, "folder"))
    /\ w.counts.file = Cardinality(OfKind(w.before, "file"))
    /\ w.op = "empty" /\ w.kind = "folder" => OfKind(w.reported, "file") = {}
    /\ w.op = "empty" /\ w.page = 0 => OfKind(w.reported, w.kind) = {}
    /\ w.op = "empty" /\ w.page # 0 => Enough(w, w.kind)
    /\ w.op = "emptied" \/ w.kind = "file" => Enough(w, "folder")
    /\ w.op = "emptied" => Enough(w, "file")

\* Whose root folder is in the seat before the item row is, or for a moment
\* after it went to the owner.
Between(u) == \E w \in work : w.op \in {"joinItem", "leaveSeat"} /\ w.user = u

Rooted ==
    /\ root[Owner] = OwnerRoot
    /\ \A u \in Persons : root[u] # WorkspaceRoot =>
          /\ row[root[u]].kind = "folder" /\ row[root[u]].status # "free"
          /\ creator[root[u]] = u \/ Between(u)

Grounded ==
    \A i \in Ids :
        /\ row[i].status = "free" => creator[i] = NoOne
        /\ row[i].status # "free" /\ row[i].parent \in Ids =>
              row[row[i].parent].status # "free" /\ row[row[i].parent].kind = "folder"

\* A folder right below the root of the workspace is the root folder of its
\* creator; that of somebody who left has nothing live of theirs in it.
Tops ==
    \A j \in Ids : row[j].status # "free" /\ row[j].parent = WorkspaceRoot /\ creator[j] # NoOne =>
        \/ root[creator[j]] = j
        \/ root[creator[j]] = WorkspaceRoot /\ Live(creator[j], j) = {}

ItemsWorld == Rooted /\ Grounded /\ Tops /\ comeback = {}

OneItemTask == \A v, w \in work : v = w

ItemsDoing ==
    \A w \in work : ItemDoing(w) /\ (w.op \in EmptyOps => EmptyDoing(w))

ItemsAlone == ItemsWorld /\ OneItemTask /\ ItemsDoing

\* The one request goes on, or is done.
LEMMA OnlyTask ==
    ASSUME OneItemTask, NEW w \in work, NEW v, work' = (work \ {w}) \cup {v}
    PROVE  work = {w} /\ work' = {v}
  BY DEF OneItemTask

LEMMA LastTask ==
    ASSUME OneItemTask, NEW w \in work, Ends(w)
    PROVE  work = {w} /\ work' = {} /\ OneItemTask' /\ ItemsDoing'
  BY DEF OneItemTask, ItemsDoing, Ends

LEMMA GoneOn ==
    ASSUME ItemsFine, OneItemTask, NEW w \in work, NEW op, NEW id, GoesOn(w, op, id)
    PROVE  /\ OneItemTask' /\ work = {w}
           /\ \E v \in ItemTask : /\ v.op = op /\ v.id = id /\ v.user = w.user /\ v.kind = w.kind
                                  /\ work' = {v}
<1>1. PICK v \in ItemTask : /\ v.op = op /\ v.id = id /\ v.user = w.user /\ v.kind = w.kind
                            /\ work' = (work \ {w}) \cup {v}
  BY DEF GoesOn
<1>2. work = {w} /\ work' = {v}
  BY <1>1, OnlyTask
<1> QED BY <1>1, <1>2 DEF OneItemTask

LEMMA WorldSame ==
    ASSUME ItemsWorld, UNCHANGED <<row, creator, root, comeback>>, \A u \in Persons : Between(u) => Between(u)'
    PROVE  ItemsWorld'
<1>1. Tops'
  BY DEF ItemsWorld, Tops, Live
<1>2. Grounded'
  BY DEF ItemsWorld, Grounded
<1>3. Rooted'
  BY DEF ItemsWorld, Rooted
<1> QED BY <1>1, <1>2, <1>3 DEF ItemsWorld

LEMMA ParentsKnown ==
    ASSUME ItemsFine, NEW i \in Ids
    PROVE  row[i] \in Columns /\ row[i].parent \in Ids \cup {WorkspaceRoot} /\ row[i].kind \in Kinds
  BY DEF ItemsFine, Columns

----------------------------------------------------------------------------
LEMMA StartsAlone ==
    ASSUME ItemsFine, OneByOne, ItemsAlone, Starts
    PROVE  ItemsAlone'
<1>1. work = {} /\ UNCHANGED <<row, creator, root, comeback>>
  BY DEF Starts, Started, Waits
<1>2. \A u : ~ Between(u)
  BY <1>1 DEF Between
<1>3. ItemsWorld'
  BY <1>1, <1>2, WorldSame DEF ItemsAlone
<1>4. \E v \in ItemTask : work' = {v} /\ ItemDoing(v)' /\ (v.op \in EmptyOps => EmptyDoing(v)')
  <2>1. ASSUME NEW u \in Members, root[u] = WorkspaceRoot, \A i \in Ids : creator[i] # u,
               Started("joinFolder", u, WorkspaceRoot, "folder", NothingCounted, {})
        PROVE  <1>4
    <3>1. PICK v \in ItemTask : v.op = "joinFolder" /\ v.user = u /\ work' = work \cup {v}
      BY <2>1 DEF Started
    <3>2. ItemDoing(v)' /\ v.op \notin EmptyOps
      BY <1>1, <2>1, <3>1, ItemConstants DEF ItemDoing, EmptyOps, LeavingOps
    <3> QED BY <1>1, <3>1, <3>2
  <2>2. ASSUME NEW u \in Members, root[u] # WorkspaceRoot,
               Started("leaveLooks", u, root[u], "folder", NothingCounted, {})
        PROVE  <1>4
    <3>1. PICK v \in ItemTask : v.op = "leaveLooks" /\ v.user = u /\ v.id = root[u] /\ work' = work \cup {v}
      BY <2>2 DEF Started
    <3>2. root[u] \in Ids
      BY <2>2 DEF ItemsFine, Persons
    <3>3. ItemDoing(v)' /\ v.op \notin EmptyOps
      BY <1>1, <2>2, <3>1, <3>2, ItemConstants DEF ItemDoing, EmptyOps, LeavingOps
    <3> QED BY <1>1, <3>1, <3>3
  <2>3. ASSUME NEW u \in Persons, NEW counts \in Counts, NEW before \in SUBSET Ids,
               before = TrashOf(u),
               counts.folder = Cardinality(OfKind(before, "folder")),
               counts.file = Cardinality(OfKind(before, "file")),
               Started("empty", u, WorkspaceRoot, "folder", counts, before)
        PROVE  <1>4
    <3>1. PICK v \in ItemTask : /\ v.op = "empty" /\ v.user = u /\ v.kind = "folder" /\ v.page = 0
                                /\ v.counts = counts /\ v.deleting = {} /\ v.reported = {}
                                /\ v.before = before /\ work' = work \cup {v}
      BY <2>3 DEF Started
    <3>2. ItemDoing(v)
      BY <3>1 DEF ItemDoing, LeavingOps
    <3>3. EmptyDoing(v)
      <4>1. v.deleting \subseteq v.reported /\ v.reported \subseteq v.before /\ TrashOf(v.user) \subseteq v.before
        BY <2>3, <3>1
      <4>2. \A i \in v.before : creator[i] = v.user /\ row[i].status = "TRASHED"
        BY <2>3, <3>1 DEF TrashOf
      <4>3. OfKind(v.reported, "file") = {} /\ OfKind(v.reported, v.kind) = {}
        BY <3>1 DEF OfKind
      <4> QED BY <2>3, <3>1, <4>1, <4>2, <4>3 DEF EmptyDoing
    <3>4. ItemDoing(v)'
      BY <1>1, <3>2 DEF ItemDoing, Live
    <3>5. EmptyDoing(v)'
      BY <1>1, <3>3 DEF EmptyDoing, TrashOf, OfKind, Enough
    <3> QED BY <1>1, <3>1, <3>4, <3>5
  <2>4. ASSUME NEW u \in Persons, NEW p \in Ids, NEW op \in {"insertFile", "insertFolder"}, NEW k \in Kinds,
               root[u] # WorkspaceRoot, row[p].kind = "folder", creator[p] = u,
               Started(op, u, p, k, NothingCounted, {})
        PROVE  <1>4
    <3>1. PICK v \in ItemTask : v.op = op /\ v.user = u /\ v.id = p /\ work' = work \cup {v}
      BY <2>4 DEF Started
    <3>2. ItemDoing(v)' /\ v.op \notin EmptyOps
      BY <1>1, <2>4, <3>1 DEF ItemDoing, EmptyOps, LeavingOps
    <3> QED BY <1>1, <3>1, <3>2
  <2> QED BY <2>1, <2>2, <2>3, <2>4 DEF Starts
<1> QED BY <1>3, <1>4 DEF ItemsAlone, OneItemTask, ItemsDoing

LEMMA SetsAlone ==
    ASSUME ItemsFine, OneByOne, ItemsAlone, Sets
    PROVE  ItemsAlone'
<1>1. PICK u \in Persons, i \in Ids, r \in Columns :
        /\ root[u] # WorkspaceRoot /\ creator[i] = u
        /\ row[i].status \in {"EXISTS", "TRASHED"} /\ r.status # "free" /\ r.kind = row[i].kind
        /\ \/ r.parent = row[i].parent
           \/ r.parent \in Ids /\ row[r.parent].kind = "folder" /\ row[r.parent].status = "EXISTS"
        /\ Waits /\ row' = [row EXCEPT ![i] = r] /\ UNCHANGED <<creator, root, work, comeback>>
  BY DEF Sets
<1>2. work = {} /\ work' = {}
  BY <1>1 DEF Waits
<1>3. \A j \in Ids : row'[j] = IF j = i THEN r ELSE row[j]
  BY <1>1 DEF ItemsFine
<1>4. Rooted'
  <2>1. \A v \in Persons : root[v] # WorkspaceRoot => root[v] \in Ids
    BY DEF ItemsFine
  <2>2. \A v \in Persons : ~ Between(v)
    BY <1>2 DEF Between
  <2> QED BY <1>1, <1>3, <2>1, <2>2 DEF ItemsAlone, ItemsWorld, Rooted
<1>5. Grounded'
  BY <1>1, <1>3 DEF ItemsAlone, ItemsWorld, Grounded
<1>6. Tops'
  <2>1. SUFFICES ASSUME NEW j \in Ids, row'[j].status # "free", row'[j].parent = WorkspaceRoot, creator[j] # NoOne
                 PROVE  \/ root[creator[j]] = j
                        \/ root[creator[j]] = WorkspaceRoot /\ Live(creator[j], j)' = {}
    BY <1>1 DEF Tops
  <2>2. row[j].status # "free" /\ row[j].parent = WorkspaceRoot
    BY <1>1, <1>3, <2>1, ItemConstants
  <2>3. CASE root[creator[j]] = j
    BY <2>3
  <2>4. CASE root[creator[j]] = WorkspaceRoot /\ Live(creator[j], j) = {}
    <3>1. ASSUME NEW k \in Live(creator[j], j)' PROVE FALSE
      <4>1. k \in Ids /\ creator[k] = creator[j] /\ row'[k].status = "EXISTS" /\ row'[k].parent = j
        BY <1>1, <3>1 DEF Live
      <4>2. k # i
        BY <1>1, <2>4, <4>1
      <4>3. k \in Live(creator[j], j)
        BY <1>3, <4>1, <4>2 DEF Live
      <4> QED BY <2>4, <4>3
    <3> QED BY <2>4, <3>1
  <2> QED BY <2>1, <2>2, <2>3, <2>4 DEF ItemsAlone, ItemsWorld, Tops
<1> QED BY <1>1, <1>2, <1>4, <1>5, <1>6 DEF ItemsAlone, ItemsWorld, OneItemTask, ItemsDoing

\* A row that nobody had is right below a folder in use.
LEMMA InsertedWorld ==
    ASSUME ItemsFine, ItemsAlone, NEW i \in Ids, NEW r \in Columns, row[i].status = "free",
           r.status = "EXISTS", r.kind = "folder" \/ r.parent # WorkspaceRoot,
           r.parent \in Ids => row[r.parent].kind = "folder" /\ row[r.parent].status # "free",
           row' = [row EXCEPT ![i] = r], UNCHANGED <<creator, root, comeback>>,
           \A u \in Persons : Between(u) => Between(u)'
    PROVE  ItemsWorld' /\ creator[i] = NoOne /\ row'[i] = r
<1>1. \A j \in Ids : row'[j] = IF j = i THEN r ELSE row[j]
  BY DEF ItemsFine
<1>2. creator[i] = NoOne
  BY DEF ItemsAlone, ItemsWorld, Grounded
<1>3. Rooted'
  <2>1. \A v \in Persons : root[v] # WorkspaceRoot => root[v] \in Ids
    BY DEF ItemsFine
  <2>2. Rooted
    BY DEF ItemsAlone, ItemsWorld
  <2>3. \A v \in Persons : root[v] # WorkspaceRoot => root[v] # i
    BY <2>2 DEF Rooted
  <2> QED BY <1>1, <2>1, <2>2, <2>3 DEF Rooted
<1>4. Grounded'
  <2>1. Grounded
    BY DEF ItemsAlone, ItemsWorld
  <2>2. r.parent \in Ids => r.parent # i
    OBVIOUS
  <2> QED BY <1>1, <1>2, <2>1, <2>2 DEF Grounded
<1>5. Tops'
  <2>1. SUFFICES ASSUME NEW j \in Ids, row'[j].status # "free", row'[j].parent = WorkspaceRoot, creator[j] # NoOne
                 PROVE  \/ root[creator[j]] = j
                        \/ root[creator[j]] = WorkspaceRoot /\ Live(creator[j], j)' = {}
    BY DEF Tops
  <2>2. j # i /\ row[j].status # "free" /\ row[j].parent = WorkspaceRoot
    BY <1>1, <1>2, <2>1
  <2>3. CASE root[creator[j]] = WorkspaceRoot /\ Live(creator[j], j) = {}
    <3>1. ASSUME NEW k \in Live(creator[j], j)' PROVE FALSE
      <4>1. k \in Ids /\ creator[k] = creator[j] /\ row'[k].status = "EXISTS" /\ row'[k].parent = j
        BY <3>1 DEF Live
      <4>2. k # i
        BY <1>2, <2>1, <4>1
      <4>3. k \in Live(creator[j], j)
        BY <1>1, <4>1, <4>2 DEF Live
      <4> QED BY <2>3, <4>3
    <3> QED BY <2>3, <3>1
  <2> QED BY <2>1, <2>2, <2>3 DEF ItemsAlone, ItemsWorld, Tops
<1> QED BY <1>1, <1>2, <1>3, <1>4, <1>5 DEF ItemsAlone, ItemsWorld

LEMMA JoinsAlone ==
    ASSUME ItemsFine, OneByOne, ItemsAlone, NEW w \in work, Joins(w)
    PROVE  ItemsAlone'
<1>1. w \in ItemTask /\ w.user \in Persons /\ ItemDoing(w) /\ OneItemTask
  BY DEF ItemsFine, ItemTask, ItemsAlone, ItemsDoing
<1>2. CASE w.op = "joinFolder" /\ Inserts(w, "folder", WorkspaceRoot, "joinSeat") /\ UNCHANGED <<creator, root, comeback>>
  <2>1. PICK i \in Ids, r \in Columns :
            /\ row[i].status = "free" /\ r.kind = "folder" /\ r.parent = WorkspaceRoot /\ r.status = "EXISTS"
            /\ row' = [row EXCEPT ![i] = r] /\ GoesOn(w, "joinSeat", i)
    BY <1>2 DEF Inserts
  <2>2. PICK v \in ItemTask : v.op = "joinSeat" /\ v.id = i /\ v.user = w.user /\ work' = {v}
    BY <1>1, <2>1, GoneOn
  <2>3. OneItemTask' /\ work = {w}
    BY <1>1, <2>1, GoneOn
  <2>4. \A u \in Persons : ~ Between(u)
    BY <1>2, <2>3 DEF Between
  <2>5. ItemsWorld' /\ creator[i] = NoOne /\ row'[i] = r
    BY <1>2, <2>1, <2>4, ItemConstants, InsertedWorld
  <2>6. ItemDoing(v)' /\ v.op \notin EmptyOps
    BY <1>1, <1>2, <2>1, <2>2, <2>5 DEF ItemDoing, EmptyOps, LeavingOps
  <2> QED BY <2>2, <2>3, <2>5, <2>6 DEF ItemsAlone, ItemsDoing
<1>3. CASE /\ w.op = "joinSeat" /\ root' = [root EXCEPT ![w.user] = w.id]
           /\ (\A i \in Ids : creator[i] # w.user) => comeback' = comeback
           /\ GoesOn(w, "joinItem", w.id) /\ UNCHANGED <<row, creator>>
  <2>1. PICK v \in ItemTask : v.op = "joinItem" /\ v.id = w.id /\ v.user = w.user /\ work' = {v}
    BY <1>1, <1>3, GoneOn
  <2>2. OneItemTask' /\ work = {w}
    BY <1>1, <1>3, GoneOn
  <2>3. /\ w.user # Owner /\ \A i \in Ids : creator[i] # w.user
        /\ w.id \in Ids /\ creator[w.id] = NoOne /\ root[w.user] = WorkspaceRoot
        /\ row[w.id].kind = "folder" /\ row[w.id].status = "EXISTS" /\ row[w.id].parent = WorkspaceRoot
    BY <1>1, <1>3 DEF ItemDoing
  <2>4. comeback' = comeback
    BY <1>3, <2>3
  <2>5. \A u \in Persons : root'[u] = IF u = w.user THEN w.id ELSE root[u]
    BY <1>3 DEF ItemsFine
  <2>6. Between(w.user)' /\ \A u \in Persons : ~ Between(u)
    BY <1>3, <2>1, <2>2 DEF Between
  <2>7. Rooted'
    BY <1>3, <2>3, <2>5, <2>6, ItemConstants DEF ItemsAlone, ItemsWorld, Rooted, Persons
  <2>8. Grounded'
    BY <1>3 DEF ItemsAlone, ItemsWorld, Grounded
  <2>9. Tops'
    <3>1. \A i \in Ids : creator[i] # NoOne => creator[i] \in Persons /\ root'[creator[i]] = root[creator[i]]
      BY <2>3, <2>5 DEF ItemsFine
    <3>2. \A c, j : Live(c, j)' = Live(c, j)
      BY <1>3 DEF Live
    <3> QED BY <1>3, <3>1, <3>2 DEF ItemsAlone, ItemsWorld, Tops
  <2>10. ItemDoing(v)' /\ v.op \notin EmptyOps
    BY <1>1, <1>3, <2>1, <2>3, <2>5 DEF ItemDoing, EmptyOps, LeavingOps
  <2> QED BY <2>1, <2>2, <2>4, <2>7, <2>8, <2>9, <2>10 DEF ItemsAlone, ItemsDoing, ItemsWorld
<1>4. CASE /\ w.op = "joinItem" /\ creator' = [creator EXCEPT ![w.id] = w.user] /\ Ends(w)
           /\ UNCHANGED <<row, root, comeback>>
  <2>1. work = {w} /\ work' = {} /\ OneItemTask' /\ ItemsDoing'
    BY <1>1, <1>4, LastTask
  <2>2. /\ w.user # Owner /\ \A i \in Ids : creator[i] # w.user
        /\ w.id \in Ids /\ creator[w.id] = NoOne /\ root[w.user] = w.id
        /\ row[w.id].kind = "folder" /\ row[w.id].status = "EXISTS" /\ row[w.id].parent = WorkspaceRoot
    BY <1>1, <1>4 DEF ItemDoing
  <2>3. \A i \in Ids : creator'[i] = IF i = w.id THEN w.user ELSE creator[i]
    BY <1>4 DEF ItemsFine
  <2>4. \A u \in Persons : Between(u) => u = w.user
    BY <2>1 DEF Between
  <2>5. Rooted'
    <3>1. Rooted /\ \A u \in Persons : root[u] # WorkspaceRoot => root[u] \in Ids
      BY DEF ItemsAlone, ItemsWorld, ItemsFine
    <3>2. \A u \in Persons : u # w.user /\ root[u] # WorkspaceRoot => creator[root[u]] = u /\ root[u] # w.id
      BY <2>2, <2>4, <3>1, ItemConstants DEF Rooted
    <3> QED BY <1>4, <2>2, <2>3, <3>1, <3>2 DEF Rooted
  <2>6. Grounded'
    BY <1>4, <2>2, <2>3 DEF ItemsAlone, ItemsWorld, Grounded
  <2>7. Tops'
    <3>1. SUFFICES ASSUME NEW j \in Ids, row[j].status # "free", row[j].parent = WorkspaceRoot,
                          NEW c, c = creator'[j], c # NoOne
                   PROVE  root[c] = j \/ (root[c] = WorkspaceRoot /\ Live(c, j)' = {})
      BY <1>4 DEF Tops
    <3>2. CASE j = w.id
      BY <2>2, <2>3, <3>1, <3>2
    <3>3. CASE j # w.id /\ root[c] = WorkspaceRoot /\ Live(c, j) = {}
      <4>1. ASSUME NEW k \in Live(c, j)' PROVE FALSE
        <5>1. k \in Ids /\ creator'[k] = c /\ row[k].status = "EXISTS" /\ row[k].parent = j
          BY <1>4, <4>1 DEF Live
        <5>2. k # w.id
          BY <2>2, <5>1, ItemConstants
        <5>3. k \in Live(c, j)
          BY <2>3, <3>3, <5>1, <5>2 DEF Live
        <5> QED BY <3>3, <5>3
      <4> QED BY <3>3, <4>1
    <3>4. CASE j # w.id
      <4>1. creator[j] = c
        BY <2>3, <3>1, <3>4
      <4>2. root[c] = j \/ (root[c] = WorkspaceRoot /\ Live(c, j) = {})
        BY <3>1, <4>1 DEF ItemsAlone, ItemsWorld, Tops
      <4> QED BY <3>3, <3>4, <4>2
    <3> QED BY <3>2, <3>4
  <2> QED BY <1>4, <2>1, <2>5, <2>6, <2>7 DEF ItemsAlone, ItemsWorld
<1>5. CASE /\ w.op = "joinItem" /\ root' = [root EXCEPT ![w.user] = WorkspaceRoot] /\ Ends(w)
           /\ UNCHANGED <<row, creator, comeback>>
  <2>1. work = {w} /\ work' = {} /\ OneItemTask' /\ ItemsDoing'
    BY <1>1, <1>5, LastTask
  <2>2. w.user # Owner /\ \A i \in Ids : creator[i] # w.user
    BY <1>1, <1>5 DEF ItemDoing
  <2>3. \A u \in Persons : root'[u] = IF u = w.user THEN WorkspaceRoot ELSE root[u]
    BY <1>5 DEF ItemsFine
  <2>4. \A u \in Persons : Between(u) => u = w.user
    BY <2>1 DEF Between
  <2>5. Rooted'
    BY <1>5, <2>2, <2>3, <2>4, ItemConstants DEF ItemsAlone, ItemsWorld, Rooted, Persons
  <2>6. Grounded'
    BY <1>5 DEF ItemsAlone, ItemsWorld, Grounded
  <2>7. Tops'
    <3>1. \A i \in Ids : creator[i] # NoOne => creator[i] \in Persons /\ root'[creator[i]] = root[creator[i]]
      BY <2>2, <2>3 DEF ItemsFine
    <3>2. \A c, j : Live(c, j)' = Live(c, j)
      BY <1>5 DEF Live
    <3> QED BY <1>5, <3>1, <3>2 DEF ItemsAlone, ItemsWorld, Tops
  <2> QED BY <1>5, <2>1, <2>5, <2>6, <2>7 DEF ItemsAlone, ItemsWorld
<1> QED BY <1>2, <1>3, <1>4, <1>5 DEF Joins

LEMMA CreatesAlone ==
    ASSUME ItemsFine, OneByOne, ItemsAlone, NEW w \in work, Creates(w)
    PROVE  ItemsAlone'
<1>1. w \in ItemTask /\ w.user \in Persons /\ ItemDoing(w) /\ OneItemTask
  BY DEF ItemsFine, ItemTask, ItemsAlone, ItemsDoing
<1>2. CASE /\ w.op \in {"insertFile", "insertFolder"} /\ Inserts(w, w.kind, w.id, "insertItem")
           /\ UNCHANGED <<creator, root, comeback>>
  <2>1. PICK i \in Ids, r \in Columns :
            /\ row[i].status = "free" /\ r.parent = w.id /\ r.status = "EXISTS"
            /\ row' = [row EXCEPT ![i] = r] /\ GoesOn(w, "insertItem", i)
    BY <1>2 DEF Inserts
  <2>2. PICK v \in ItemTask : v.op = "insertItem" /\ v.id = i /\ v.user = w.user /\ work' = {v}
    BY <1>1, <2>1, GoneOn
  <2>3. OneItemTask' /\ work = {w}
    BY <1>1, <2>1, GoneOn
  <2>4. \A u \in Persons : ~ Between(u)
    BY <1>2, <2>3 DEF Between
  <2>5. root[w.user] # WorkspaceRoot /\ w.id \in Ids /\ creator[w.id] = w.user /\ row[w.id].kind = "folder"
    BY <1>1, <1>2 DEF ItemDoing
  <2>6. row[w.id].status # "free"
    BY <1>1, <2>5, ItemConstants DEF ItemsAlone, ItemsWorld, Grounded
  <2>7. ItemsWorld' /\ creator[i] = NoOne /\ row'[i] = r
    BY <1>2, <2>1, <2>4, <2>5, <2>6, ItemConstants, InsertedWorld
  <2>8. ItemDoing(v)' /\ v.op \notin EmptyOps
    BY <1>2, <2>1, <2>2, <2>5, <2>7 DEF ItemDoing, EmptyOps, LeavingOps
  <2> QED BY <2>2, <2>3, <2>7, <2>8 DEF ItemsAlone, ItemsDoing
<1>3. CASE /\ w.op = "insertItem" /\ creator' = [creator EXCEPT ![w.id] = w.user] /\ Ends(w)
           /\ UNCHANGED <<row, root, comeback>>
  <2>1. work = {w} /\ work' = {} /\ OneItemTask' /\ ItemsDoing'
    BY <1>1, <1>3, LastTask
  <2>2. /\ root[w.user] # WorkspaceRoot /\ w.id \in Ids /\ creator[w.id] = NoOne
        /\ row[w.id].status = "EXISTS" /\ row[w.id].parent \in Ids
    BY <1>1, <1>3 DEF ItemDoing
  <2>3. \A i \in Ids : creator'[i] = IF i = w.id THEN w.user ELSE creator[i]
    BY <1>3 DEF ItemsFine
  <2>4. \A u \in Persons : ~ Between(u)
    BY <1>3, <2>1 DEF Between
  <2>5. Rooted'
    <3>1. Rooted /\ \A u \in Persons : root[u] # WorkspaceRoot => root[u] \in Ids
      BY DEF ItemsAlone, ItemsWorld, ItemsFine
    <3>2. \A u \in Persons : root[u] # WorkspaceRoot => creator[root[u]] = u /\ root[u] # w.id
      BY <2>2, <2>4, <3>1, ItemConstants DEF Rooted
    <3> QED BY <1>3, <2>3, <3>1, <3>2 DEF Rooted
  <2>6. Grounded'
    BY <1>3, <2>2, <2>3 DEF ItemsAlone, ItemsWorld, Grounded
  <2>7. Tops'
    <3>1. SUFFICES ASSUME NEW j \in Ids, row[j].status # "free", row[j].parent = WorkspaceRoot,
                          NEW c, c = creator'[j], c # NoOne
                   PROVE  root[c] = j \/ (root[c] = WorkspaceRoot /\ Live(c, j)' = {})
      BY <1>3 DEF Tops
    <3>2. j # w.id /\ creator[j] = c
      BY <2>2, <2>3, <3>1, ItemConstants
    <3>3. root[c] = j \/ (root[c] = WorkspaceRoot /\ Live(c, j) = {})
      BY <3>1, <3>2 DEF ItemsAlone, ItemsWorld, Tops
    <3>4. CASE root[c] = WorkspaceRoot /\ Live(c, j) = {}
      <4>1. ASSUME NEW k \in Live(c, j)' PROVE FALSE
        <5>1. k \in Ids /\ creator'[k] = c /\ row[k].status = "EXISTS" /\ row[k].parent = j
          BY <1>3, <4>1 DEF Live
        <5>2. k # w.id
          BY <2>2, <2>3, <3>4, <5>1
        <5>3. k \in Live(c, j)
          BY <2>3, <5>1, <5>2 DEF Live
        <5> QED BY <3>4, <5>3
      <4> QED BY <3>4, <4>1
    <3> QED BY <3>3, <3>4
  <2> QED BY <1>3, <2>1, <2>5, <2>6, <2>7 DEF ItemsAlone, ItemsWorld
<1> QED BY <1>2, <1>3 DEF Creates

LEMMA LeavesAlone ==
    ASSUME ItemsFine, OneByOne, ItemsAlone, NEW w \in work, Leaves(w)
    PROVE  ItemsAlone'
<1>1. w \in ItemTask /\ w.user \in Persons /\ ItemDoing(w) /\ OneItemTask
  BY DEF ItemsFine, ItemTask, ItemsAlone, ItemsDoing
<1>2. w.user # Owner /\ w.id \in Ids /\ root[w.user] = w.id
  BY <1>1 DEF Leaves, LeavingOps, ItemDoing
<1>3. CASE /\ w.op = "leaveLooks" /\ Live(w.user, w.id) = {}
           /\ GoesOn(w, "leaveSeat", w.id) /\ UNCHANGED <<row, creator, root, comeback>>
  <2>1. PICK v \in ItemTask : v.op = "leaveSeat" /\ v.id = w.id /\ v.user = w.user /\ work' = {v}
    BY <1>1, <1>3, GoneOn
  <2>2. OneItemTask' /\ work = {w}
    BY <1>1, <1>3, GoneOn
  <2>3. \A u \in Persons : ~ Between(u)
    BY <1>3, <2>2 DEF Between
  <2>4. ItemsWorld'
    BY <1>3, <2>3, WorldSame DEF ItemsAlone
  <2>5. ItemDoing(v)' /\ v.op \notin EmptyOps
    BY <1>2, <1>3, <2>1 DEF ItemDoing, EmptyOps, LeavingOps, Live
  <2> QED BY <2>1, <2>2, <2>4, <2>5 DEF ItemsAlone, ItemsDoing
<1>4. CASE /\ w.op = "leaveLooks" /\ row[w.id].status \in {"EXISTS", "TRASHED"}
           /\ \E r \in Columns :
                 /\ r.kind = "folder" /\ r.parent = OwnerRoot /\ r.status = "EXISTS"
                 /\ row' = [row EXCEPT ![w.id] = r]
           /\ GoesOn(w, "leaveRows", w.id) /\ UNCHANGED <<creator, root, comeback>>
  <2>1. PICK v \in ItemTask : v.op = "leaveRows" /\ v.id = w.id /\ v.user = w.user /\ work' = {v}
    BY <1>1, <1>4, GoneOn
  <2>2. OneItemTask' /\ work = {w}
    BY <1>1, <1>4, GoneOn
  <2>3. \A u \in Persons : ~ Between(u)
    BY <1>4, <2>2 DEF Between
  <2>4. PICK r \in Columns : /\ r.kind = "folder" /\ r.parent = OwnerRoot /\ r.status = "EXISTS"
                             /\ row' = [row EXCEPT ![w.id] = r]
    BY <1>4
  <2>5. \A j \in Ids : row'[j] = IF j = w.id THEN r ELSE row[j]
    BY <2>4 DEF ItemsFine
  <2>6. Rooted /\ Grounded /\ Tops
    BY DEF ItemsAlone, ItemsWorld
  <2>7. creator[w.id] = w.user /\ row[w.id].kind = "folder"
    BY <1>1, <1>2, <2>3, <2>6, ItemConstants DEF Rooted
  <2>8. row[OwnerRoot].kind = "folder" /\ row[OwnerRoot].status # "free"
    BY <2>6, ItemConstants DEF Rooted, Persons
  <2>9. Rooted'
    <3>1. \A u \in Persons : root[u] # WorkspaceRoot => root[u] \in Ids
      BY DEF ItemsFine
    <3> QED BY <1>4, <2>3, <2>4, <2>5, <2>6, <3>1 DEF Rooted
  <2>10. Grounded'
    BY <1>4, <2>4, <2>5, <2>6, <2>7, <2>8, ItemConstants DEF Grounded
  <2>11. Tops'
    <3>1. SUFFICES ASSUME NEW j \in Ids, row'[j].status # "free", row'[j].parent = WorkspaceRoot,
                          NEW c, c = creator[j], c # NoOne
                   PROVE  root[c] = j \/ (root[c] = WorkspaceRoot /\ Live(c, j)' = {})
      BY <1>4 DEF Tops
    <3>2. j # w.id
      BY <2>4, <2>5, <3>1, ItemConstants
    <3>3. root[c] = j \/ (root[c] = WorkspaceRoot /\ Live(c, j) = {})
      BY <2>5, <2>6, <3>1, <3>2 DEF Tops
    <3>4. CASE root[c] = WorkspaceRoot /\ Live(c, j) = {}
      <4>1. ASSUME NEW k \in Live(c, j)' PROVE FALSE
        <5>1. k \in Ids /\ creator[k] = c /\ row'[k].status = "EXISTS" /\ row'[k].parent = j
          BY <1>4, <4>1 DEF Live
        <5>2. k # w.id
          BY <1>2, <2>7, <3>4, <5>1, ItemConstants
        <5>3. k \in Live(c, j)
          BY <2>5, <5>1, <5>2 DEF Live
        <5> QED BY <3>4, <5>3
      <4> QED BY <3>4, <4>1
    <3> QED BY <3>3, <3>4
  <2>12. ItemDoing(v)' /\ v.op \notin EmptyOps
    BY <1>2, <1>4, <2>1, <2>4, <2>5 DEF ItemDoing, EmptyOps, LeavingOps
  <2>13. comeback' = {}
    BY <1>4 DEF ItemsAlone, ItemsWorld
  <2> QED BY <2>1, <2>2, <2>9, <2>10, <2>11, <2>12, <2>13 DEF ItemsAlone, ItemsWorld, ItemsDoing
<1>5. CASE w.op = "leaveLooks" /\ Ends(w) /\ UNCHANGED <<row, creator, root, comeback>>
  <2>1. work = {w} /\ work' = {} /\ OneItemTask' /\ ItemsDoing'
    BY <1>1, <1>5, LastTask
  <2>2. \A u \in Persons : ~ Between(u)
    BY <1>5, <2>1 DEF Between
  <2> QED BY <1>5, <2>1, <2>2, WorldSame DEF ItemsAlone
<1>6. CASE /\ w.op = "leaveRows"
           /\ creator' = [i \in DOMAIN creator |-> IF creator[i] = w.user THEN Owner ELSE creator[i]]
           /\ GoesOn(w, "leaveSeat", w.id) /\ UNCHANGED <<row, root, comeback>>
  <2>1. PICK v \in ItemTask : v.op = "leaveSeat" /\ v.id = w.id /\ v.user = w.user /\ work' = {v}
    BY <1>1, <1>6, GoneOn
  <2>2. OneItemTask' /\ work = {w}
    BY <1>1, <1>6, GoneOn
  <2>3. \A i \in Ids : creator'[i] = IF creator[i] = w.user THEN Owner ELSE creator[i]
    BY <1>6 DEF ItemsFine
  <2>4. Between(w.user)'
    BY <2>1 DEF Between
  <2>5. \A u \in Persons : ~ Between(u)
    BY <1>6, <2>2 DEF Between
  <2>6. Rooted /\ Grounded /\ Tops /\ row[w.id].parent = OwnerRoot
    BY <1>1, <1>6 DEF ItemsAlone, ItemsWorld, ItemDoing
  <2>7. Rooted'
    <3>1. \A u \in Persons : root[u] # WorkspaceRoot => root[u] \in Ids
      BY DEF ItemsFine
    <3> QED BY <1>6, <2>3, <2>4, <2>5, <2>6, <3>1 DEF Rooted
  <2>8. Grounded'
    BY <1>1, <1>6, <2>3, <2>6, ItemConstants DEF Grounded
  <2>9. Tops'
    <3>1. SUFFICES ASSUME NEW j \in Ids, row[j].status # "free", row[j].parent = WorkspaceRoot,
                          NEW c, c = creator'[j], c # NoOne
                   PROVE  root[c] = j \/ (root[c] = WorkspaceRoot /\ Live(c, j)' = {})
      BY <1>6 DEF Tops
    <3>2. creator[j] # w.user
      <4>1. ASSUME creator[j] = w.user PROVE FALSE
        <5>1. root[w.user] = j
          BY <1>1, <1>2, <2>6, <3>1, <4>1, ItemConstants DEF Tops
        <5> QED BY <1>2, <2>6, <3>1, <5>1, ItemConstants
      <4> QED BY <4>1
    <3>3. creator[j] = c
      BY <2>3, <3>1, <3>2
    <3>4. root[c] = j \/ (root[c] = WorkspaceRoot /\ Live(c, j) = {})
      BY <2>6, <3>1, <3>3 DEF Tops
    <3>5. CASE root[c] = WorkspaceRoot /\ Live(c, j) = {}
      <4>1. c # Owner
        BY <2>6, <3>5, ItemConstants DEF Rooted
      <4>2. ASSUME NEW k \in Live(c, j)' PROVE FALSE
        <5>1. k \in Ids /\ creator'[k] = c /\ row[k].status = "EXISTS" /\ row[k].parent = j
          BY <1>6, <4>2 DEF Live
        <5>2. k \in Live(c, j)
          BY <2>3, <4>1, <5>1 DEF Live
        <5> QED BY <3>5, <5>2
      <4> QED BY <3>5, <4>2
    <3> QED BY <3>4, <3>5
  <2>10. Live(w.user, w.id)' = {}
    BY <1>2, <2>3 DEF Live
  <2>11. ItemDoing(v)' /\ v.op \notin EmptyOps
    BY <1>2, <1>6, <2>1, <2>10 DEF ItemDoing, EmptyOps, LeavingOps
  <2>12. comeback' = {}
    BY <1>6 DEF ItemsAlone, ItemsWorld
  <2> QED BY <2>1, <2>2, <2>7, <2>8, <2>9, <2>11, <2>12 DEF ItemsAlone, ItemsWorld, ItemsDoing
<1>7. CASE /\ w.op = "leaveSeat" /\ root' = [root EXCEPT ![w.user] = WorkspaceRoot]
           /\ Ends(w) /\ UNCHANGED <<row, creator, comeback>>
  <2>1. work = {w} /\ work' = {} /\ OneItemTask' /\ ItemsDoing'
    BY <1>1, <1>7, LastTask
  <2>2. \A u \in Persons : root'[u] = IF u = w.user THEN WorkspaceRoot ELSE root[u]
    BY <1>7 DEF ItemsFine
  <2>3. \A u \in Persons : Between(u) => u = w.user
    BY <2>1 DEF Between
  <2>4. Rooted /\ Grounded /\ Tops /\ Live(w.user, w.id) = {}
    BY <1>1, <1>7 DEF ItemsAlone, ItemsWorld, ItemDoing
  <2>5. Rooted'
    BY <1>2, <1>7, <2>2, <2>3, <2>4, ItemConstants DEF Rooted, Persons
  <2>6. Grounded'
    BY <1>7, <2>4 DEF Grounded
  <2>7. Tops'
    <3>1. \A c, j : Live(c, j)' = Live(c, j)
      BY <1>7 DEF Live
    <3>2. SUFFICES ASSUME NEW j \in Ids, row[j].status # "free", row[j].parent = WorkspaceRoot,
                          NEW c \in Persons, c = creator[j]
                   PROVE  root'[c] = j \/ (root'[c] = WorkspaceRoot /\ Live(c, j) = {})
      BY <1>7, <3>1 DEF Tops, ItemsFine
    <3>3. root[c] = j \/ (root[c] = WorkspaceRoot /\ Live(c, j) = {})
      BY <2>4, <3>2, ItemConstants DEF Tops
    <3> QED BY <1>2, <2>2, <2>4, <3>3
  <2>8. comeback' = {}
    BY <1>7 DEF ItemsAlone, ItemsWorld
  <2> QED BY <2>1, <2>5, <2>6, <2>7, <2>8 DEF ItemsAlone, ItemsWorld
<1> QED BY <1>3, <1>4, <1>5, <1>6, <1>7 DEF Leaves, OneByOne

----------------------------------------------------------------------------
(* Emptying the trash.                                                     *)

LEMMA FiniteOfKind ==
    ASSUME NEW S \in SUBSET Ids, NEW k
    PROVE  IsFiniteSet(OfKind(S, k)) /\ Cardinality(OfKind(S, k)) \in Nat
<1>1. OfKind(S, k) \subseteq Ids
  BY DEF OfKind
<1>2. IsFiniteSet(OfKind(S, k))
  BY <1>1, ItemConstants, FS_Subset
<1> QED BY <1>2, FS_CardinalityType

\* More reported is not less than enough.
LEMMA EnoughStays ==
    ASSUME NEW w \in ItemTask, NEW v \in ItemTask, NEW k, Enough(w, k), v.before = w.before,
           w.reported \subseteq v.reported, UNCHANGED row
    PROVE  Enough(v, k)'
<1>1. CASE OfKind(w.before, k) \subseteq w.reported
  BY <1>1 DEF Enough, OfKind
<1>2. CASE Cardinality(OfKind(w.reported, k)) >= Chunk
  <2>1. PICK A, B : A = OfKind(w.reported, k) /\ B = OfKind(v.reported, k)
    OBVIOUS
  <2>2. A \subseteq B
    BY <2>1 DEF OfKind
  <2>3. IsFiniteSet(B) /\ Cardinality(B) \in Nat /\ Cardinality(A) \in Nat
    BY <2>1, FiniteOfKind DEF ItemTask
  <2>4. Cardinality(A) <= Cardinality(B)
    BY <2>2, <2>3, FS_Subset
  <2>5. Cardinality(B) >= Chunk
    BY <1>2, <2>1, <2>3, <2>4, ItemConstants
  <2>6. OfKind(v.reported, k)' = B
    BY <2>1 DEF OfKind
  <2> QED BY <2>5, <2>6 DEF Enough
<1> QED BY <1>1, <1>2 DEF Enough

LEMMA ReadsAlone ==
    ASSUME ItemsFine, OneByOne, ItemsAlone, NEW w \in work, Reads(w)
    PROVE  ItemsAlone'
<1>1. /\ w \in ItemTask /\ w.op = "empty" /\ w.kind \in Kinds /\ w.page \in Nat
      /\ EmptyDoing(w) /\ OneItemTask /\ Recorded(w) /\ UNCHANGED <<row, creator, root, comeback>>
  BY DEF ItemsFine, ItemTask, ItemsAlone, ItemsDoing, EmptyOps, Reads
<1>2. PICK items \in SUBSET Ids, v \in ItemTask :
          /\ items \subseteq OfKind(TrashOf(w.user), w.kind)
          /\ w.page = 0 => items = OfKind(TrashOf(w.user), w.kind) \/ Cardinality(items) >= Chunk
          /\ v.op = "empty" /\ v.user = w.user /\ v.kind = w.kind /\ v.page > 0 /\ v.counts = w.counts
          /\ v.deleting = w.deleting \cup items /\ v.reported = w.reported \cup items
          /\ v.before = w.before
          /\ work' = (work \ {w}) \cup {v}
  BY DEF Reads
<1>3. work = {w} /\ work' = {v}
  BY <1>1, <1>2, OnlyTask
<1>4. ItemsWorld'
  <2>1. \A u \in Persons : ~ Between(u)
    BY <1>1, <1>3 DEF Between
  <2> QED BY <1>1, <2>1, WorldSame DEF ItemsAlone
<1>5. ItemDoing(v)'
  BY <1>2 DEF ItemDoing, LeavingOps
<1>6. EmptyDoing(v)'
  <2>1. items \subseteq w.before /\ \A i \in items : row[i].status = "TRASHED" /\ row[i].kind = w.kind
    BY <1>1, <1>2 DEF EmptyDoing, TrashOf, OfKind
  <2>2. v.deleting \subseteq v.reported /\ v.reported \subseteq v.before
    BY <1>1, <1>2, <2>1 DEF EmptyDoing
  <2>3. \A i \in v.before : creator[i] = v.user /\ (i \in v.reported \ v.deleting \/ row[i].status = "TRASHED")
    BY <1>1, <1>2, <2>1 DEF EmptyDoing
  <2>4. TrashOf(v.user)' \subseteq v.before
    BY <1>1, <1>2 DEF EmptyDoing, TrashOf
  <2>5. /\ v.counts.folder = Cardinality(OfKind(v.before, "folder")')
        /\ v.counts.file = Cardinality(OfKind(v.before, "file")')
    BY <1>1, <1>2 DEF EmptyDoing, OfKind
  <2>6. v.kind = "folder" => OfKind(v.reported, "file")' = {}
    BY <1>1, <1>2, <2>1 DEF EmptyDoing, OfKind
  <2>7. v.page # 0
    BY <1>2
  <2>8. Enough(v, v.kind)'
    <3>1. CASE w.page # 0
      BY <1>1, <1>2, <3>1, EnoughStays DEF EmptyDoing
    <3>2. CASE w.page = 0 /\ items = OfKind(TrashOf(w.user), w.kind)
      <4>1. ASSUME NEW i \in OfKind(v.before, v.kind)' PROVE i \in v.reported
        <5>1. i \in w.before /\ row[i].kind = w.kind /\ i \in Ids
          BY <1>1, <1>2, <4>1 DEF OfKind, ItemTask
        <5>2. CASE i \in w.reported
          BY <1>2, <5>2
        <5>3. CASE row[i].status = "TRASHED"
          BY <1>1, <1>2, <3>2, <5>1, <5>3 DEF EmptyDoing, TrashOf, OfKind
        <5> QED BY <1>1, <5>1, <5>2, <5>3 DEF EmptyDoing
      <4> QED BY <4>1 DEF Enough
    <3>3. CASE Cardinality(items) >= Chunk
      <4>1. PICK B : B = OfKind(v.reported, v.kind)'
        OBVIOUS
      <4>2. items \subseteq B
        BY <1>1, <1>2, <2>1, <4>1 DEF OfKind
      <4>3. B = OfKind(v.reported, v.kind)
        BY <1>1, <4>1 DEF OfKind
      <4>4. IsFiniteSet(B) /\ Cardinality(B) \in Nat
        BY <4>3, FiniteOfKind DEF ItemTask
      <4>5. Cardinality(items) <= Cardinality(B) /\ IsFiniteSet(items)
        BY <4>2, <4>4, FS_Subset
      <4>6. Cardinality(items) \in Nat
        BY <4>5, FS_CardinalityType
      <4>7. Cardinality(B) >= Chunk
        BY <3>3, <4>4, <4>5, <4>6, ItemConstants
      <4> QED BY <4>1, <4>7 DEF Enough
    <3> QED BY <1>2, <3>1, <3>2, <3>3
  <2>9. v.kind = "file" => Enough(v, "folder")'
    <3>1. w.reported \subseteq v.reported
      BY <1>2
    <3>2. v.kind = "file" => Enough(w, "folder")
      BY <1>1, <1>2 DEF EmptyDoing
    <3> QED BY <1>1, <1>2, <3>1, <3>2, EnoughStays
  <2>10. v.op # "emptied"
    BY <1>2
  <2>11. \A i \in v.before : creator'[i] = v.user /\ (i \in v.reported \ v.deleting \/ row'[i].status = "TRASHED")
    BY <1>1, <2>3
  <2> QED BY <2>2, <2>4, <2>5, <2>6, <2>7, <2>8, <2>9, <2>10, <2>11 DEF EmptyDoing
<1> QED BY <1>3, <1>4, <1>5, <1>6 DEF ItemsAlone, OneItemTask, ItemsDoing

LEMMA DeletesAlone ==
    ASSUME ItemsFine, OneByOne, ItemsAlone, NEW w \in work, Deletes(w)
    PROVE  ItemsAlone'
<1>1. /\ w \in ItemTask /\ w.op = "empty" /\ EmptyDoing(w) /\ OneItemTask
      /\ UNCHANGED <<creator, root, comeback>>
  BY DEF ItemsFine, ItemTask, ItemsAlone, ItemsDoing, EmptyOps, Deletes
<1>2. PICK i \in w.deleting, r \in Columns, v \in ItemTask :
          /\ r.kind = row[i].kind /\ r.parent = row[i].parent /\ r.status = "DELETED"
          /\ row' = [row EXCEPT ![i] = r]
          /\ v.op = "empty" /\ v.user = w.user /\ v.kind = w.kind /\ v.page = w.page /\ v.counts = w.counts
          /\ v.deleting = w.deleting \ {i} /\ v.reported = w.reported /\ v.before = w.before
          /\ work' = (work \ {w}) \cup {v}
  BY DEF Deletes
<1>3. work = {w} /\ work' = {v}
  BY <1>1, <1>2, OnlyTask
<1>4. i \in Ids /\ i \in w.before /\ i \in w.reported /\ w.before \subseteq Ids /\ w.reported \subseteq Ids
  BY <1>1, <1>2 DEF EmptyDoing, ItemTask
<1>5. \A j \in Ids : row'[j] = IF j = i THEN r ELSE row[j]
  BY <1>2 DEF ItemsFine
<1>6. row[i].status = "TRASHED"
  BY <1>1, <1>2, <1>4 DEF EmptyDoing
<1>7. \A u \in Persons : ~ Between(u)
  BY <1>1, <1>3 DEF Between
<1>8. Rooted'
  <2>1. \A u \in Persons : root[u] # WorkspaceRoot => root[u] \in Ids
    BY DEF ItemsFine
  <2> QED BY <1>1, <1>2, <1>5, <1>7, <2>1 DEF ItemsAlone, ItemsWorld, Rooted
<1>9. Grounded'
  BY <1>1, <1>2, <1>5, <1>6 DEF ItemsAlone, ItemsWorld, Grounded
<1>10. Tops'
  <2>1. \A c, j : Live(c, j)' \subseteq Live(c, j)
    BY <1>1, <1>2, <1>5 DEF Live
  <2>2. SUFFICES ASSUME NEW j \in Ids, row'[j].status # "free", row'[j].parent = WorkspaceRoot,
                        NEW c, c = creator[j], c # NoOne
                 PROVE  root[c] = j \/ (root[c] = WorkspaceRoot /\ Live(c, j)' = {})
    BY <1>1 DEF Tops
  <2>3. row[j].status # "free" /\ row[j].parent = WorkspaceRoot
    BY <1>2, <1>5, <1>6, <2>2
  <2>4. root[c] = j \/ (root[c] = WorkspaceRoot /\ Live(c, j) = {})
    BY <2>2, <2>3 DEF ItemsAlone, ItemsWorld, Tops
  <2> QED BY <2>1, <2>4
<1>11. ItemDoing(v)'
  BY <1>2 DEF ItemDoing, LeavingOps
<1>12. EmptyDoing(v)'
  <2>1. \A k, S : S \subseteq Ids => OfKind(S, k)' = OfKind(S, k)
    BY <1>2, <1>5 DEF OfKind
  <2>2. v.deleting \subseteq v.reported /\ v.reported \subseteq v.before
    BY <1>1, <1>2 DEF EmptyDoing
  <2>3. \A j \in v.before : creator'[j] = v.user /\ (j \in v.reported \ v.deleting \/ row'[j].status = "TRASHED")
    BY <1>1, <1>2, <1>4, <1>5 DEF EmptyDoing
  <2>4. TrashOf(v.user)' \subseteq v.before
    BY <1>1, <1>2, <1>5 DEF EmptyDoing, TrashOf
  <2>5. v.before \subseteq Ids /\ v.reported \subseteq Ids
    BY <1>2, <1>4
  <2>6. \A k : Enough(w, k) => Enough(v, k)'
    BY <1>2, <2>1, <2>5 DEF Enough
  <2>7. \A k : OfKind(v.before, k)' = OfKind(w.before, k) /\ OfKind(v.reported, k)' = OfKind(w.reported, k)
    BY <1>2, <2>1, <2>5
  <2> QED BY <1>1, <1>2, <2>2, <2>3, <2>4, <2>6, <2>7 DEF EmptyDoing
<1>13. comeback' = {}
  BY <1>1 DEF ItemsAlone, ItemsWorld
<1> QED BY <1>3, <1>8, <1>9, <1>10, <1>11, <1>12, <1>13 DEF ItemsAlone, ItemsWorld, OneItemTask, ItemsDoing

LEMMA TurnsAlone ==
    ASSUME ItemsFine, OneByOne, ItemsAlone, NEW w \in work, Turns(w)
    PROVE  ItemsAlone'
<1>1. /\ w \in ItemTask /\ w.op = "empty" /\ w.kind \in Kinds /\ w.page \in Nat /\ w.before \subseteq Ids
      /\ EmptyDoing(w) /\ OneItemTask
      /\ w.deleting = {} /\ w.page >= w.counts[w.kind] /\ UNCHANGED <<row, creator, root, comeback>>
  BY DEF ItemsFine, ItemTask, ItemsAlone, ItemsDoing, EmptyOps, Turns
<1>2. PICK v \in ItemTask :
          /\ \/ w.kind = "folder" /\ v.op = "empty" /\ v.kind = "file" /\ v.page = 0
             \/ w.kind = "file" /\ v.op = "emptied" /\ v.kind = "file"
          /\ v.user = w.user /\ v.counts = w.counts
          /\ v.deleting = {} /\ v.reported = w.reported /\ v.before = w.before
          /\ work' = (work \ {w}) \cup {v}
  BY DEF Turns
<1>3. work = {w} /\ work' = {v}
  BY <1>1, <1>2, OnlyTask
<1>4. ItemsWorld'
  <2>1. \A u \in Persons : ~ Between(u)
    BY <1>1, <1>3 DEF Between
  <2> QED BY <1>1, <2>1, WorldSame DEF ItemsAlone
<1>5. ItemDoing(v)'
  BY <1>2 DEF ItemDoing, LeavingOps
<1>6. Enough(w, w.kind)
  <2>1. CASE w.page # 0
    BY <1>1, <2>1 DEF EmptyDoing
  <2>2. CASE w.page = 0
    <3>1. w.counts[w.kind] \in Nat /\ w.counts[w.kind] = 0
      BY <1>1, <2>2 DEF ItemTask, Counts, Kinds
    <3>2. w.counts[w.kind] = Cardinality(OfKind(w.before, w.kind))
      BY <1>1 DEF EmptyDoing, ItemTask, Counts, Kinds
    <3>3. OfKind(w.before, w.kind) = {}
      <4>1. PICK S : S = OfKind(w.before, w.kind)
        OBVIOUS
      <4>2. IsFiniteSet(S) /\ Cardinality(S) = 0
        BY <1>1, <3>1, <3>2, <4>1, FiniteOfKind
      <4> QED BY <4>1, <4>2, FS_EmptySet
    <3> QED BY <3>3 DEF Enough
  <2> QED BY <2>1, <2>2
<1>7. EmptyDoing(v)'
  <2>1. v.deleting \subseteq v.reported /\ v.reported \subseteq v.before
    BY <1>1, <1>2 DEF EmptyDoing
  <2>2. \A i \in v.before : creator'[i] = v.user /\ (i \in v.reported \ v.deleting \/ row'[i].status = "TRASHED")
    BY <1>1, <1>2 DEF EmptyDoing
  <2>3. TrashOf(v.user)' \subseteq v.before
    BY <1>1, <1>2 DEF EmptyDoing, TrashOf
  <2>4. /\ v.counts.folder = Cardinality(OfKind(v.before, "folder")')
        /\ v.counts.file = Cardinality(OfKind(v.before, "file")')
    BY <1>1, <1>2 DEF EmptyDoing, OfKind
  <2>5. v.kind = "file" /\ v.kind # "folder"
    BY <1>2
  <2>6. v.op = "empty" => v.page = 0 /\ OfKind(v.reported, v.kind)' = {}
    BY <1>1, <1>2 DEF EmptyDoing, OfKind
  <2>7. Enough(w, "folder") /\ (v.op = "emptied" => Enough(w, "file"))
    BY <1>1, <1>2, <1>6 DEF EmptyDoing
  <2>8. Enough(v, "folder")' /\ (v.op = "emptied" => Enough(v, "file")')
    BY <1>1, <1>2, <2>7, EnoughStays
  <2> QED BY <2>1, <2>2, <2>3, <2>4, <2>5, <2>6, <2>8 DEF EmptyDoing
<1> QED BY <1>3, <1>4, <1>5, <1>7 DEF ItemsAlone, OneItemTask, ItemsDoing

LEMMA ItemsAloneStep ==
    ASSUME ItemsFine, OneByOne, ItemsAlone, ItemsStep
    PROVE  ItemsAlone'
<1>1. ASSUME NEW w \in work, Stops(w) PROVE ItemsAlone'
  <2>1. w.op = "emptied" /\ Ends(w) /\ UNCHANGED <<row, creator, root, comeback>>
    BY <1>1 DEF Stops
  <2>2. work = {w} /\ OneItemTask' /\ ItemsDoing'
    BY <2>1, LastTask DEF ItemsAlone
  <2>3. \A u \in Persons : ~ Between(u)
    BY <2>1, <2>2 DEF Between
  <2> QED BY <2>1, <2>2, <2>3, WorldSame DEF ItemsAlone
<1>2. ASSUME NEW w \in work, Joins(w) \/ Creates(w) \/ Leaves(w) \/ Reads(w) \/ Deletes(w) \/ Turns(w)
      PROVE  ItemsAlone'
  BY <1>2, JoinsAlone, CreatesAlone, LeavesAlone, ReadsAlone, DeletesAlone, TurnsAlone
<1> QED BY <1>1, <1>2, StartsAlone, SetsAlone DEF ItemsStep

----------------------------------------------------------------------------
LEMMA ItemsInit ==
    ASSUME AloneItems!Init
    PROVE  ItemsFine /\ ItemsAlone
<1>1. work = {} /\ comeback = {}
  BY DEF AloneItems!Init
<1>2. /\ \A i \in Ids : row[i] \in Columns /\ row[i].parent = WorkspaceRoot /\ row[i].kind = "folder"
      /\ \A i \in Ids : row[i].status = IF i = OwnerRoot THEN "EXISTS" ELSE "free"
      /\ row \in [Ids -> Columns]
  BY DEF AloneItems!Init, AloneItems!Folder, AloneItems!Free, Columns, Kinds
<1>3. /\ creator \in [Ids -> Persons \cup {NoOne}]
      /\ \A i \in Ids : creator[i] = IF i = OwnerRoot THEN Owner ELSE NoOne
  BY DEF AloneItems!Init, Persons
<1>4. /\ root \in [Persons -> Ids \cup {WorkspaceRoot}]
      /\ \A u \in Persons : root[u] = IF u = Owner THEN OwnerRoot ELSE WorkspaceRoot
  BY ItemConstants DEF AloneItems!Init, AloneItems!People, Persons
<1>5. ItemsFine
  BY <1>1, <1>2, <1>3, <1>4 DEF ItemsFine
<1>6. Rooted
  BY <1>2, <1>3, <1>4, ItemConstants DEF Rooted, Persons
<1>7. Grounded
  BY <1>2, <1>3, ItemConstants DEF Grounded
<1>8. Tops
  BY <1>2, <1>3, <1>4, ItemConstants DEF Tops, Persons
<1> QED BY <1>1, <1>5, <1>6, <1>7, <1>8 DEF ItemsAlone, ItemsWorld, OneItemTask, ItemsDoing

ItemsInv == ItemsFine /\ (OneByOne => ItemsAlone)

\* What holds of the items of members, whatever part a behaviour is about.
LEMMA ItemsInvariant == MCSpec => []ItemsInv
<1>1. MCInit => ItemsInv
  BY ItemsInit DEF MCInit, ItemsInv
<1>2. ItemsInv /\ [MCNext]_<<vars, part, itemVars>> => ItemsInv'
  <2> SUFFICES ASSUME ItemsInv, [MCNext]_<<vars, part, itemVars>> PROVE ItemsInv'
    OBVIOUS
  <2>1. CASE UNCHANGED itemVars /\ UNCHANGED part
    <3>1. UNCHANGED <<row, creator, root, work, comeback>>
      BY <2>1 DEF itemVars
    <3>2. ItemsFine'
      BY <3>1 DEF ItemsInv, ItemsFine, Recorded
    <3>3. ItemsAlone => ItemsAlone'
      <4>1. ItemsWorld => ItemsWorld'
        BY <3>1, WorldSame DEF Between
      <4>2. ItemsDoing => ItemsDoing'
        <5>1. /\ \A u, p : Live(u, p)' = Live(u, p)
              /\ \A u : TrashOf(u)' = TrashOf(u)
              /\ \A S, k : OfKind(S, k)' = OfKind(S, k)
          BY <3>1 DEF Live, TrashOf, OfKind
        <5>2. ASSUME NEW w, ItemDoing(w) PROVE ItemDoing(w)'
          BY <3>1, <5>1, <5>2 DEF ItemDoing
        <5>3. \A w, k : Enough(w, k)' = Enough(w, k)
          BY <5>1 DEF Enough
        <5>4. ASSUME NEW w, EmptyDoing(w) PROVE EmptyDoing(w)'
          BY <3>1, <5>1, <5>3, <5>4 DEF EmptyDoing
        <5> QED BY <3>1, <5>2, <5>4 DEF ItemsDoing
      <4> QED BY <3>1, <4>1, <4>2 DEF ItemsAlone, OneItemTask
    <3>4. OneByOne' = OneByOne
      BY <2>1 DEF OneByOne
    <3> QED BY <3>2, <3>3, <3>4 DEF ItemsInv
  <2>2. CASE part = "items alone" /\ AloneItems!Next /\ UNCHANGED part
    <3>1. OneByOne /\ ItemsFine /\ ItemsAlone
      BY <2>2 DEF OneByOne, ItemsInv
    <3>2. ItemsStep
      BY <2>2, <3>1, StepShapeAlone
    <3> QED BY <3>1, <3>2, ItemsFineStep, ItemsAloneStep DEF ItemsInv
  <2>3. CASE part = "items together" /\ TogetherItems!Next /\ UNCHANGED part
    <3>1. ~ OneByOne /\ ~ OneByOne' /\ ItemsFine
      BY <2>3 DEF OneByOne, ItemsInv
    <3>2. ItemsStep
      BY <2>3, <3>1, StepShapeTogether
    <3> QED BY <3>1, <3>2, ItemsFineStep DEF ItemsInv
  <2> QED BY <2>1, <2>2, <2>3 DEF MCNext
<1> QED BY <1>1, <1>2, PTL DEF MCSpec

\* Emptying the trash of a member reports only what is deleted, whatever races;
\* requests one at a time, it takes only what was the member's and in the trash
\* and at least a page of it (WorkspacesUsecases.emptyUserTrashedItems).
THEOREM EmptyingIsSound == MCSpec => []EmptyingSound
<1>1. ItemsInv => EmptyingSound
  <2> SUFFICES ASSUME ItemsInv PROVE EmptyingSound
    OBVIOUS
  <2>1. AloneItems!EmptyingReportsDeleted
    <3>1. SUFFICES ASSUME NEW w \in work, w.op = "emptied", NEW i \in w.reported
                   PROVE  row[i].status = "DELETED"
      BY DEF AloneItems!EmptyingReportsDeleted
    <3>2. Recorded(w)
      BY DEF ItemsInv, ItemsFine
    <3> QED BY <3>1, <3>2 DEF Recorded
  <2>2. ASSUME part = "items alone", NEW w \in work, w.op = "emptied"
        PROVE  /\ w.reported \subseteq w.before
               /\ \A kind \in {"folder", "file"} :
                      LET trash == {i \in w.before : row[i].kind = kind}
                      IN  AloneItems!Cardinality({i \in trash : row[i].status = "DELETED"})
                            >= AloneItems!Min({Chunk, AloneItems!Cardinality(trash)})
    <3>1. EmptyDoing(w) /\ Recorded(w) /\ w \in ItemTask
      BY <2>2 DEF ItemsInv, OneByOne, ItemsAlone, ItemsDoing, EmptyOps, ItemsFine
    <3>2. w.deleting = {} /\ \A i \in w.reported : row[i].status = "DELETED"
      BY <2>2, <3>1 DEF Recorded
    <3>3. ASSUME NEW kind \in {"folder", "file"}, NEW trash, trash = {i \in w.before : row[i].kind = kind}
          PROVE  AloneItems!Cardinality({i \in trash : row[i].status = "DELETED"})
                   >= AloneItems!Min({Chunk, AloneItems!Cardinality(trash)})
      <4>1. Enough(w, kind)
        BY <2>2, <3>1 DEF EmptyDoing
      <4>2. PICK dead : dead = {i \in trash : row[i].status = "DELETED"}
        OBVIOUS
      <4>3. OfKind(w.reported, kind) \subseteq dead /\ dead \subseteq trash /\ trash \subseteq Ids
        BY <3>1, <3>2, <3>3, <4>2 DEF EmptyDoing, OfKind, ItemTask
      <4>4. /\ IsFiniteSet(trash) /\ IsFiniteSet(dead)
            /\ Cardinality(trash) \in Nat /\ Cardinality(dead) \in Nat
        BY <4>3, ItemConstants, FS_Subset, FS_CardinalityType
      <4>5. PICK n \in Nat : n = Cardinality(trash)
        BY <4>4
      <4>6. AloneItems!Min({Chunk, n}) \in {Chunk, n} /\ AloneItems!Min({Chunk, n}) <= Chunk
              /\ AloneItems!Min({Chunk, n}) <= n
        BY FewOf, ItemConstants
      <4>7. Cardinality(dead) >= AloneItems!Min({Chunk, n})
        <5>1. CASE OfKind(w.before, kind) \subseteq w.reported
          <6>1. trash \subseteq dead
            BY <3>2, <3>3, <4>2, <5>1 DEF OfKind
          <6>2. dead = trash
            BY <4>3, <6>1
          <6> QED BY <4>4, <4>5, <4>6, <6>2, ItemConstants
        <5>2. CASE Cardinality(OfKind(w.reported, kind)) >= Chunk
          <6>1. w.reported \in SUBSET Ids
            BY <3>1 DEF ItemTask
          <6>2. Cardinality(OfKind(w.reported, kind)) <= Cardinality(dead)
            BY <4>3, <4>4, FS_Subset
          <6>3. Cardinality(OfKind(w.reported, kind)) \in Nat
            BY <6>1, FiniteOfKind
          <6> QED BY <4>4, <4>6, <5>2, <6>2, <6>3, ItemConstants
        <5> QED BY <4>1, <5>1, <5>2 DEF Enough
      <4>8. AloneItems!Cardinality(trash) = n /\ AloneItems!Cardinality(dead) = Cardinality(dead)
        BY <4>5, SameCardinality
      <4> QED BY <4>2, <4>7, <4>8
    <3> QED BY <3>1, <3>3 DEF EmptyDoing
  <2>3. part = "items alone" => AloneItems!EmptyingTakesOwnTrash
    BY <2>2 DEF AloneItems!EmptyingTakesOwnTrash
  <2>4. part = "items alone" => AloneItems!EmptyingMakesProgress
    BY <2>2 DEF AloneItems!EmptyingMakesProgress
  <2> QED BY <2>1, <2>3, <2>4 DEF EmptyingSound
<1> QED BY <1>1, ItemsInvariant, PTL

----------------------------------------------------------------------------
(* Walking up and down.                                                    *)

\* What a member sees in a folder.
Listed(u, p) == AloneItems!getFoldersInFolder(u, p) \cup AloneItems!getFilesInFolder(u, p)

LEMMA ListedIs ==
    ASSUME ItemsFine, NEW u \in Persons, root[u] # WorkspaceRoot, NEW p \in Ids
    PROVE  Listed(u, p) = IF creator[p] = u THEN Live(u, p) ELSE {}
<1>1. \A i \in Ids : row[i].kind \in {"folder", "file"}
  BY DEF ItemsFine, Columns, Kinds
<1> QED BY <1>1 DEF Listed, Live, AloneItems!getFoldersInFolder, AloneItems!getFilesInFolder,
               AloneItems!getPersonalFoldersInFolder, AloneItems!getPersonalFilesInFolder,
               AloneItems!getFoldersInWorkspace, AloneItems!getFilesInWorkspace, AloneItems!ItemsWhere,
               AloneItems!HasSeat, AloneItems!isUserCreatorOfItem

\* Closed under what is listed, and under parents.
ClosedDown(u, S) == {root[u]} \cap Ids \subseteq S /\ \A p \in S : Listed(u, p) \subseteq S

ClosedUp(S) == \A j \in S \cap Ids : row[j].parent \in S

LEMMA Walked ==
    ASSUME NEW u
    PROVE  /\ \A i \in Ids : i \in AloneItems!Walk(u) <=> \A S \in SUBSET Ids : ClosedDown(u, S) => i \in S
           /\ AloneItems!Walk(u) \subseteq Ids
<1>1. PICK sets : sets = {S \in SUBSET Ids : ClosedDown(u, S)}
  OBVIOUS
<1>2. AloneItems!Walk(u) = AloneItems!Common(sets)
  BY <1>1 DEF AloneItems!Walk, ClosedDown, Listed
<1>3. Ids \in sets
  <2>1. \A p \in Ids : Listed(u, p) \subseteq Ids
    BY DEF Listed, AloneItems!getFoldersInFolder, AloneItems!getFilesInFolder,
           AloneItems!getPersonalFoldersInFolder, AloneItems!getPersonalFilesInFolder,
           AloneItems!getFoldersInWorkspace, AloneItems!getFilesInWorkspace, AloneItems!ItemsWhere
  <2> QED BY <1>1, <2>1 DEF ClosedDown
<1>4. UNION sets = Ids
  BY <1>1, <1>3
<1> QED BY <1>1, <1>2, <1>4 DEF AloneItems!Common

LEMMA WentUp ==
    ASSUME ItemsFine, NEW i \in Ids
    PROVE  /\ \A j \in Ids \cup {WorkspaceRoot} : j \in AloneItems!PathOf(i) <=>
                  \A S \in SUBSET (Ids \cup {WorkspaceRoot}) : i \in S /\ ClosedUp(S) => j \in S
           /\ AloneItems!PathOf(i) \subseteq Ids \cup {WorkspaceRoot}
           /\ i \in AloneItems!PathOf(i) /\ ClosedUp(AloneItems!PathOf(i))
<1>1. PICK sets : sets = {S \in SUBSET (Ids \cup {WorkspaceRoot}) : i \in S /\ ClosedUp(S)}
  OBVIOUS
<1>2. AloneItems!PathOf(i) = AloneItems!Common(sets)
  BY <1>1 DEF AloneItems!PathOf, ClosedUp
<1>3. Ids \cup {WorkspaceRoot} \in sets
  BY <1>1, ParentsKnown DEF ClosedUp
<1>4. UNION sets = Ids \cup {WorkspaceRoot}
  BY <1>1, <1>3
<1>5. \A j \in Ids \cup {WorkspaceRoot} : j \in AloneItems!PathOf(i) <=> \A S \in sets : j \in S
  BY <1>2, <1>4 DEF AloneItems!Common
<1>6. AloneItems!PathOf(i) \subseteq Ids \cup {WorkspaceRoot}
  BY <1>2, <1>4 DEF AloneItems!Common
<1>7. i \in AloneItems!PathOf(i)
  BY <1>1, <1>5
<1>8. ClosedUp(AloneItems!PathOf(i))
  <2>1. SUFFICES ASSUME NEW j \in Ids, j \in AloneItems!PathOf(i), NEW S \in sets
                 PROVE  row[j].parent \in S
    BY <1>5, ParentsKnown DEF ClosedUp
  <2>2. j \in S
    BY <1>5, <2>1
  <2> QED BY <1>1, <2>2 DEF ClosedUp
<1> QED BY <1>1, <1>5, <1>6, <1>7, <1>8

\* Every way up that is closed without the root of the workspace in it is not
\* the way of something that gets there.
LEMMA NoOtherWay ==
    ASSUME ItemsFine, NEW i \in Ids, WorkspaceRoot \in AloneItems!PathOf(i), NEW T \in SUBSET Ids, i \in T
    PROVE  \E j \in T : row[j].parent \notin T
<1>1. ASSUME \A j \in T : row[j].parent \in T PROVE FALSE
  <2>1. ClosedUp(T) /\ T \in SUBSET (Ids \cup {WorkspaceRoot})
    BY <1>1 DEF ClosedUp
  <2>2. WorkspaceRoot \in T
    BY <2>1, WentUp
  <2> QED BY <2>2, ItemConstants
<1> QED BY <1>1

\* With requests one at a time no item is lost with the member who leaves or who
\* comes back: somebody walks down to what is live up to the root of the
\* workspace (transferPersonalItemsToWorkspaceOwner, acceptWorkspaceInvite).
LEMMA NothingIsLost ==
    ASSUME ItemsFine, ItemsAlone
    PROVE  AloneItems!NothingLostWithItsMember
<1>1. SUFFICES ASSUME work = {}, NEW i \in Ids, AloneItems!Straight(i)
               PROVE  \/ AloneItems!HasSeat(creator[i]) /\ i \in AloneItems!Walk(creator[i])
                      \/ /\ ~ AloneItems!HasSeat(creator[i]) /\ row[i].parent = WorkspaceRoot
                         /\ ~ \E j \in Ids : row[j].parent = i /\ AloneItems!Straight(j)
  BY DEF AloneItems!NothingLostWithItsMember
<1>2. \A k \in Ids : AloneItems!Straight(k) =>
         /\ WorkspaceRoot \in AloneItems!PathOf(k) /\ creator[k] # NoOne
         /\ \A j \in AloneItems!PathOf(k) \cap Ids : row[j].status = "EXISTS" /\ creator[j] = creator[k]
  BY ItemConstants DEF AloneItems!Straight
<1>3. PICK c \in Persons : c = creator[i]
  BY <1>1, <1>2 DEF ItemsFine
<1>4. PICK P : P = AloneItems!PathOf(i)
  OBVIOUS
<1>5. /\ WorkspaceRoot \in P /\ P \subseteq Ids \cup {WorkspaceRoot} /\ i \in P /\ ClosedUp(P)
      /\ \A j \in P \cap Ids : row[j].status = "EXISTS" /\ creator[j] = c
  BY <1>1, <1>2, <1>3, <1>4, WentUp
<1>6. c # NoOne /\ Tops
  BY ItemConstants DEF ItemsAlone, ItemsWorld
<1>7. CASE root[c] # WorkspaceRoot
  <2>1. SUFFICES ASSUME NEW S \in SUBSET Ids, ClosedDown(c, S), i \notin S PROVE FALSE
    BY <1>3, <1>7, Walked DEF AloneItems!HasSeat
  <2>2. PICK T : T = (P \cap Ids) \ S
    OBVIOUS
  <2>3. PICK j \in T : row[j].parent \notin T
    BY <1>1, <1>2, <1>4, <1>5, <2>1, <2>2, NoOtherWay
  <2>4. j \in Ids /\ j \in P /\ j \notin S /\ row[j].status = "EXISTS" /\ creator[j] = c /\ row[j].parent \in P
    BY <1>5, <2>2, <2>3 DEF ClosedUp
  <2>5. CASE row[j].parent = WorkspaceRoot
    <3>1. root[c] = j
      BY <1>6, <1>7, <2>4, <2>5 DEF Tops
    <3> QED BY <2>1, <2>4, <3>1 DEF ClosedDown
  <2>6. CASE row[j].parent \in S
    <3>1. row[j].parent \in Ids /\ creator[row[j].parent] = c
      BY <1>5, <2>1, <2>4, <2>6
    <3>2. Listed(c, row[j].parent) = Live(c, row[j].parent)
      BY <1>7, <3>1, ListedIs
    <3>3. j \in Live(c, row[j].parent)
      BY <2>4 DEF Live
    <3> QED BY <2>1, <2>4, <2>6, <3>2, <3>3 DEF ClosedDown
  <2> QED BY <1>5, <2>2, <2>3, <2>4, <2>5, <2>6
<1>8. CASE root[c] = WorkspaceRoot
  \* The top of the way would have something live in it.
  <2>1. ASSUME NEW x \in P \cap Ids, row[x].parent # WorkspaceRoot, row[row[x].parent].parent = WorkspaceRoot
        PROVE  FALSE
    <3>1. PICK j : j = row[x].parent
      OBVIOUS
    <3>2. j \in P \cap Ids /\ row[j].status = "EXISTS" /\ creator[j] = c /\ row[j].parent = WorkspaceRoot
      BY <1>5, <2>1, <3>1 DEF ClosedUp
    <3>3. x \in Live(c, j)
      BY <1>5, <2>1, <3>1 DEF Live
    <3>4. root[c] = j \/ Live(c, j) = {}
      BY <1>6, <3>2 DEF Tops
    <3> QED BY <1>8, <3>2, <3>3, <3>4, ItemConstants
  <2>2. row[i].parent = WorkspaceRoot
    <3>1. ASSUME row[i].parent # WorkspaceRoot PROVE FALSE
      <4>1. PICK T : T = {x \in P \cap Ids : row[x].parent # WorkspaceRoot}
        OBVIOUS
      <4>2. PICK x \in T : row[x].parent \notin T
        BY <1>1, <1>2, <1>4, <1>5, <3>1, <4>1, NoOtherWay
      <4>3. row[x].parent \in P \cap Ids
        BY <1>5, <4>1, <4>2 DEF ClosedUp
      <4> QED BY <2>1, <4>1, <4>2, <4>3
    <3> QED BY <3>1
  <2>3. ASSUME NEW j \in Ids, row[j].parent = i, AloneItems!Straight(j) PROVE FALSE
    <3>1. j \in AloneItems!PathOf(j) /\ i \in AloneItems!PathOf(j)
      BY <2>3, WentUp DEF ClosedUp
    <3>2. row[j].status = "EXISTS" /\ creator[j] = c
      BY <1>2, <1>3, <2>3, <3>1
    <3>3. j \in Live(c, i)
      BY <2>3, <3>2 DEF Live
    <3>4. row[i].status # "free" /\ root[c] # i
      BY <1>5, <1>8, ItemConstants
    <3> QED BY <1>3, <1>6, <2>2, <3>3, <3>4 DEF Tops
  <2> QED BY <1>3, <1>8, <2>2, <2>3 DEF AloneItems!HasSeat
<1> QED BY <1>3, <1>7, <1>8

LEMMA RootsAreUsable ==
    ASSUME ItemsFine, ItemsAlone
    PROVE  AloneItems!RootsUsable
<1>1. work = {} => \A u \in Persons : ~ Between(u)
  BY DEF Between
<1> QED BY <1>1 DEF ItemsAlone, ItemsWorld, Rooted, AloneItems!RootsUsable, AloneItems!People,
               AloneItems!HasSeat, AloneItems!isUserCreatorOfItem, Persons

\* The breadcrumbs of an item start at the folder it is, or is in.
StartOf(i) == IF row[i].kind = "file" THEN row[i].parent ELSE i

ClosedAbove(s, S) ==
    /\ s \in Ids /\ row[s].status # "DELETED" => s \in S
    /\ \A j \in S : row[j].parent \in Ids /\ row[row[j].parent].status # "DELETED" => row[j].parent \in S

LEMMA Above ==
    ASSUME NEW i \in Ids
    PROVE  /\ AloneItems!getWorkspaceItemAncestors(i) \subseteq Ids
           /\ ClosedAbove(StartOf(i), AloneItems!getWorkspaceItemAncestors(i))
           /\ \A S \in SUBSET Ids : ClosedAbove(StartOf(i), S) => AloneItems!getWorkspaceItemAncestors(i) \subseteq S
<1>1. PICK A : A = AloneItems!getWorkspaceItemAncestors(i)
  OBVIOUS
<1>2. PICK sets : sets = {S \in SUBSET Ids : ClosedAbove(StartOf(i), S)}
  OBVIOUS
<1>3. A = AloneItems!Common(sets)
  <2>1. sets = {S \in SUBSET Ids :
                  /\ {j \in {StartOf(i)} \cap Ids : row[j].status # "DELETED"} \subseteq S
                  /\ \A j \in S : {k \in {row[j].parent} \cap Ids : row[k].status # "DELETED"} \subseteq S}
    BY <1>2 DEF ClosedAbove
  <2> QED BY <1>1, <2>1 DEF AloneItems!getWorkspaceItemAncestors, AloneItems!getFolderAncestorsInWorkspace, StartOf
<1>4. Ids \in sets
  BY <1>2 DEF ClosedAbove
<1>5. UNION sets = Ids
  BY <1>2, <1>4
<1>6. A \subseteq Ids /\ \A j \in Ids : j \in A <=> \A S \in sets : j \in S
  BY <1>3, <1>5 DEF AloneItems!Common
<1>7. ClosedAbove(StartOf(i), A)
  <2>1. StartOf(i) \in Ids /\ row[StartOf(i)].status # "DELETED" => StartOf(i) \in A
    BY <1>2, <1>6 DEF ClosedAbove
  <2>2. ASSUME NEW j \in A, row[j].parent \in Ids, row[row[j].parent].status # "DELETED", NEW S \in sets
        PROVE  row[j].parent \in S
    <3>1. j \in S
      BY <1>6, <2>2
    <3> QED BY <1>2, <2>2, <3>1 DEF ClosedAbove
  <2> QED BY <1>6, <2>1, <2>2 DEF ClosedAbove
<1>8. \A S \in SUBSET Ids : ClosedAbove(StartOf(i), S) => A \subseteq S
  BY <1>2, <1>6
<1> QED BY <1>1, <1>6, <1>7, <1>8

\* The breadcrumbs of what a member finds lead to the root folder, through what
\* the member finds (getWorkspaceItemAncestors).
LEMMA BreadcrumbsHome ==
    ASSUME ItemsFine, ItemsAlone
    PROVE  AloneItems!BreadcrumbsLeadHome
<1>1. SUFFICES ASSUME work = {}, NEW u \in Persons, root[u] # WorkspaceRoot,
                      row[root[u]].parent = WorkspaceRoot, row[root[u]].status = "EXISTS",
                      NEW i \in AloneItems!Walk(u)
               PROVE  /\ AloneItems!getWorkspaceItemAncestors(i) \subseteq AloneItems!Walk(u)
                      /\ root[u] \in AloneItems!getWorkspaceItemAncestors(i)
  BY DEF AloneItems!BreadcrumbsLeadHome, AloneItems!People, Persons, AloneItems!HasSeat
<1>2. PICK r \in Ids : r = root[u]
  BY <1>1 DEF ItemsFine
<1>3. PICK W : W = AloneItems!Walk(u)
  OBVIOUS
<1>4. W \subseteq Ids /\ \A x \in Ids : x \in W <=> \A S \in SUBSET Ids : ClosedDown(u, S) => x \in S
  BY <1>3, Walked
<1>5. \A p \in Ids : Listed(u, p) = IF creator[p] = u THEN Live(u, p) ELSE {}
  BY <1>1, ListedIs
<1>6. row[r].kind = "folder" /\ Grounded
  BY <1>1, <1>2 DEF ItemsAlone, ItemsWorld, Rooted
<1>7. r \in W /\ \A p \in W : Listed(u, p) \subseteq W
  <2>1. r \in W
    BY <1>2, <1>4 DEF ClosedDown
  <2>2. ASSUME NEW p \in W, NEW x \in Listed(u, p), NEW S \in SUBSET Ids, ClosedDown(u, S)
        PROVE  x \in S
    BY <1>4, <2>2 DEF ClosedDown
  <2>3. \A p \in W : Listed(u, p) \subseteq Ids
    BY <1>4, <1>5 DEF Live
  <2> QED BY <1>4, <2>1, <2>2, <2>3
<1>8. \A x \in W : x = r \/ (row[x].parent \in W /\ row[x].status = "EXISTS")
  <2>1. PICK S : S = {x \in W : x = r \/ (row[x].parent \in W /\ row[x].status = "EXISTS")}
    OBVIOUS
  <2>2. ASSUME NEW p \in S, NEW x \in Listed(u, p) PROVE x \in S
    <3>1. p \in W /\ x \in W /\ x \in Live(u, p)
      BY <1>4, <1>5, <1>7, <2>1, <2>2
    <3> QED BY <2>1, <3>1 DEF Live
  <2>3. ClosedDown(u, S) /\ S \in SUBSET Ids
    BY <1>2, <1>4, <1>7, <2>1, <2>2 DEF ClosedDown
  <2> QED BY <1>4, <2>1, <2>3
<1>9. AloneItems!getWorkspaceItemAncestors(i) \subseteq W
  <2>1. i \in Ids /\ i \in W
    BY <1>3, <1>4
  <2>2. StartOf(i) \in Ids => StartOf(i) \in W
    BY <1>6, <1>8, <2>1 DEF StartOf
  <2>3. ASSUME NEW x \in W, row[x].parent \in Ids PROVE row[x].parent \in W
    BY <1>1, <1>2, <1>8, <2>3, ItemConstants
  <2>4. ClosedAbove(StartOf(i), W)
    BY <2>2, <2>3 DEF ClosedAbove
  <2> QED BY <1>4, <2>1, <2>4, Above
<1>10. r \in AloneItems!getWorkspaceItemAncestors(i)
  <2>1. PICK Q : Q = {x \in W : r \in AloneItems!getWorkspaceItemAncestors(x)}
    OBVIOUS
  <2>2. r \in Q
    <3>1. StartOf(r) = r
      BY <1>6 DEF StartOf
    <3> QED BY <1>1, <1>2, <1>7, <2>1, <3>1, Above DEF ClosedAbove
  <2>3. ASSUME NEW p \in Q, NEW x \in Listed(u, p) PROVE x \in Q
    <3>1. p \in W /\ p \in Ids /\ x \in W /\ x \in Ids /\ r \in AloneItems!getWorkspaceItemAncestors(p)
      BY <1>4, <1>7, <2>1, <2>3
    <3>2. row[x].parent = p /\ row[x].status = "EXISTS"
      BY <1>5, <2>3, <3>1 DEF Live
    <3>3. row[p].kind = "folder" /\ row[p].status # "DELETED"
      BY <1>1, <1>2, <1>6, <1>8, <3>1, <3>2 DEF Grounded
    <3>4. StartOf(p) = p /\ (StartOf(x) = p \/ StartOf(x) = x)
      BY <3>2, <3>3 DEF StartOf
    <3>5. PICK A : A = AloneItems!getWorkspaceItemAncestors(x)
      OBVIOUS
    <3>6. A \subseteq Ids /\ ClosedAbove(StartOf(x), A)
      BY <3>1, <3>5, Above
    <3>7. p \in A
      BY <3>1, <3>2, <3>3, <3>4, <3>6 DEF ClosedAbove
    <3>8. ClosedAbove(StartOf(p), A)
      BY <3>4, <3>6, <3>7 DEF ClosedAbove
    <3>9. r \in A
      BY <3>1, <3>6, <3>8, Above
    <3> QED BY <2>1, <3>1, <3>5, <3>9
  <2>4. ClosedDown(u, Q) /\ Q \in SUBSET Ids
    BY <1>2, <1>4, <2>1, <2>2, <2>3 DEF ClosedDown
  <2> QED BY <1>3, <1>4, <2>1, <2>4
<1> QED BY <1>2, <1>3, <1>9, <1>10

\* With requests one at a time no item is lost with the member who leaves or who
\* comes back, and who has a seat has a root folder that ancestors lead to
\* (WorkspacesUsecases.acceptWorkspaceInvite,
\* transferPersonalItemsToWorkspaceOwner, getWorkspaceItemAncestors).
THEOREM NothingIsLostAlone == MCSpec => []NothingLostWithItsMemberAlone
<1>1. ItemsInv => NothingLostWithItsMemberAlone
  BY NothingIsLost, RootsAreUsable, BreadcrumbsHome
     DEF ItemsInv, OneByOne, NothingLostWithItsMemberAlone
<1> QED BY <1>1, ItemsInvariant, PTL

=============================================================================
