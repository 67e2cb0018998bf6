--------------------------- MODULE WorkspaceTeams ---------------------------
(***************************************************************************)
(* The people of one workspace: seats (workspace_users), teams, their      *)
(* managers and members (workspace_teams and workspace_teams_users) and    *)
(* the items shared with teams.  No index keeps a pair of team and user    *)
(* unique.                                                                 *)
(*                                                                         *)
(* A handler is a request in inflight, whose op names its next statement;  *)
(* unless a behaviour is alone, other steps may come in between.           *)
(***************************************************************************)
EXTENDS Naturals, FiniteSets

CONSTANTS
    Users,        \* people
    Owner,        \* the owner of the workspace
    Elsewhere,    \* users with an active seat in some other workspace
    Teams,        \* ids of teams
    DefaultTeam,  \* the team everybody is in
    Items,        \* items that may be shared with teams
    MaxTeams,     \* teams a workspace may have (10)
    MaxMembers,   \* members a team may have (20)
    MaxRows,      \* bound: rows of one team and user
    MaxInFlight,  \* bound: requests at work
    Crashes       \* may a request stop half way?

VARIABLES
    seat,      \* of each user: "none", "active" or "deactivated"
    manager,   \* of each team, Nobody when the team does not exist
    rows,      \* of each team and user, rows in workspace_teams_users
    shared,    \* of each item and team, rows in sharings
    inflight,  \* requests at work
    gone,      \* history: teams that were deleted
    headless,  \* history: teams whose creation stopped half way
    alone      \* does each request wait for the one before?

vars == <<seat, manager, rows, shared, inflight, gone, headless, alone>>

----------------------------------------------------------------------------
Nobody == "nobody"

\* The owner is one of the people, and the limits let a workspace have its
\* default team and a team its manager.
ASSUME WorkspaceTeamsConstants ==
    /\ IsFiniteSet(Users) /\ Nobody \notin Users
    /\ Owner \in Users /\ Elsewhere \subseteq Users \ {Owner}
    /\ IsFiniteSet(Teams) /\ DefaultTeam \in Teams
    /\ MaxTeams \in Nat \ {0} /\ MaxMembers \in Nat \ {0}
    /\ MaxRows \in Nat \ {0} /\ MaxInFlight \in Nat
    /\ Crashes \in BOOLEAN

SeatStates == {"none", "active", "deactivated"}

ManagerColumn == Users \cup {Nobody}

Exists(t) == manager[t] # Nobody

ExistingTeams == {t \in Teams : Exists(t)}

NewRequest(op, t, u) == [nr |-> 0, op |-> op, team |-> t, user |-> u, left |-> {}]

Init ==
    /\ seat = [u \in Users |-> IF u = Owner THEN "active" ELSE "none"]
    /\ manager = [t \in Teams |-> IF t = DefaultTeam THEN Owner ELSE Nobody]
    /\ rows = [t \in Teams |-> [u \in Users |-> IF t = DefaultTeam /\ u = Owner THEN 1 ELSE 0]]
    /\ shared = [i \in Items |-> [t \in Teams |-> 0]]
    /\ inflight = {} /\ gone = {} /\ headless = {} /\ alone \in BOOLEAN

----------------------------------------------------------------------------
(* Guards and queries.                                                     *)

isUserOwner(u) == u = Owner

isDefaultTeam(t) == t = DefaultTeam

findWorkspaceUser(u) == seat[u] # "none"

\* Without the workspace: a seat in any of them will do.
findActiveUserAnywhere(u) == seat[u] = "active" \/ u \in Elsewhere

getTeamUser(u, t) == rows[t][u] > 0

\* Every row counts, those of the same user too.
getTeamMembersCount(t) == Cardinality({e \in Users \X (1 .. MaxRows) : e[2] <= rows[t][e[1]]})

getTeamsUserBelongsTo(u) == {t \in ExistingTeams : rows[t][u] > 0}

getTeamsWhereUserIsManager(u) == {t \in ExistingTeams : manager[t] = u}

verifyWorkspaceAccessByRole(u, role) ==
    /\ findWorkspaceUser(u) \/ isUserOwner(u)
    /\ role = "OWNER" => isUserOwner(u)
    /\ seat[u] # "deactivated"

verifyTeamAccessByRole(u, t, role) ==
    /\ Exists(t) /\ seat[u] = "active"
    /\ \/ isUserOwner(u)
       \/ getTeamUser(u, t) /\ (role = "MANAGER" => manager[t] = u)

getAndValidateNonDefaultTeamWorkspace(t) == Exists(t) /\ ~ isDefaultTeam(t)

----------------------------------------------------------------------------
(* Requests.                                                               *)

Quiet == alone => inflight = {}

Numbers == {v.nr : v \in inflight}

Begin(w) ==
    /\ Quiet
    /\ \E k \in 1 .. MaxInFlight :
          /\ k \notin Numbers /\ 1 .. k - 1 \subseteq Numbers
          /\ inflight' = inflight \cup {[w EXCEPT !.nr = k]}
    /\ UNCHANGED <<seat, manager, rows, shared, gone, headless>>

Goes(w, to) == inflight' = (inflight \ {w}) \cup {to}

Done(w) == inflight' = inflight \ {w}

Histories == UNCHANGED <<gone, headless>>

\* An INSERT, refused by the foreign key when the team is gone.
addUserToTeam(t, u) ==
    /\ rows[t][u] < MaxRows
    /\ rows' = IF Exists(t) THEN [rows EXCEPT ![t][u] = @ + 1] ELSE rows

deleteUserFromTeam(t, u) == rows' = [rows EXCEPT ![t][u] = 0]

updateManager(t, u) == manager' = [manager EXCEPT ![t] = IF @ = Nobody THEN @ ELSE u]

\* The manager may be deactivated.
createTeam(m) ==
    /\ Cardinality(ExistingTeams) < MaxTeams
    /\ findWorkspaceUser(m)
    /\ Begin(NewRequest("insertTeam", DefaultTeam, m))

createTeamInserts(w) ==
    /\ \/ /\ w.op = "insertTeam"
          /\ \E t \in Teams \ (ExistingTeams \cup gone) :
                /\ manager' = [manager EXCEPT ![t] = w.user]
                /\ headless' = headless \cup {t}
                /\ Goes(w, [w EXCEPT !.op = "insertManager", !.team = t])
          /\ UNCHANGED rows
       \/ /\ w.op = "insertManager"
          /\ addUserToTeam(w.team, w.user)
          /\ headless' = headless \ {w.team}
          /\ Done(w) /\ UNCHANGED manager
    /\ UNCHANGED <<seat, shared, gone>>

addMemberToTeam(t, u) ==
    /\ getAndValidateNonDefaultTeamWorkspace(t)
    /\ findActiveUserAnywhere(u) /\ ~ getTeamUser(u, t)
    /\ getTeamMembersCount(t) < MaxMembers
    /\ Begin(NewRequest("insertMember", t, u))

addMemberInserts(w) ==
    /\ w.op = "insertMember"
    /\ addUserToTeam(w.team, w.user) /\ Done(w)
    /\ UNCHANGED <<seat, manager, shared>> /\ Histories

removeMemberFromTeam(t, u) ==
    /\ getAndValidateNonDefaultTeamWorkspace(t)
    /\ getTeamUser(u, t)
    /\ Begin(NewRequest(IF manager[t] = u THEN "replaceManager" ELSE "removeMember", t, u))

removeMemberWrites(w) ==
    /\ \/ /\ w.op = "replaceManager" /\ updateManager(w.team, Owner)
          /\ Goes(w, [w EXCEPT !.op = "removeMember"]) /\ UNCHANGED rows
       \/ /\ w.op = "removeMember" /\ deleteUserFromTeam(w.team, w.user)
          /\ Done(w) /\ UNCHANGED manager
    /\ UNCHANGED <<seat, shared>> /\ Histories

changeTeamManager(t, m) ==
    /\ getAndValidateNonDefaultTeamWorkspace(t)
    /\ findActiveUserAnywhere(m) /\ getTeamUser(m, t)
    /\ Begin(NewRequest("setManager", t, m))

\* Of the default team as well.
changeUserRole(t, u, role) ==
    /\ Exists(t) /\ getTeamUser(u, t)
    /\ \/ role = "MEMBER" /\ manager[t] = u /\ Begin(NewRequest("setManager", t, Owner))
       \/ role = "MANAGER" /\ manager[t] # u /\ Begin(NewRequest("setManager", t, u))

setManager(w) ==
    /\ w.op = "setManager"
    /\ updateManager(w.team, w.user) /\ Done(w)
    /\ UNCHANGED <<seat, rows, shared>> /\ Histories

\* Its members go by cascade and its sharings stay.
deleteTeam(t) ==
    /\ Quiet
    /\ getAndValidateNonDefaultTeamWorkspace(t)
    /\ manager' = [manager EXCEPT ![t] = Nobody]
    /\ rows' = [rows EXCEPT ![t] = [u \in DOMAIN @ |-> 0]]
    /\ gone' = gone \cup {t}
    /\ UNCHANGED <<seat, shared, inflight, headless>>

deactivateWorkspaceUser(u) ==
    /\ Quiet
    /\ findWorkspaceUser(u) /\ ~ isUserOwner(u)
    /\ seat' = [seat EXCEPT ![u] = "deactivated"]
    /\ UNCHANGED <<manager, rows, shared, inflight>> /\ Histories

activateWorkspaceUser(u) ==
    /\ Quiet
    /\ findWorkspaceUser(u)
    /\ seat' = [seat EXCEPT ![u] = "active"]
    /\ UNCHANGED <<manager, rows, shared, inflight>> /\ Histories

\* The seat, the default team and what
\* comes after, whose failure rolls both back.
acceptWorkspaceInvite(u) ==
    ~ findWorkspaceUser(u) /\ Begin(NewRequest("insertSeat", DefaultTeam, u))

acceptWorkspaceInviteInserts(w) ==
    /\ \/ /\ w.op = "insertSeat" /\ seat' = [seat EXCEPT ![w.user] = "active"]
          /\ Goes(w, [w EXCEPT !.op = "insertDefault"]) /\ UNCHANGED rows
       \/ /\ w.op = "insertDefault" /\ addUserToTeam(w.team, w.user)
          /\ Done(w) /\ UNCHANGED seat
       \/ /\ w.op = "insertDefault"
          /\ seat' = [seat EXCEPT ![w.user] = "none"]
          /\ Goes(w, [w EXCEPT !.op = "removeMember"]) /\ UNCHANGED rows
    /\ UNCHANGED <<manager, shared>> /\ Histories

\* Once the personal items were transferred.
leaveWorkspace(u) ==
    /\ ~ isUserOwner(u)
    /\ Begin([NewRequest("leaveManaged", DefaultTeam, u) EXCEPT !.left = getTeamsWhereUserIsManager(u)])

\* Mutant: only the teams he does not manage are left.
leavesOthers(w) ==
    \/ /\ w.op = "leaveManaged"
       /\ Goes(w, [w EXCEPT !.op = "leaveTeams",
                            !.left = getTeamsUserBelongsTo(w.user) \ getTeamsWhereUserIsManager(w.user)])
       /\ UNCHANGED <<seat, manager, rows, shared>> /\ Histories
    \/ /\ w.op = "leaveTeams" /\ w.left # {}
       /\ \E t \in w.left :
             deleteUserFromTeam(t, w.user) /\ Goes(w, [w EXCEPT !.left = @ \ {t}])
       /\ UNCHANGED <<seat, manager, shared>> /\ Histories
    \/ /\ w.op = "leaveTeams" /\ w.left = {}
       /\ seat' = [seat EXCEPT ![w.user] = "none"] /\ Done(w)
       /\ UNCHANGED <<manager, rows, shared>> /\ Histories

\* First the teams he manages, one after the other, then those he is in, which
\* are read again, and last the seat.
leavesTeams(w) ==
    \/ /\ w.op = "leaveManaged" /\ w.left # {}
       /\ \E t \in w.left :
             updateManager(t, Owner) /\ Goes(w, [w EXCEPT !.op = "leaveManagedTeam", !.team = t])
       /\ UNCHANGED <<seat, rows, shared>> /\ Histories
    \/ /\ w.op = "leaveManagedTeam"
       /\ deleteUserFromTeam(w.team, w.user)
       /\ Goes(w, [w EXCEPT !.op = "leaveManaged", !.left = @ \ {w.team}])
       /\ UNCHANGED <<seat, manager, shared>> /\ Histories
    \/ /\ w.op = "leaveManaged" /\ w.left = {}
       /\ Goes(w, [w EXCEPT !.op = "leaveTeams", !.left = getTeamsUserBelongsTo(w.user)])
       /\ UNCHANGED <<seat, manager, rows, shared>> /\ Histories
    \/ /\ w.op = "leaveTeams" /\ w.left # {}
       /\ \E t \in w.left :
             deleteUserFromTeam(t, w.user) /\ Goes(w, [w EXCEPT !.left = @ \ {t}])
       /\ UNCHANGED <<seat, manager, shared>> /\ Histories
    \/ /\ w.op = "leaveTeams" /\ w.left = {}
       /\ seat' = [seat EXCEPT ![w.user] = "none"] /\ Done(w)
       /\ UNCHANGED <<manager, rows, shared>> /\ Histories

\* By the creator of the item.
shareItemWithTeam(i, t) ==
    /\ Exists(t) /\ shared[i][t] = 0
    /\ Begin([NewRequest("insertSharing", t, Owner) EXCEPT !.left = {i}])

shareItemInserts(w) ==
    /\ w.op = "insertSharing"
    /\ \E i \in w.left : shared' = [shared EXCEPT ![i][w.team] = @ + 1]
    /\ Done(w)
    /\ UNCHANGED <<seat, manager, rows>> /\ Histories

\* DELETE /sharings/:itemType/:itemId
removeSharing(i) ==
    /\ Quiet /\ \E t \in Teams : shared[i][t] > 0
    /\ shared' = [shared EXCEPT ![i] = [t \in DOMAIN @ |-> 0]]
    /\ UNCHANGED <<seat, manager, rows, inflight>> /\ Histories

requestDies(w) ==
    /\ Crashes /\ Done(w)
    /\ UNCHANGED <<seat, manager, rows, shared>> /\ Histories

----------------------------------------------------------------------------
(* The endpoints: who may call a handler.                                  *)

OfOwner(u) == verifyWorkspaceAccessByRole(u, "OWNER")

\* POST /workspaces/:workspaceId/teams
postTeam(by, m) == OfOwner(by) /\ createTeam(m)

\* DELETE /workspaces/:workspaceId/teams/:teamId
deleteTeamRequest(by, t) == OfOwner(by) /\ deleteTeam(t)

\* POST and DELETE /workspaces/teams/:teamId/user/:userUuid
addUserToTeamRequest(by, t, u) == verifyTeamAccessByRole(by, t, "MANAGER") /\ addMemberToTeam(t, u)

removeUserFromTeamRequest(by, t, u) ==
    verifyTeamAccessByRole(by, t, "MANAGER") /\ removeMemberFromTeam(t, u)

\* PATCH /workspaces/:workspaceId/teams/:teamId/manager
patchTeamManager(by, t, m) == verifyTeamAccessByRole(by, t, "MANAGER") /\ changeTeamManager(t, m)

\* PATCH /workspaces/:workspaceId/teams/:teamId/members/:memberId/role
changeMemberRole(by, t, u, role) == OfOwner(by) /\ changeUserRole(t, u, role)

\* PATCH /workspaces/:workspaceId/members/:memberId/deactivate and .../activate
deactivateWorkspaceMember(by, u) == OfOwner(by) /\ deactivateWorkspaceUser(u)

activateWorkspaceMember(by, u) == OfOwner(by) /\ activateWorkspaceUser(u)

\* DELETE /workspaces/:workspaceId/members/leave
leaveWorkspaceRequest(u) == verifyWorkspaceAccessByRole(u, "MEMBER") /\ leaveWorkspace(u)

\* DELETE /workspaces/:workspaceId/members/:memberId
removeWorkspaceMember(by, u) == OfOwner(by) /\ findWorkspaceUser(u) /\ leaveWorkspace(u)

\* POST /workspaces/:workspaceId/shared
shareItemWithMember(by, i, t) == verifyWorkspaceAccessByRole(by, "MEMBER") /\ shareItemWithTeam(i, t)

RequestStep(w) ==
    \/ createTeamInserts(w) \/ addMemberInserts(w) \/ removeMemberWrites(w) \/ setManager(w)
    \/ acceptWorkspaceInviteInserts(w) \/ leavesTeams(w) \/ shareItemInserts(w) \/ requestDies(w)

Step ==
    \/ \E by \in Users :
          \/ leaveWorkspaceRequest(by) \/ acceptWorkspaceInvite(by)
          \/ \E u \in Users : \/ postTeam(by, u) \/ deactivateWorkspaceMember(by, u)
                              \/ activateWorkspaceMember(by, u) \/ removeWorkspaceMember(by, u)
          \/ \E t \in Teams, u \in Users :
                \/ addUserToTeamRequest(by, t, u) \/ removeUserFromTeamRequest(by, t, u)
                \/ patchTeamManager(by, t, u)
                \/ \E role \in {"MEMBER", "MANAGER"} : changeMemberRole(by, t, u, role)
          \/ \E t \in Teams : \/ deleteTeamRequest(by, t)
                              \/ \E i \in Items : shareItemWithMember(by, i, t)
    \/ \E i \in Items : removeSharing(i)
    \/ \E w \in inflight : RequestStep(w)

Next == Step /\ UNCHANGED alone

Spec == Init /\ [][Next]_vars

----------------------------------------------------------------------------
(* What users are shown.                                                   *)

\* isManager in the list of the members of the workspace.
getWorkspaceMembers ==
    {[user |-> u, isOwner |-> isUserOwner(u), isManager |-> getTeamsWhereUserIsManager(u) # {}] :
        u \in {v \in Users : findWorkspaceUser(v)}}

\* The teams in the details of one member.
getMemberDetails(u) ==
    {[team |-> t, isManager |-> manager[t] = u] : t \in getTeamsUserBelongsTo(u)}

getWorkspaceTeams(u) ==
    {t \in ExistingTeams : ~ isDefaultTeam(t) /\ (isUserOwner(u) \/ t \in getTeamsUserBelongsTo(u))}

\* The teams an item is shared with; the details of a team that is gone are
\* read from undefined, which throws.
getItemSharedWith(i) ==
    LET sharedWithTeams == {t \in Teams : shared[i][t] > 0}
    IN  [throws |-> ~ sharedWithTeams \subseteq ExistingTeams, teamsWithRoles |-> sharedWithTeams]

----------------------------------------------------------------------------
(* Properties.                                                             *)

\* Tables have the columns of their models; nobody is in a team that is gone.
TypeOK ==
    /\ seat \in [Users -> SeatStates]
    /\ manager \in [Teams -> ManagerColumn]
    /\ rows \in [Teams -> [Users -> Nat]] /\ shared \in [Items -> [Teams -> Nat]]
    /\ \A t \in Teams, u \in Users : rows[t][u] > 0 => Exists(t)
    /\ gone \cap ExistingTeams = {} /\ headless \subseteq Teams
    /\ Cardinality({w.nr : w \in inflight}) = Cardinality(inflight)

\* Whoever is in a team or manages it has a seat in the workspace, even when
\* a handler that moves people about stops half way.
TeamPeopleHaveSeats ==
    \A t \in ExistingTeams, u \in Users \ Elsewhere :
        (rows[t][u] > 0 \/ manager[t] = u) /\ (\A w \in inflight : w.user # u)
            => findWorkspaceUser(u)

\* The manager of a team is one of its members or the owner, whom the guard
\* lets in: there is always somebody who can manage it.
ManagerCanManage ==
    inflight = {} =>
        \A t \in ExistingTeams \ headless :
            manager[t] = Owner \/ getTeamUser(manager[t], t)

\* The seat of the owner is never taken or deactivated: no team is without
\* somebody the guard lets manage it, whatever interleaves.
OwnerNeverLockedOut ==
    /\ verifyWorkspaceAccessByRole(Owner, "OWNER")
    /\ \A t \in ExistingTeams : verifyTeamAccessByRole(Owner, t, "MANAGER")

\* A user is in a team once, no team has more members and the workspace no more
\* teams than allowed.
OneRowWithinLimits ==
    /\ \A t \in Teams, u \in Users : rows[t][u] <= 1
    /\ \A t \in Teams \ {DefaultTeam} : getTeamMembersCount(t) <= MaxMembers
    /\ Cardinality(ExistingTeams) <= MaxTeams

\* The list of members and the details of each tell the same of who manages,
\* the owner excepted: he manages teams he is not in.  A member sees the teams
\* that the guard lets him see.
ListingsAgree ==
    inflight = {} =>
        \A m \in getWorkspaceMembers :
            /\ ~ m.isOwner /\ headless = {} =>
                  (m.isManager <=> \E d \in getMemberDetails(m.user) : d.isManager)
            /\ \A t \in getWorkspaceTeams(m.user) :
                  seat[m.user] = "active" => verifyTeamAccessByRole(m.user, t, "MEMBER")

\* Whom an item is shared with can be shown as long as no team it was shared
\* with has been deleted.
ReceiversListable ==
    \A i \in Items :
        getItemSharedWith(i).throws => \E t \in gone : shared[i][t] > 0

\* Whatever races or stops half way, the owner is never locked out, and whom an
\* item is shared with can be shown until one of those teams is deleted.  With
\* requests one at a time the people of a team have seats, somebody can manage
\* it, it keeps to its limits and both lists tell the same of it.
TeamsCoherent ==
    /\ OwnerNeverLockedOut /\ ReceiversListable
    /\ alone => TeamPeopleHaveSeats /\ ManagerCanManage /\ OneRowWithinLimits /\ ListingsAgree

============================================================================
