--------------------------- MODULE WorkspaceSpace ---------------------------
(***************************************************************************)
(* How the storage of one workspace is shared out: the limit the network   *)
(* puts on the workspace, the seats of its plan, the rows of               *)
(* workspace_users with the space and the usage of each member, and the    *)
(* pending invitations.  What the owner has not given away is the space    *)
(* limit of the owner's own row.                                           *)
(*                                                                         *)
(* A request is a record that says which write comes next.  None of them   *)
(* runs in a transaction, so that they interleave at every await, and any  *)
(* of them may fail at the next one; in the behaviours where alone is TRUE *)
(* each one runs alone, the write that a change of a member's space does   *)
(* not wait for included.                                                  *)
(***************************************************************************)
EXTENDS Integers, FiniteSets, FiniteSetsExt

CONSTANTS
    Users, Owner,  \* users, one of whom owns the workspace
    Plans,         \* the plans on sale: network limit and seats
    Spaces,        \* space limits an invitation or an assignment asks for
    MaxUse,        \* bound: size of the files of a user who uploads
    MaxLimit,      \* bound: space limits, either sign, that a change of plan leads to
    MaxInvites,    \* bound: pending invitations
    MaxInFlight    \* bound: requests between two of their awaits

ASSUME WorkspaceConstants ==
    /\ Owner \in Users
    /\ Plans # {} /\ Plans \subseteq [limit : Nat, seats : Nat \ {0}]
    /\ Spaces \subseteq Nat \ {0}
    /\ MaxUse \in Nat /\ MaxLimit \in Nat /\ MaxInvites \in Nat /\ MaxInFlight \in Nat

VARIABLES
    plan,      \* the limit on the network and the seats of the workspace
    rows,      \* table workspace_users
    invites,   \* table workspaces_invites
    usage,     \* size of the files each user created, in the trash or not
    requests,  \* requests in flight
    excused,   \* history: the operations of requests that stopped half way for good
    alone      \* does each request of this behaviour run alone?

vars == <<plan, rows, invites, usage, requests, excused, alone>>

----------------------------------------------------------------------------
Plan == [limit : Nat, seats : Nat \ {0}]

\* Operations of which the code does not undo what comes before a failure.
Excuses == {"accept", "change", "plan", "leave"}

Row == [id : Nat, user : Users, limit : Int, drive : Nat]

Invite == [id : Nat, user : Users, space : Nat]

\* nr tells apart requests that have read the same; amount is the space an
\* operation moves and then the new limit of the owner, invite the invitation
\* it is about, writes the copies of rows to be written back, target the plan
\* to come.
Request ==
    [nr : Nat, op : {"invite", "accept", "change", "plan", "upload", "sync", "leave"},
     step : {"createInvite", "mail", "insert", "join", "uninvite", "rollback",
             "readOwner", "writeOwner", "writeRows", "setStorage", "setSeats",
             "createFile", "writeUsage", "transfer", "readMember", "deleteRows"},
     user : Users, amount : Int, invite : SUBSET Invite, writes : SUBSET Row, target : Plan]

RowsOf(u) == {m \in rows : m.user = u}

\* The workspace has just been set up: the owner is its only member.
Init ==
    /\ plan \in Plans
    /\ rows = {[id |-> 1, user |-> Owner, limit |-> plan.limit, drive |-> 0]}
    /\ invites = {}
    /\ usage = [u \in Users |-> 0]
    /\ requests = {}
    /\ excused = {}
    /\ alone \in BOOLEAN

----------------------------------------------------------------------------
Quiet == alone => requests = {}

\* The first number no request in flight has.
Free(k) == {r.nr : r \in requests} \cap 1 .. k = 1 .. (k - 1)

Start(r) ==
    /\ Quiet
    /\ \E k \in 1 .. MaxInFlight :
          Free(k) /\ requests' = requests \cup {[r EXCEPT !.nr = k]}

Finish(r) == requests' = requests \ {r}

Continue(r, s) == requests' = (requests \ {r}) \cup {s}

Goto(r, step) == Continue(r, [r EXCEPT !.step = step])

\* The history is kept where requests run alone.
Excuse(r, half) == excused' = IF alone /\ half THEN excused \cup {r.op} ELSE excused

Req(op, step, u, amount) ==
    [nr |-> 0, op |-> op, step |-> step, user |-> u, amount |-> amount,
     invite |-> {}, writes |-> {}, target |-> plan]

\* A uuid.  Ids are told apart within a user only: the first one that no row,
\* no invitation and no request mentions together with u.
FreshId(u) ==
    LET mentioned == rows \cup invites \cup UNION {r.writes \cup r.invite : r \in requests}
        used == {x.id : x \in {y \in mentioned : y.user = u}}
    IN  CHOOSE n \in 1 .. (Cardinality(used) + 1) : n \notin used

SameId(x, y) == x.user = y.user /\ x.id = y.id

\* Mutant: one member too many.
isWorkspaceFullExclusive == plan.seats < Cardinality(rows)

isWorkspaceFull == plan.seats <= Cardinality(rows)

\* findWorkspaceUser is a findOne: any of the user's rows.
getOwnerAvailableSpace(space) ==
    \E o \in RowsOf(Owner) : space <= o.limit - usage[Owner]

getSpaceLimitInInvitations == MapThenSumSet(LAMBDA i : i.space, invites)

----------------------------------------------------------------------------
(* Invitations.                                                            *)

\* POST /workspaces/:id/members/invite.  Without a space of its own the
\* invitation gets an equal share.
inviteUserToWorkspace(u, space) ==
    /\ space \in Spaces \cup {plan.limit \div plan.seats}
    /\ RowsOf(u) = {} /\ ~ \E i \in invites : i.user = u
    /\ ~ isWorkspaceFull
    /\ getOwnerAvailableSpace(space)
    /\ Cardinality(invites) + Cardinality(requests) < MaxInvites
    /\ Start(Req("invite", "createInvite", u, space))
    /\ UNCHANGED <<plan, rows, invites, usage, excused>>

createInvite(r) ==
    /\ r.step = "createInvite"
    /\ LET i == [id |-> FreshId(r.user), user |-> r.user, space |-> r.amount] IN
          /\ invites' = invites \cup {i}
          /\ Continue(r, [r EXCEPT !.step = "mail", !.invite = {i}])
    /\ UNCHANGED <<plan, rows, usage, excused>>

\* The mail to a user without an account may fail, and the invitation goes.
sendInvitation(r) ==
    /\ r.step = "mail"
    /\ invites' \in {invites, invites \ r.invite}
    /\ Finish(r)
    /\ UNCHANGED <<plan, rows, usage, excused>>

removeWorkspaceInvite(i) ==
    /\ Quiet
    /\ invites' = invites \ {i}
    /\ UNCHANGED <<plan, rows, usage, requests, excused>>

\* POST /workspaces/invitations/accept, first by someone who is a member.
acceptInviteOfMember(i) ==
    /\ RowsOf(i.user) # {}
    /\ removeWorkspaceInvite(i)

acceptWorkspaceInvite(i) ==
    /\ RowsOf(i.user) = {}
    /\ ~ isWorkspaceFull
    /\ getOwnerAvailableSpace(i.space)
    /\ Start([Req("accept", "insert", i.user, i.space) EXCEPT !.invite = {i}])
    /\ UNCHANGED <<plan, rows, invites, usage, excused>>

\* There is no unique index on member and workspace.
addUserToWorkspace(r) ==
    /\ r.step = "insert"
    /\ rows' = rows \cup {[id |-> FreshId(r.user), user |-> r.user,
                           limit |-> r.amount, drive |-> 0]}
    /\ Goto(r, "join")
    /\ UNCHANGED <<plan, invites, usage, excused>>

\* The default team and the item of the member's root folder.
addUserToTeam(r) ==
    /\ r.step = "join"
    /\ Goto(r, "uninvite")
    /\ UNCHANGED <<plan, rows, invites, usage, excused>>

deleteInvite(r) ==
    /\ r.step = "uninvite"
    /\ invites' = invites \ r.invite
    /\ Goto(r, "readOwner")
    /\ UNCHANGED <<plan, rows, usage, excused>>

\* Deletes by user, not by row.
rollbackUserAddedToWorkspace(r) ==
    /\ r.step = "rollback"
    /\ rows' = rows \ RowsOf(r.user)
    /\ Finish(r)
    /\ UNCHANGED <<plan, invites, usage, excused>>

----------------------------------------------------------------------------
(* Moving space from and to the owner.                                     *)

Deducts(r) == r.op = "accept" \/ (r.op = "change" /\ r.amount > 0)

\* For a change amount is the difference, of either sign.
newOwnerLimit(r, o) ==
    IF r.op \in {"accept", "change"} THEN o.limit - r.amount ELSE o.limit + r.amount

\* adjustOwnerStorage reads the owner's row and checks the move against the
\* network's limit.
adjustOwnerStorage(r) ==
    /\ r.step = "readOwner"
    /\ \E o \in RowsOf(Owner) :
          IF IF Deducts(r) THEN r.amount <= plan.limit - usage[Owner]
             ELSE newOwnerLimit(r, o) <= plan.limit
          THEN /\ Continue(r, [r EXCEPT !.step = "writeOwner", !.amount = newOwnerLimit(r, o)])
               /\ UNCHANGED excused
          ELSE /\ IF r.op = "accept" THEN Goto(r, "rollback") ELSE Finish(r)
               /\ Excuse(r, r.op = "plan")
    /\ UNCHANGED <<plan, rows, invites, usage>>

\* The step of each operation that comes after adjustOwnerStorage.
NextStep == [change |-> "writeRows", plan |-> "setSeats", leave |-> "deleteRows"]

\* updateWorkspaceUserBy writes the limit computed from what was read.
updateOwnerLimit(r) ==
    /\ r.step = "writeOwner"
    /\ rows' = {IF m.user = Owner THEN [m EXCEPT !.limit = r.amount] ELSE m : m \in rows}
    /\ IF r.op = "accept" THEN Finish(r) ELSE Goto(r, NextStep[r.op])
    /\ UNCHANGED <<plan, invites, usage, excused>>

\* updateWorkspaceUser writes every column of a copy read earlier, by row id.
\* An assignment to the owner itself overwrites the owner's limit that
\* adjustOwnerStorage has just written.  The answer to an assignment does not
\* wait for this write.
updateWorkspaceUser(r) ==
    /\ r.step = "writeRows"
    /\ \E w \in r.writes :
          /\ rows' = {IF SameId(m, w) THEN w ELSE m : m \in rows}
          /\ LET s == [r EXCEPT !.writes = @ \ {w}] IN
                IF s.writes # {} THEN Continue(r, s)
                ELSE IF r.op = "plan" THEN Continue(r, [s EXCEPT !.step = "setStorage"])
                ELSE Finish(r)
          /\ Excuse(r, r.op = "change" /\ w.user = Owner)
    /\ UNCHANGED <<plan, invites, usage>>

\* getAssignableSpaceInWorkspace, with what the member already has.
assignable(m, space) ==
    getOwnerAvailableSpace(space - m.limit + getSpaceLimitInInvitations)

\* PATCH /workspaces/:id/members/:memberId/usage.
changeUserAssignedSpace(m, space) ==
    /\ assignable(m, space)
    /\ m.drive < space
    /\ space * plan.seats <= plan.limit
    /\ Start([Req("change", "readOwner", m.user, space - m.limit)
                EXCEPT !.writes = {[m EXCEPT !.limit = space]}])
    /\ UNCHANGED <<plan, rows, invites, usage, excused>>

----------------------------------------------------------------------------
(* The payments service changes the plan.                                  *)

\* calculateWorkspaceLimits: what each member gains, and what is left over.
\* Shares are not rounded, so that the difference of two may be a fraction.
spaceDifference(p) ==
    (p.limit * plan.seats - plan.limit * p.seats) \div (p.seats * plan.seats)

isWhole(p) == (p.limit * plan.seats - plan.limit * p.seats) % (p.seats * plan.seats) = 0

\* Mutant: as if every seat were taken.
unusedSpaceOfFull(p) == p.limit - plan.limit - spaceDifference(p) * p.seats

unusedSpace(p) == p.limit - plan.limit - spaceDifference(p) * Cardinality(rows)

\* updateWorkspace and updateWorkspaceStorage.  The check of the new plan,
\* validateStorageForPlanChange, is another endpoint.  The column takes no
\* fraction of a byte: the first write of one fails, before anything is written.
updateWorkspaceLimit(p) ==
    /\ isWhole(p)
    /\ \A m \in rows : m.limit + spaceDifference(p) \in -MaxLimit .. MaxLimit
    /\ Start([Req("plan", "writeRows", Owner, unusedSpace(p)) EXCEPT
                !.writes = {[m EXCEPT !.limit = @ + spaceDifference(p)] : m \in rows},
                !.target = p])
    /\ UNCHANGED <<plan, rows, invites, usage, excused>>

setStorage(r) ==
    /\ r.step = "setStorage"
    /\ plan' = [plan EXCEPT !.limit = r.target.limit]
    /\ Goto(r, "readOwner")
    /\ UNCHANGED <<rows, invites, usage, excused>>

updateWorkspaceMemberCount(r) ==
    /\ r.step = "setSeats"
    /\ plan' = [plan EXCEPT !.seats = r.target.seats]
    /\ Finish(r)
    /\ UNCHANGED <<rows, invites, usage, excused>>

----------------------------------------------------------------------------
(* Files.                                                                  *)

\* Mutant: the sign is wrong.
subtractDriveUsage(m) == [m EXCEPT !.drive = @ - 1]

addDriveUsage(m) == [m EXCEPT !.drive = @ + 1]

\* POST /workspaces/:id/files with a file of size 1.
uploadFile(m) ==
    /\ m.limit - m.drive >= 1
    /\ usage[m.user] + Cardinality(requests) < MaxUse
    /\ Start([Req("upload", "createFile", m.user, 0)
                EXCEPT !.writes = {addDriveUsage(m)}])
    /\ UNCHANGED <<plan, rows, invites, usage, excused>>

createFile(r) ==
    /\ r.step = "createFile"
    /\ usage' = [usage EXCEPT ![r.user] = @ + 1]
    /\ Goto(r, "writeRows")
    /\ UNCHANGED <<plan, rows, invites, excused>>

\* A file of the user is deleted for good; the row is not told.
deleteFile(u) ==
    /\ Quiet
    /\ usage[u] > 0
    /\ usage' = [usage EXCEPT ![u] = @ - 1]
    /\ UNCHANGED <<plan, rows, invites, requests, excused>>

\* GET /workspaces/:id/usage sums up the files and saves the sum.
getUserUsageInWorkspace(m) ==
    /\ Start([Req("sync", "writeUsage", m.user, 0)
                EXCEPT !.writes = {[m EXCEPT !.drive = usage[m.user]]}])
    /\ UNCHANGED <<plan, rows, invites, usage, excused>>

\* The only write of a row that names its columns.
updateDriveUsage(r) ==
    /\ r.step = "writeUsage"
    /\ \E w \in r.writes :
          rows' = {IF SameId(m, w) THEN [m EXCEPT !.drive = w.drive] ELSE m : m \in rows}
    /\ Finish(r)
    /\ UNCHANGED <<plan, invites, usage, excused>>

----------------------------------------------------------------------------
(* A member leaves or is removed.                                          *)

leaveWorkspace(u) ==
    /\ u # Owner /\ RowsOf(u) # {}
    /\ \E o \in RowsOf(Owner) : o.limit >= usage[u] + usage[Owner]
    /\ Start(Req("leave", "transfer", u, 0))
    /\ UNCHANGED <<plan, rows, invites, usage, excused>>

\* The member's files become the owner's, unless all of them are in the trash.
transferPersonalItemsToWorkspaceOwner(r) ==
    /\ r.step = "transfer"
    /\ usage' \in {usage, [usage EXCEPT ![Owner] = @ + usage[r.user], ![r.user] = 0]}
    /\ Goto(r, "readMember")
    /\ UNCHANGED <<plan, rows, invites, excused>>

\* Without a row, which a request that raced has deleted, the handler throws.
readLeavingMember(r) ==
    /\ r.step = "readMember"
    /\ \/ RowsOf(r.user) = {} /\ Finish(r)
       \/ \E m \in RowsOf(r.user) :
             Continue(r, [r EXCEPT !.step = "readOwner", !.amount = m.limit])
    /\ UNCHANGED <<plan, rows, invites, usage, excused>>

deleteUserFromWorkspace(r) ==
    /\ r.step = "deleteRows"
    /\ rows' = rows \ RowsOf(r.user)
    /\ Finish(r)
    /\ UNCHANGED <<plan, invites, usage, excused>>

----------------------------------------------------------------------------
(* Failures.                                                               *)

\* What the request has written waits for a write that does not come: a member
\* whose rollback fails, space that the owner gave or got for a row that stays
\* as it was, a plan that not all of the rows, the network and the owner follow.
HalfDone(r) ==
    \/ r.step = "rollback" /\ RowsOf(r.user) # {}
    \/ r.op = "change" /\ r.step = "writeRows"
    \/ r.op = "plan" /\ r.step # "setSeats"
    \/ r.op = "leave" /\ r.step = "deleteRows"

\* The database or the network fails a request at its next step.  Only an
\* acceptance is rolled back, unless that fails too.
fails(r) ==
    /\ r.step # "mail"
    /\ IF r.op = "accept" /\ r.step # "rollback" THEN Goto(r, "rollback") ELSE Finish(r)
    /\ Excuse(r, HalfDone(r))
    /\ UNCHANGED <<plan, rows, invites, usage>>

----------------------------------------------------------------------------
RequestStep ==
    \E r \in requests :
        \/ createInvite(r) \/ sendInvitation(r)
        \/ addUserToWorkspace(r) \/ addUserToTeam(r) \/ deleteInvite(r)
        \/ rollbackUserAddedToWorkspace(r)
        \/ adjustOwnerStorage(r) \/ updateOwnerLimit(r) \/ updateWorkspaceUser(r)
        \/ setStorage(r) \/ updateWorkspaceMemberCount(r)
        \/ createFile(r) \/ updateDriveUsage(r)
        \/ transferPersonalItemsToWorkspaceOwner(r) \/ readLeavingMember(r)
        \/ deleteUserFromWorkspace(r)
        \/ fails(r)

Step ==
    \/ \E u \in Users, s \in Spaces \cup {plan.limit \div plan.seats} :
          inviteUserToWorkspace(u, s)
    \/ \E i \in invites : \/ removeWorkspaceInvite(i) \/ acceptInviteOfMember(i)
                          \/ acceptWorkspaceInvite(i)
    \/ \E m \in rows : \/ \E s \in Spaces : changeUserAssignedSpace(m, s)
                       \/ uploadFile(m)
                       \/ getUserUsageInWorkspace(m)
    \/ \E u \in Users : deleteFile(u) \/ leaveWorkspace(u)
    \/ \E p \in Plans : updateWorkspaceLimit(p)
    \/ RequestStep

Next == Step /\ UNCHANGED alone

Spec == Init /\ [][Next]_vars

----------------------------------------------------------------------------
(* Properties of every schedule.                                           *)

\* Rows, invitations and requests keep their types: no usage becomes negative,
\* and no two rows of a user have the same id.
TypeOK ==
    /\ plan \in Plan
    /\ rows \subseteq Row
    /\ \A m, n \in rows : SameId(m, n) => m = n
    /\ invites \subseteq Invite
    /\ usage \in [Users -> Nat]
    /\ requests \subseteq Request
    /\ excused \subseteq Excuses /\ alone \in BOOLEAN

\* Nobody joins a workspace beyond the seats of its plan, but for invitations
\* that are accepted at the same time: each that is in flight can take one
\* more than the seats of a plan that the workspace had.
SeatsBounded ==
    [][Cardinality(rows') > Cardinality(rows) =>
          IF alone THEN Cardinality(rows') <= plan.seats
          ELSE \E p \in Plans : Cardinality(rows') < p.seats + MaxInFlight]_vars

(* Properties of requests that run one at a time.                          *)

SpaceAccounted ==
    requests = {} /\ excused = {} =>
        MapThenSumSet(LAMBDA m : m.limit, rows) = plan.limit

InvitesReserveOnce ==
    requests = {} /\ "accept" \notin excused =>
        \A i \in invites : /\ RowsOf(i.user) = {}
                           /\ \A j \in invites : i.user = j.user => i = j

\* The books balance: what the members hold adds up to what the network allows
\* the workspace, through invitations, acceptances that fail and are rolled
\* back, assignments, members who leave, uploads and changes of plan; and space
\* is set aside once for a user, for one invitation and for none once the user
\* is a member.  Excused is what the code does not undo: a rollback that fails,
\* the owner assigning space to itself, and an assignment, a leave or a change
\* of plan that stops between what it writes for the member and for the owner.
SpaceAccountedAlone == alone => SpaceAccounted /\ InvitesReserveOnce

============================================================================
