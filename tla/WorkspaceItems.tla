--------------------------- MODULE WorkspaceItems ---------------------------
(***************************************************************************)
(* The folders and files of one workspace.  All rows of folders and files  *)
(* belong to one network user; whose they are is in workspace_items_users  *)
(* (creator).  Each member has a root folder below that of the workspace.  *)
(*                                                                         *)
(* A handler is a request in inflight, as in WorkspaceTeams.  Names, sizes *)
(* other than the number of files, and the retention of trash are left     *)
(* out; what races on a single row is in FileLifecycle and FolderTree.     *)
(***************************************************************************)
EXTENDS Naturals, FiniteSets, FiniteSetsExt

CONSTANTS
    Members,        \* people that may join
    Owner,
    Ids,            \* ids of folders and files
    OwnerRoot,      \* the root folder of the owner
    WorkspaceRoot,  \* the folder above all
    Nobody,
    OwnerLimit,     \* files the owner has space for
    Chunk,          \* rows of a page when the trash is emptied (100)
    Busy,           \* bound: people that make, move and trash items
    Returning,      \* bound: members that may join again after leaving
    MaxInFlight,    \* bound: requests at work
    Overlap,        \* may requests interleave?
    Crashes         \* may a request stop half way?

\* What the constants are.
WorkspaceItemsConstants ==
    /\ Owner \notin Members /\ Nobody \notin Members \cup {Owner}
    /\ Busy \cup Returning \subseteq Members \cup {Owner}
    /\ IsFiniteSet(Ids) /\ OwnerRoot \in Ids /\ WorkspaceRoot \notin Ids
    /\ OwnerLimit \in Nat /\ Chunk \in Nat \ {0} /\ MaxInFlight \in Nat
    /\ Overlap \in BOOLEAN /\ Crashes \in BOOLEAN

VARIABLES
    row,      \* of each id: its kind, parent and status ("free" when unused)
    creator,  \* of each id: the creator in its workspace item row, or Nobody
    root,     \* of each user: the root folder in the seat, WorkspaceRoot without seat
    work,     \* requests at work
    comeback  \* history: users that joined a second time

itemVars == <<row, creator, root, work, comeback>>

----------------------------------------------------------------------------
People == Members \cup {Owner}

ItemRow == [kind : {"folder", "file"}, parent : Ids \cup {WorkspaceRoot},
            status : {"free", "EXISTS", "TRASHED", "DELETED"}]

CreatorColumn == People \cup {Nobody}

Free == [kind |-> "folder", parent |-> WorkspaceRoot, status |-> "free"]

Folder(p) == [kind |-> "folder", parent |-> p, status |-> "EXISTS"]

HasSeat(u) == root[u] # WorkspaceRoot

Task(op, u) == [nr |-> 0, op |-> op, user |-> u, id |-> WorkspaceRoot, kind |-> "folder",
                page |-> 0, counts |-> [folder |-> 0, file |-> 0],
                deleting |-> {}, reported |-> {}, before |-> {}]

Init ==
    /\ row = [i \in Ids |-> IF i = OwnerRoot THEN Folder(WorkspaceRoot) ELSE Free]
    /\ creator = [i \in Ids |-> IF i = OwnerRoot THEN Owner ELSE Nobody]
    /\ root = [u \in People |-> IF u = Owner THEN OwnerRoot ELSE WorkspaceRoot]
    /\ work = {} /\ comeback = {}

----------------------------------------------------------------------------
(* Queries.                                                                *)

ItemsWhere(u, kind, status) ==
    {i \in Ids : creator[i] = u /\ row[i].kind = kind /\ row[i].status = status}

getFoldersInWorkspace(u, p) == {i \in ItemsWhere(u, "folder", "EXISTS") : row[i].parent = p}

getFilesInWorkspace(u, p) == {i \in ItemsWhere(u, "file", "EXISTS") : row[i].parent = p}

calculateFilesSizeSum(u) ==
    Cardinality(ItemsWhere(u, "file", "EXISTS") \cup ItemsWhere(u, "file", "TRASHED"))

\* isOwnedBy of the item row, asked by the handlers and by the guard.
isUserCreatorOfItem(u, i) == creator[i] = u

\* The guard that lets a member act in behalf of the network user.
canActivate(u, i) == HasSeat(u) /\ isUserCreatorOfItem(u, i)

\* Listings of a folder, to the creator of the folder.
getPersonalFoldersInFolder(u, p) ==
    IF p \in Ids /\ isUserCreatorOfItem(u, p) THEN getFoldersInWorkspace(u, p) ELSE {}

getPersonalFilesInFolder(u, p) ==
    IF p \in Ids /\ isUserCreatorOfItem(u, p) THEN getFilesInWorkspace(u, p) ELSE {}

\* The trash of a member, as it is shown; retention is left out.
getWorkspaceUserTrashedItems(u) == ItemsWhere(u, "folder", "TRASHED") \cup ItemsWhere(u, "file", "TRASHED")

\* What is in each of these sets.
Common(sets) == {i \in UNION sets : \A S \in sets : i \in S}

\* A recursive query: the least set of folders that goes up from here, but not
\* to folders that were removed or the root of the workspace.
getFolderAncestorsInWorkspace(f) ==
    LET NotRemoved(S) == {j \in S \cap Ids : row[j].status # "DELETED"}
    IN  Common({S \in SUBSET Ids :
            /\ NotRemoved({f}) \subseteq S
            /\ \A j \in S : NotRemoved({row[j].parent}) \subseteq S})

\* The breadcrumbs of an item start at the folder it is, or is in.
getWorkspaceItemAncestors(i) ==
    getFolderAncestorsInWorkspace(IF row[i].kind = "file" THEN row[i].parent ELSE i)

----------------------------------------------------------------------------
(* Requests.                                                               *)

Quiet == Overlap \/ work = {}

Begin(w) ==
    /\ Quiet
    /\ LET taken == {v.nr : v \in work}
       IN  \E k \in (1 .. MaxInFlight) \ taken :
              1 .. k - 1 \subseteq taken /\ work' = work \cup {[w EXCEPT !.nr = k]}
    /\ UNCHANGED <<row, creator, root, comeback>>

Goes(w, to) == work' = (work \ {w}) \cup {to}

Done(w) == work' = work \ {w}

\* An INSERT into folders or files, of a new id.
Insert(w, r, next) ==
    \E i \in {j \in Ids : row[j].status = "free"} :
        row' = [row EXCEPT ![i] = r] /\ Goes(w, [w EXCEPT !.op = next, !.id = i])

createItem(w) == creator' = [creator EXCEPT ![w.id] = w.user]

\* The root folder, the seat and the item
\* row, whose failure takes the seat back.
acceptWorkspaceInvite(u) ==
    /\ ~ HasSeat(u)
    /\ u \notin Returning => \A i \in Ids : creator[i] # u
    /\ Begin(Task("joinFolder", u))

acceptWorkspaceInviteWrites(w) ==
    \/ /\ w.op = "joinFolder" /\ Insert(w, Folder(WorkspaceRoot), "joinSeat")
       /\ UNCHANGED <<creator, root, comeback>>
    \/ /\ w.op = "joinSeat" /\ root' = [root EXCEPT ![w.user] = w.id]
       /\ comeback' = IF \E i \in Ids : creator[i] = w.user THEN comeback \cup {w.user} ELSE comeback
       /\ Goes(w, [w EXCEPT !.op = "joinItem"]) /\ UNCHANGED <<row, creator>>
    \/ /\ w.op = "joinItem" /\ createItem(w) /\ Done(w) /\ UNCHANGED <<row, root, comeback>>
    \/ /\ w.op = "joinItem" /\ root' = [root EXCEPT ![w.user] = WorkspaceRoot] /\ Done(w)
       /\ UNCHANGED <<row, creator, comeback>>

\* Any folder the member created will do.
createFile(u, p) ==
    /\ row[p].kind = "folder" /\ isUserCreatorOfItem(u, p)
    /\ Begin([Task("insertFile", u) EXCEPT !.id = p, !.kind = "file"])

createFolder(u, p) ==
    /\ row[p].kind = "folder" /\ isUserCreatorOfItem(u, p)
    /\ Begin([Task("insertFolder", u) EXCEPT !.id = p])

createWrites(w) ==
    \/ /\ w.op \in {"insertFile", "insertFolder"}
       /\ Insert(w, [kind |-> w.kind, parent |-> w.id, status |-> "EXISTS"], "insertItem")
       /\ UNCHANGED <<creator, root, comeback>>
    \/ w.op = "insertItem" /\ createItem(w) /\ Done(w) /\ UNCHANGED <<row, root, comeback>>

SetRow(i, r) == Quiet /\ row' = [row EXCEPT ![i] = r] /\ UNCHANGED <<creator, root, work, comeback>>

\* POST /storage/trash/add in behalf of the network user.
moveItemsToTrash(u, i) ==
    /\ canActivate(u, i) /\ row[i].status = "EXISTS"
    /\ SetRow(i, [row[i] EXCEPT !.status = "TRASHED"])

\* DELETE /storage/trash
deleteItemsPermanently(u, i) ==
    /\ canActivate(u, i) /\ row[i].status \in {"EXISTS", "TRASHED"}
    /\ SetRow(i, [row[i] EXCEPT !.status = "DELETED"])

\* Neither the item nor the folder it is in was removed, and the destination is
\* in use and not where the item is already.  It may be the item itself.
movable(i, to) ==
    /\ row[i].status \in {"EXISTS", "TRASHED"}
    /\ row[to].kind = "folder" /\ row[to].status = "EXISTS"
    /\ row[i].status = "EXISTS" => row[i].parent # to
    /\ row[i].kind = "folder" /\ row[i].parent \in Ids => row[row[i].parent].status # "DELETED"

\* PATCH /folders/:uuid and /files/:uuid, out of the trash as well; the guard
\* asks for the creator of the item and not of the destination.
moveItem(u, i, to) ==
    /\ canActivate(u, i) /\ movable(i, to)
    /\ SetRow(i, [row[i] EXCEPT !.parent = to, !.status = "EXISTS"])

\* The owner must have space for what the member has.
leaveWorkspace(u) ==
    /\ calculateFilesSizeSum(u) + calculateFilesSizeSum(Owner) <= OwnerLimit
    /\ Begin([Task("leaveLooks", u) EXCEPT !.id = root[u]])

\* Mutant: only folders are looked for in the root folder of the leaver.
transferFolders(w) ==
    /\ w.op = "leaveLooks"
    /\ \/ /\ getFoldersInWorkspace(w.user, w.id) = {}
          /\ Goes(w, [w EXCEPT !.op = "leaveSeat"]) /\ UNCHANGED row
       \/ /\ getFoldersInWorkspace(w.user, w.id) # {} /\ movable(w.id, OwnerRoot)
          /\ row' = [row EXCEPT ![w.id] = Folder(OwnerRoot)]
          /\ Goes(w, [w EXCEPT !.op = "leaveRows"])
    /\ UNCHANGED <<creator, root, comeback>>

\* Nothing is transferred when nothing live is in the root folder of the
\* leaver; else it is moved below that of the owner, or nobody leaves.
transferPersonalItemsToWorkspaceOwner(w) ==
    /\ w.op = "leaveLooks"
    /\ LET found == getFoldersInWorkspace(w.user, w.id) \cup getFilesInWorkspace(w.user, w.id)
       IN  \/ /\ found = {}
              /\ Goes(w, [w EXCEPT !.op = "leaveSeat"]) /\ UNCHANGED row
           \/ /\ found # {} /\ movable(w.id, OwnerRoot)
              /\ row' = [row EXCEPT ![w.id] = Folder(OwnerRoot)]
              /\ Goes(w, [w EXCEPT !.op = "leaveRows"])
           \/ found # {} /\ ~ movable(w.id, OwnerRoot) /\ Done(w) /\ UNCHANGED row
    /\ UNCHANGED <<creator, root, comeback>>

leaveWorkspaceWrites(w) ==
    \/ /\ w.op = "leaveRows"
       /\ creator' = [i \in DOMAIN creator |-> IF creator[i] = w.user THEN Owner ELSE creator[i]]
       /\ Goes(w, [w EXCEPT !.op = "leaveSeat"]) /\ UNCHANGED <<row, root, comeback>>
    \/ /\ w.op = "leaveSeat"
       /\ root' = [root EXCEPT ![w.user] = WorkspaceRoot]
       /\ Done(w) /\ UNCHANGED <<row, creator, comeback>>

\* Mutant: the folders are counted for both.
emptyUserTrashedFolders(u) ==
    LET folders == ItemsWhere(u, "folder", "TRASHED")
    IN  Begin([Task("empty", u) EXCEPT
                   !.counts = [folder |-> Cardinality(folders), file |-> Cardinality(folders)],
                   !.before = getWorkspaceUserTrashedItems(u)])

\* Pages are counted first.
emptyUserTrashedItems(u) ==
    LET folders == ItemsWhere(u, "folder", "TRASHED")
        files   == ItemsWhere(u, "file", "TRASHED")
    IN  Begin([Task("empty", u) EXCEPT
                   !.counts = [folder |-> Cardinality(folders), file |-> Cardinality(files)],
                   !.before = getWorkspaceUserTrashedItems(u)])

\* A page is any rows, as there is no ORDER BY, less the offset; the pages
\* before are being deleted meanwhile.
emptyTrashItems(w) ==
    /\ w.op = "empty"
    /\ LET found == ItemsWhere(w.user, w.kind, "TRASHED")
           size  == IF Cardinality(found) <= w.page THEN 0 ELSE Min({Chunk, Cardinality(found) - w.page})
       IN  /\ w.page < w.counts[w.kind]
           /\ \E items \in kSubset(size, found) :
                 Goes(w, [w EXCEPT !.page = @ + Chunk, !.deleting = @ \cup items, !.reported = @ \cup items])
    /\ UNCHANGED <<row, creator, root, comeback>>

\* deleteByUser, not awaited until all pages were read; then the files.
emptyTrashDeletes(w) ==
    \/ /\ w.op = "empty"
       /\ \E i \in w.deleting :
             /\ row' = [row EXCEPT ![i].status = "DELETED"]
             /\ Goes(w, [w EXCEPT !.deleting = @ \ {i}])
       /\ UNCHANGED <<creator, root, comeback>>
    \/ /\ w.op = "empty" /\ w.page >= w.counts[w.kind] /\ w.deleting = {}
       /\ Goes(w, IF w.kind = "folder" THEN [w EXCEPT !.kind = "file", !.page = 0]
                                       ELSE [w EXCEPT !.op = "emptied"])
       /\ UNCHANGED <<row, creator, root, comeback>>

emptyTrashReturns(w) == w.op = "emptied" /\ Done(w) /\ UNCHANGED <<row, creator, root, comeback>>

requestDies(w) == Crashes /\ Done(w) /\ UNCHANGED <<row, creator, root, comeback>>

----------------------------------------------------------------------------
(* The endpoints, for members with a seat.                                 *)

\* POST /workspaces/:workspaceId/files and .../folders
createFileRequest(u, p) == HasSeat(u) /\ createFile(u, p)

createFolderRequest(u, p) == HasSeat(u) /\ createFolder(u, p)

\* DELETE /workspaces/:workspaceId/trash
emptyTrash(u) == HasSeat(u) /\ emptyUserTrashedItems(u)

\* GET /workspaces/:workspaceId/folders/:folderUuid/folders and .../files
getFoldersInFolder(u, p) == IF HasSeat(u) THEN getPersonalFoldersInFolder(u, p) ELSE {}

getFilesInFolder(u, p) == IF HasSeat(u) THEN getPersonalFilesInFolder(u, p) ELSE {}

Next ==
    \/ \E u \in Members : acceptWorkspaceInvite(u) \/ (HasSeat(u) /\ leaveWorkspace(u))
    \/ \E u \in Busy : \/ emptyTrash(u)
                       \/ \E i \in Ids : \/ createFileRequest(u, i) \/ createFolderRequest(u, i)
                                         \/ moveItemsToTrash(u, i) \/ deleteItemsPermanently(u, i)
                                         \/ \E to \in Ids : moveItem(u, i, to)
    \/ \E w \in work :
          \/ acceptWorkspaceInviteWrites(w) \/ createWrites(w)
          \/ transferPersonalItemsToWorkspaceOwner(w) \/ leaveWorkspaceWrites(w)
          \/ emptyTrashItems(w) \/ emptyTrashDeletes(w) \/ emptyTrashReturns(w) \/ requestDies(w)

Spec == Init /\ [][Next]_itemVars

----------------------------------------------------------------------------
(* Properties.                                                             *)

\* The path from an item up; it stops at the root of the workspace, and in a
\* cycle it goes round.
PathOf(i) ==
    Common({S \in SUBSET (Ids \cup {WorkspaceRoot}) :
                i \in S /\ \A j \in S \cap Ids : row[j].parent \in S})

\* Live up to the root of the workspace, through folders of one creator.
Straight(i) ==
    /\ WorkspaceRoot \in PathOf(i)
    /\ \A j \in PathOf(i) \ {WorkspaceRoot} : row[j].status = "EXISTS" /\ creator[j] = creator[i]
    /\ creator[i] # Nobody

\* What a user finds walking down from the root folder.
Walk(u) ==
    Common({S \in SUBSET Ids :
                /\ {root[u]} \cap Ids \subseteq S
                /\ \A p \in S : getFoldersInFolder(u, p) \cup getFilesInFolder(u, p) \subseteq S})

\* Rows have the columns of their models; ids in use have a parent in use.
TypeOK ==
    /\ row \in [Ids -> ItemRow]
    /\ creator \in [Ids -> CreatorColumn]
    /\ root \in [People -> Ids \cup {WorkspaceRoot}]
    /\ \A i \in Ids : row[i].status # "free" /\ row[i].parent \in Ids =>
            row[row[i].parent].status # "free" /\ row[row[i].parent].kind = "folder"
    /\ \A u \in People : HasSeat(u) => row[root[u]].kind = "folder" /\ row[root[u]].status # "free"
    /\ \A i \in Ids : row[i].status = "free" => creator[i] = Nobody
    /\ comeback \subseteq Members

\* What a member made and did not trash or put elsewhere is found by somebody:
\* by the member, or by the owner once the member has left.  Only the empty
\* root folder of somebody who left stays behind, as long as nobody comes back:
\* the root folder left behind then is a second one, which no transfer moves.
NothingLostWithItsMember ==
    work = {} /\ comeback = {} =>
        \A i \in Ids :
            Straight(i) =>
                \/ HasSeat(creator[i]) /\ i \in Walk(creator[i])
                \/ /\ ~ HasSeat(creator[i]) /\ row[i].parent = WorkspaceRoot
                   /\ ~ \E j \in Ids : row[j].parent = i /\ Straight(j)

\* Whatever interleaves, the items that emptying the trash reports are deleted
\* for good.
EmptyingReportsDeleted ==
    \A w \in work : w.op = "emptied" => \A i \in w.reported : row[i].status = "DELETED"

\* Emptying the trash takes nothing that was not the member's and in the trash
\* when it began.
EmptyingTakesOwnTrash == \A w \in work : w.op = "emptied" => w.reported \subseteq w.before

\* Emptying the trash gets on: of each kind at least a page is deleted, and all
\* when they fit one page.
EmptyingMakesProgress ==
    \A w \in work : w.op = "emptied" =>
        \A kind \in {"folder", "file"} :
            LET trash == {i \in w.before : row[i].kind = kind}
            IN  Cardinality({i \in trash : row[i].status = "DELETED"}) >= Min({Chunk, Cardinality(trash)})

\* The breadcrumbs of what a member finds lead to the root folder and name
\* nothing the member does not find, unless the root folder was put elsewhere.
BreadcrumbsLeadHome ==
    work = {} =>
        \A u \in People : HasSeat(u) /\ row[root[u]].parent = WorkspaceRoot /\ row[root[u]].status = "EXISTS" =>
            \A i \in Walk(u) :
                getWorkspaceItemAncestors(i) \subseteq Walk(u) /\ root[u] \in getWorkspaceItemAncestors(i)

\* Who has a seat and went through the acceptance owns the own root folder, so
\* that there is somewhere to upload to.
RootsUsable ==
    work = {} => \A u \in People : HasSeat(u) => isUserCreatorOfItem(u, root[u])

=============================================================================
