------------------------- MODULE SharedNavigation -------------------------
(***************************************************************************)
(* Walking through the folders below a shared one.  Whoever opens a folder *)
(* gets a token that names the shared folder and where he is; the next     *)
(* request must be for a child of that folder, or for its parent, and is   *)
(* answered with another token.  The database is asked for the sharing     *)
(* each time.  One tree stands for the drive of a user, shared with        *)
(* another or by a link, and for the items of a workspace, shared with     *)
(* teams.  The same tokens let a guest act on items, as his role permits.  *)
(***************************************************************************)
EXTENDS Naturals

CONSTANTS
    Folders,   \* folders of the owner
    Root,      \* his root folder
    Shared,    \* folders that may be shared
    Owner,     \* owner of the drive or creator of the items
    Guest,     \* who walks
    Teams,     \* teams of the workspace
    Public,    \* the receiver of a public sharing
    NoFolder,  \* null
    NoToken,   \* the header or parameter is absent
    MaxMoves   \* bound: folders moved

\* What the constants are; a sharing with the owner himself is refused.
NavigationConstants ==
    /\ Root \in Folders /\ Shared \subseteq Folders \ {Root} /\ MaxMoves \in Nat
    /\ Guest # Owner

VARIABLES
    parent,   \* of each folder
    trashed,  \* folders with deleted = true
    shares,   \* rows of sharings with their role
    members,  \* teams the guest is in
    token,    \* a token that was issued
    moves     \* folders moved so far

vars == <<parent, trashed, shares, members, token, moves>>

----------------------------------------------------------------------------
RoleNames == {"EDITOR", "VIEWER"}

SharedWith == {Guest, Public} \cup Teams

Sharing == [item : Shared, with : SharedWith, role : RoleNames]

\* moved: history, a folder has been moved since the first token of the walk.
Token == [root : Shared, folder : Folders, parent : Folders \cup {NoFolder}, moved : BOOLEAN]

\* f and the folders below it: what every set has that holds f and, with a folder,
\* its children.
Below(f) ==
    LET closed == {S \in SUBSET Folders : f \in S /\ \A g \in Folders : parent[g] \in S => g \in S}
    IN  {g \in Folders : \A S \in closed : g \in S}

Init ==
    /\ parent \in [Folders -> {NoFolder, Root} \cup Shared]
    /\ parent[Root] = NoFolder
    /\ \A f \in Folders \ {Root} : parent[f] \notin {NoFolder, f}
    /\ Below(Root) = Folders
    /\ trashed = {} /\ shares = {} /\ members = {}
    /\ token = NoToken /\ moves = 0

----------------------------------------------------------------------------
(* Checks.                                                                 *)

getByUuid(f) == f \in Folders /\ f \notin trashed

Rows(item, with) == {s \in shares : s.item = item /\ s.with \in with}

\* A request without a token is for the shared folder itself.
RootOf(f, t) == IF t = NoToken THEN f ELSE t.root

\* The check of getFoldersInSharedFolder.
navigatesFolders(f, t) ==
    t # NoToken =>
        LET navigationUp == f = t.parent
            navigationDown == parent[f] = t.folder
            navigationUpFromSharedFolder == navigationUp /\ t.root = t.folder
        IN  ~ navigationUpFromSharedFolder /\ (navigationDown \/ navigationUp)

\* The check of getFilesInSharedFolder.
navigatesFiles(f, t) ==
    t # NoToken =>
        LET navigationUp == f = t.parent
            navigationDown == parent[f] = t.folder
            insideTheSharedRootFolder == t.root = t.folder
        IN  ~ (\/ ~ navigationDown /\ ~ navigationUp
               \/ navigationUp /\ insideTheSharedRootFolder)

\* GET /sharings/items/:sharedFolderId/folders and .../files
getFoldersInSharedFolder(f, t, u) ==
    /\ getByUuid(f)
    /\ u = Owner \/ (Rows(RootOf(f, t), {u}) # {} /\ navigatesFolders(f, t))

getFilesInSharedFolder(f, t, u) ==
    /\ getByUuid(f)
    /\ u = Owner \/ (Rows(RootOf(f, t), {u}) # {} /\ navigatesFiles(f, t))

\* GET /sharings/public/items/:sharedFolderId/folders and .../files take any
\* sharing of the folder.
getFoldersFromPublicFolder(f, t) ==
    getByUuid(f) /\ Rows(RootOf(f, t), SharedWith) # {} /\ navigatesFolders(f, t)

getFilesFromPublicFolder(f, t) ==
    getByUuid(f) /\ Rows(RootOf(f, t), SharedWith) # {} /\ navigatesFiles(f, t)

getTeamsUserBelongsTo == members

\* Mutant: any of the rows.
firstOf(rows) == rows

\* givePriorityToRole: 'EDITOR'
findSharingsBySharedWithAndAttributes(rows) ==
    LET editors == {s \in rows : s.role = "EDITOR"}
    IN  IF editors # {} THEN editors ELSE rows

\* GET /workspaces/:workspaceId/shared/:sharedFolderId/folders and .../files;
\* the parent must not be in the trash either.  It shows one of these rows.
getItemsInSharedFolder(f, t) ==
    IF /\ getByUuid(f) /\ (parent[f] # NoFolder => getByUuid(parent[f]))
       /\ navigatesFolders(f, t)
    THEN findSharingsBySharedWithAndAttributes(Rows(RootOf(f, t), getTeamsUserBelongsTo))
    ELSE {}

----------------------------------------------------------------------------
(* The guard of the endpoints that act on an item.                         *)

Actions == {"UPLOAD_FILE", "RENAME_ITEMS", "VIEW_DETAILS"}

Permissions(role) == IF role = "EDITOR" THEN Actions ELSE {"VIEW_DETAILS"}

findPermissionsInSharing(with, item) == UNION {Permissions(s.role) : s \in Rows(item, with)}

canPerfomAction(with, item, action) == action \in findPermissionsInSharing(with, item)

isUserAbleToPerfomAction(item, action) == canPerfomAction({Guest}, item, action)

isWorkspaceMemberAbleToPerfomAction(item, action) ==
    canPerfomAction(getTeamsUserBelongsTo, item, action)

\* item: the shared folder that the token of a folder names, or the item of the
\* request when the token is that of a listing, which names none.
canActivate(item, action, workspace) ==
    IF workspace THEN isWorkspaceMemberAbleToPerfomAction(item, action)
                 ELSE isUserAbleToPerfomAction(item, action)

----------------------------------------------------------------------------
(* Steps.                                                                  *)

createSharedFolderToken(f, t) ==
    token' = [root |-> RootOf(f, t), folder |-> f, parent |-> parent[f],
              moved |-> IF t = NoToken THEN FALSE ELSE t.moved]

\* A token opens where it leads to, whichever endpoint issued it.
Presents == {NoToken, token}

openAsUser(f) ==
    /\ \E t \in Presents :
          getFoldersInSharedFolder(f, t, Guest) /\ createSharedFolderToken(f, t)
    /\ UNCHANGED <<parent, trashed, shares, members, moves>>

openAsLink(f) ==
    /\ \E t \in Presents :
          /\ RootOf(f, t) \in Shared
          /\ getFoldersFromPublicFolder(f, t) /\ createSharedFolderToken(f, t)
    /\ UNCHANGED <<parent, trashed, shares, members, moves>>

openAsTeam(f) ==
    /\ \E t \in Presents :
          getItemsInSharedFolder(f, t) # {} /\ createSharedFolderToken(f, t)
    /\ UNCHANGED <<parent, trashed, shares, members, moves>>

\* POST /workspaces/:workspaceId/shared: once per team.
shareItemWithTeam(f, team, role) ==
    /\ Rows(f, {team}) = {} /\ getByUuid(f)
    /\ shares' = shares \cup {[item |-> f, with |-> team, role |-> role]}
    /\ UNCHANGED <<parent, trashed, members, token, moves>>

\* Accepting an invitation or publishing, and revoking, as in Sharing.
createSharing(f, with, role) ==
    /\ Rows(f, {with}) = {} /\ getByUuid(f)
    /\ shares' = shares \cup {[item |-> f, with |-> with, role |-> role]}
    /\ UNCHANGED <<parent, trashed, members, token, moves>>

deleteSharing(s) ==
    /\ shares' = shares \ {s}
    /\ UNCHANGED <<parent, trashed, members, token, moves>>

\* The guest joins and leaves teams.
changeTeam(team) ==
    /\ members' = IF team \in members THEN members \ {team} ELSE members \cup {team}
    /\ UNCHANGED <<parent, trashed, shares, token, moves>>

\* The owner moves a folder, out of the trash if it is there.  Nothing keeps the
\* destination from being the folder itself or one below it.
moveFolder(f, to) ==
    /\ f # Root /\ getByUuid(to) /\ to # parent[f]
    /\ moves < MaxMoves /\ moves' = moves + 1
    /\ parent' = [parent EXCEPT ![f] = to] /\ trashed' = trashed \ {f}
    /\ token' = IF token = NoToken THEN token ELSE [token EXCEPT !.moved = TRUE]
    /\ UNCHANGED <<shares, members>>

\* moveFoldersToTrash removes the sharings of the owner with individuals.
moveFolderToTrash(f) ==
    /\ f # Root /\ getByUuid(f)
    /\ trashed' = trashed \cup {f}
    /\ shares' = shares \ Rows(f, {Guest, Public})
    /\ UNCHANGED <<parent, members, token, moves>>

\* He moves it from the trash to where it was.
restoreFolder(f) ==
    /\ f \in trashed /\ getByUuid(parent[f])
    /\ trashed' = trashed \ {f}
    /\ UNCHANGED <<parent, shares, members, token, moves>>

Next ==
    \/ \E f \in Folders :
          \/ openAsUser(f) \/ openAsLink(f) \/ openAsTeam(f)
          \/ moveFolderToTrash(f) \/ restoreFolder(f)
          \/ \E to \in Folders : moveFolder(f, to)
    \/ \E f \in Shared, role \in RoleNames :
          \/ \E team \in Teams : shareItemWithTeam(f, team, role)
          \/ \E with \in {Guest, Public} : createSharing(f, with, role)
    \/ \E s \in shares : deleteSharing(s)
    \/ \E team \in Teams : changeTeam(team)

Spec == Init /\ [][Next]_vars

----------------------------------------------------------------------------
(* Properties.                                                             *)

\* An item is shared once with each user or team and a token names folders.
TypeOK ==
    /\ parent \in [Folders -> Folders \cup {NoFolder}]
    /\ trashed \subseteq Folders /\ members \subseteq Teams
    /\ shares \subseteq Sharing
    /\ \A s, x \in shares : s.item = x.item /\ s.with = x.with => s = x
    /\ token \in Token \cup {NoToken}

\* However long the walk, up and down and from whichever endpoint, it stays at
\* or below the shared folder as long as no folder is moved during it.
WalkStaysInside ==
    token # NoToken /\ ~ token.moved => token.folder \in Below(token.root)

\* The endpoints that list folders and files, which spell their check apart,
\* let the same requests through.
FilesAndFoldersAgree ==
    \A f \in Folders, t \in {NoToken, token} :
        /\ \A u \in {Owner, Guest} : getFoldersInSharedFolder(f, t, u) <=> getFilesInSharedFolder(f, t, u)
        /\ getFoldersFromPublicFolder(f, t) <=> getFilesFromPublicFolder(f, t)

\* The role that the guest is shown for a shared folder permits exactly what the
\* guard lets him do there, though several of his teams share it with roles of
\* their own and the guard looks at all of them.
RoleShownIsApplied ==
    \A f \in Shared :
        /\ \A s \in getItemsInSharedFolder(f, NoToken) :
              Permissions(s.role) = {a \in Actions : canActivate(f, a, TRUE)}
        /\ getFoldersInSharedFolder(f, NoToken, Guest) =>
              \A s \in Rows(f, {Guest}) :
                  Permissions(s.role) = {a \in Actions : canActivate(f, a, FALSE)}

============================================================================
