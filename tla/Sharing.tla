------------------------------ MODULE Sharing ------------------------------
(***************************************************************************)
(* Items of one owner being shared: the tables sharing_invites, sharings   *)
(* and sharing_roles, from an invitation to its acceptance, revocation or  *)
(* removal with the item, and the queries that show them.                  *)
(*                                                                         *)
(* A handler is a request in inflight, whose op names the next statement   *)
(* it will send to the database; what it read before is in its fields.     *)
(* In some behaviours each request runs alone; in the others steps of      *)
(* several come in between, and a request may stop half way.               *)
(***************************************************************************)
EXTENDS Naturals, FiniteSets

CONSTANTS
    Files,        \* shared files
    Folders,      \* shared folders
    Owner,        \* who owns the items
    Invitees,     \* people they are shared with
    Guests,       \* those of them that have no account at first
    Roles,        \* ids of table roles
    Anyone,       \* the user 00000000-0000-0000-0000-000000000000
    NoRole,       \* the sharing has no row in sharing_roles
    Limit,        \* sharings and invites an item may have (100)
    MaxRows,      \* bound: rows of each table
    MaxInFlight   \* bound: requests at work

ASSUME SharingConstants ==
    /\ Guests \subseteq Invitees /\ Owner \notin Invitees
    /\ Files \cap Folders = {}
    /\ "OWNER" \notin Roles \cup {NoRole}   \* a name, and no id
    /\ Limit \in Nat /\ MaxRows \in Nat /\ MaxInFlight \in Nat

\* A new uuid is nobody's yet.
ASSUME PreCreatedIsNew == \A e \in Invitees : <<"pre-created", e>> \notin Invitees

VARIABLES
    status,      \* of each item, as its row has it
    invites,     \* table sharing_invites
    sharings,    \* tables sharings and sharing_roles
    registered,  \* invitees with a row in users
    inflight,    \* requests at work
    offered,     \* history: who was ever invited to what
    mixed,       \* history: items shared with persistPreviousSharing
    alone        \* history: does each request of this behaviour run alone?

vars == <<status, invites, sharings, registered, inflight, offered, mixed, alone>>

----------------------------------------------------------------------------
Items == Files \cup Folders

\* The uuid of a pre-created user is not the one the user gets on signing up.
PreCreated(e) == <<"pre-created", e>>

Uuids == Invitees \cup {PreCreated(e) : e \in Guests}

Person(u) == CHOOSE e \in Invitees : u = e \/ u = PreCreated(e)

SharingInvite == [id : 1 .. MaxRows, item : Items, with : Uuids, role : Roles, expires : BOOLEAN]

SharingRow == [id : 1 .. MaxRows, item : Items, with : Uuids \cup {Anyone},
               type : {"public", "private"}, role : Roles \cup {NoRole}]

\* A request: its next statement, who makes it, and what it holds.
NewRequest(op, by, i) == [nr |-> 0, op |-> op, by |-> by, item |-> i, with |-> Anyone,
                          id |-> 0, sharing |-> 0, role |-> NoRole, ids |-> {}]

Init ==
    /\ status = [i \in Items |-> "EXISTS"]
    /\ invites = {} /\ sharings = {} /\ inflight = {}
    /\ registered = Invitees \ Guests
    /\ offered = {} /\ mixed = {}
    /\ alone \in BOOLEAN

----------------------------------------------------------------------------
(* What requests read.                                                     *)

\* FolderUseCases.getByUuid: neither trashed nor removed.
getFolderByUuid(i) == i \in Folders /\ status[i] = "EXISTS"

\* FileUseCases.getByUuid: the row, whatever its status.
getFileByUuid(i) == i \in Files

Found(i) == getFolderByUuid(i) \/ getFileByUuid(i)

isOwnedBy(u) == u = Owner

InvitesOf(i) == {v \in invites : v.item = i}

SharingsOf(i, type) == {s \in sharings : s.item = i /\ s.type = type}

getInviteByItemAndUser(i, u) == {v \in InvitesOf(i) : v.with = u}

findOneSharing(i, u) == {s \in sharings : s.item = i /\ s.with = u}

isItemBeingSharedAboveTheLimit(i) ==
    Cardinality(SharingsOf(i, "private")) + Cardinality(InvitesOf(i)) >= Limit

\* The uuid an e-mail address stands for: the account's or, for want of one,
\* the pre-created user's.
userJoining(e) == IF e \in registered THEN e ELSE PreCreated(e)

\* A new uuid: no row and no request has it.
FreshInvite ==
    LET used == {v.id : v \in invites} \cup {w.id : w \in inflight}
                  \cup UNION {w.ids : w \in inflight}
    IN  CHOOSE k \in 1 .. MaxRows + 1 : k \notin used

FreshSharing ==
    LET used == {s.id : s \in sharings} \cup {w.sharing : w \in inflight}
    IN  CHOOSE k \in 1 .. MaxRows + 1 : k \notin used

----------------------------------------------------------------------------
(* Requests.                                                               *)

Quiet == alone => inflight = {}

Numbered(w) ==
    [w EXCEPT !.nr = CHOOSE k \in 1 .. MaxInFlight :
                        /\ k \notin {v.nr : v \in inflight}
                        /\ \A j \in 1 .. k - 1 : j \in {v.nr : v \in inflight}]

\* A request passed its checks.
Begin(w) ==
    /\ Quiet /\ Cardinality(inflight) < MaxInFlight
    /\ inflight' = inflight \cup {Numbered(w)}

Goes(w, to) == inflight' = (inflight \ {w}) \cup {to}

GoesOn(w, op) == Goes(w, [w EXCEPT !.op = op])

Done(w) == inflight' = inflight \ {w}

Histories == UNCHANGED <<offered, mixed>>

\* POST /sharings/invites/send
createInvite(i, e, r, persist) ==
    LET u == userJoining(e)
    IN  /\ getInviteByItemAndUser(i, u) = {} /\ findOneSharing(i, u) = {}
        /\ Found(i)
        /\ ~ isItemBeingSharedAboveTheLimit(i)
        /\ Begin([NewRequest(IF persist THEN "insertInvite" ELSE "unpublish", Owner, i)
                    EXCEPT !.with = u, !.role = r])
        /\ mixed' = IF persist THEN mixed \cup {i} ELSE mixed
        /\ UNCHANGED <<status, invites, sharings, registered, offered>>

\* removeItemFromBeingShared(Public)
createInviteUnpublishes(w) ==
    /\ w.op = "unpublish"
    /\ sharings' = sharings \ SharingsOf(w.item, "public")
    /\ GoesOn(w, "insertInvite")
    /\ UNCHANGED <<status, invites, registered>> /\ Histories

\* The invite of a pre-created user expires, and its e-mail is waited for.
createInviteInsert(w) ==
    LET guest == w.with \notin Invitees
    IN  /\ w.op = "insertInvite" /\ FreshInvite <= MaxRows
        /\ invites' = invites \cup {[id |-> FreshInvite, item |-> w.item, with |-> w.with,
                                     role |-> w.role, expires |-> guest]}
        /\ offered' = offered \cup {<<w.item, Person(w.with)>>}
        /\ IF guest THEN Goes(w, [w EXCEPT !.op = "mailGuest", !.id = FreshInvite])
                    ELSE Done(w)
        /\ UNCHANGED <<status, sharings, registered, mixed>>

\* sendInvitationToSharingGuestEmail returns, or throws and the invite goes.
createInviteMailed(w) ==
    /\ w.op = "mailGuest"
    /\ invites' \in {invites, {v \in invites : v.id # w.id}}
    /\ Done(w)
    /\ UNCHANGED <<status, sharings, registered>> /\ Histories

\* POST /sharings; the owner is checked after private sharings were removed.
createPublicSharing(u, i, persist) ==
    /\ u \in registered \cup {Owner} /\ Found(i)
    /\ Begin(NewRequest(IF persist THEN "findPublic" ELSE "uninvite", u, i))
    /\ mixed' = IF persist THEN mixed \cup {i} ELSE mixed
    /\ UNCHANGED <<status, invites, sharings, registered, offered>>

\* removeItemFromBeingShared(Private): first the invites, then the sharings.
removeItemFromBeingShared(w) ==
    /\ \/ /\ w.op = "uninvite"
          /\ invites' = invites \ InvitesOf(w.item)
          /\ GoesOn(w, "unshare") /\ UNCHANGED sharings
       \/ /\ w.op = "unshare"
          /\ sharings' = sharings \ SharingsOf(w.item, "private")
          /\ GoesOn(w, "findPublic") /\ UNCHANGED invites
    /\ UNCHANGED <<status, registered>> /\ Histories

createPublicSharingFinds(w) ==
    /\ w.op = "findPublic"
    /\ IF SharingsOf(w.item, "public") # {} \/ ~ isOwnedBy(w.by)
       THEN Done(w) ELSE GoesOn(w, "insertPublic")
    /\ UNCHANGED <<status, invites, sharings, registered>> /\ Histories

createPublicSharingInsert(w) ==
    /\ w.op = "insertPublic" /\ FreshSharing <= MaxRows
    /\ sharings' = sharings \cup {[id |-> FreshSharing, item |-> w.item, with |-> Anyone,
                                   type |-> "public", role |-> NoRole]}
    /\ Done(w)
    /\ UNCHANGED <<status, invites, registered>> /\ Histories

\* Mutant: any user with the link.
acceptAnyInvite(e, v) ==
    /\ e \in registered /\ Found(v.item)
    /\ Begin([NewRequest("insertSharing", e, v.item)
                EXCEPT !.with = e, !.id = v.id, !.role = v.role])
    /\ UNCHANGED <<status, invites, sharings, registered>> /\ Histories

\* POST /sharings/invites/:id/accept
acceptInvite(e, v) ==
    /\ e \in registered /\ v.with = e
    /\ Found(v.item)
    /\ Begin([NewRequest("insertSharing", e, v.item)
                EXCEPT !.with = e, !.id = v.id, !.role = v.role])
    /\ UNCHANGED <<status, invites, sharings, registered>> /\ Histories

\* Mutant: a request whose sharing is gone leaves its invite.
acceptInviteKeepsInvite(w) ==
    /\ w.op = "deleteAccepted" /\ Done(w)
    /\ UNCHANGED <<status, invites, sharings, registered>> /\ Histories

acceptInviteInserts(w) ==
    /\ \/ /\ w.op = "insertSharing" /\ FreshSharing <= MaxRows
          /\ sharings' = sharings \cup {[id |-> FreshSharing, item |-> w.item, with |-> w.with,
                                         type |-> "private", role |-> NoRole]}
          /\ Goes(w, [w EXCEPT !.op = "insertRole", !.sharing = FreshSharing])
       \* A foreign key: the insert fails when the sharing was deleted.
       \/ /\ w.op = "insertRole"
          /\ sharings' = {IF s.id = w.sharing THEN [s EXCEPT !.role = w.role] ELSE s : s \in sharings}
          /\ IF \E s \in sharings : s.id = w.sharing
             THEN GoesOn(w, "deleteAccepted") ELSE Done(w)
    /\ UNCHANGED <<status, invites, registered>> /\ Histories

acceptInviteDeletes(w) ==
    /\ w.op = "deleteAccepted"
    /\ invites' = {v \in invites : v.id # w.id}
    /\ Done(w)
    /\ UNCHANGED <<status, sharings, registered>> /\ Histories

\* DELETE /sharings/invites/:id, by the owner or the invited.
removeInvite(u, v) ==
    /\ Found(v.item)
    /\ isOwnedBy(u) \/ v.with = u
    /\ Begin([NewRequest("deleteInvite", u, v.item) EXCEPT !.id = v.id])
    /\ UNCHANGED <<status, invites, sharings, registered>> /\ Histories

\* GET /sharings/invites/:id/validate finds an invite past its date.
validateInvite(v) ==
    /\ v.expires
    /\ Begin([NewRequest("deleteInvite", Anyone, v.item) EXCEPT !.id = v.id])
    /\ UNCHANGED <<status, invites, sharings, registered>> /\ Histories

deleteInvite(w) ==
    /\ w.op = "deleteInvite"
    /\ invites' = {v \in invites : v.id # w.id}
    /\ Done(w)
    /\ UNCHANGED <<status, sharings, registered>> /\ Histories

\* DELETE /sharings/:itemType/:itemId
removeSharing(i) ==
    /\ \E s \in sharings : s.item = i
    /\ Begin(NewRequest("bulkDeleteInvites", Owner, i))
    /\ UNCHANGED <<status, invites, sharings, registered>> /\ Histories

\* The two statements of removeSharing and of bulkRemoveSharings, which
\* handlers of files and folders wait for together with others of theirs.
bulkRemoveSharings(w) ==
    /\ \/ /\ w.op = "bulkDeleteInvites"
          /\ invites' = invites \ InvitesOf(w.item)
          /\ GoesOn(w, "bulkDeleteSharings") /\ UNCHANGED sharings
       \/ /\ w.op = "bulkDeleteSharings"
          /\ sharings' = {s \in sharings : s.item # w.item}
          /\ Done(w) /\ UNCHANGED invites
    /\ UNCHANGED <<status, registered>> /\ Histories

\* DELETE /sharings/:itemType/:itemId/users/:userId, by the owner or that user.
removeSharedWith(u, s) ==
    /\ s.type = "private" /\ s.role # NoRole
    /\ Found(s.item)
    /\ isOwnedBy(u) \/ s.with = u
    /\ Begin([NewRequest("deleteRole", u, s.item) EXCEPT !.sharing = s.id])
    /\ UNCHANGED <<status, invites, sharings, registered>> /\ Histories

removeSharedWithDeletes(w) ==
    /\ \/ /\ w.op = "deleteRole"
          /\ sharings' = {IF s.id = w.sharing THEN [s EXCEPT !.role = NoRole] ELSE s : s \in sharings}
          /\ GoesOn(w, "deleteSharing")
       \/ /\ w.op = "deleteSharing"
          /\ sharings' = {s \in sharings : s.id # w.sharing}
          /\ Done(w)
    /\ UNCHANGED <<status, invites, registered>> /\ Histories

\* PUT /sharings/:sharingId/role
updateSharingRole(s, r) ==
    /\ Found(s.item)
    /\ Begin([NewRequest("updateRole", Owner, s.item) EXCEPT !.sharing = s.id, !.role = r])
    /\ UNCHANGED <<status, invites, sharings, registered>> /\ Histories

\* DELETE /sharings/:sharingId/roles/:sharingRoleId
removeSharingRole(u, s) ==
    /\ s.role # NoRole /\ Found(s.item)
    /\ isOwnedBy(u) \/ s.with = u
    /\ Begin([NewRequest("updateRole", u, s.item) EXCEPT !.sharing = s.id])
    /\ UNCHANGED <<status, invites, sharings, registered>> /\ Histories

\* One UPDATE or DELETE of sharing_roles, which finds a row or does nothing.
updateSharingRoleBy(w) ==
    /\ w.op = "updateRole"
    /\ sharings' = {IF s.id = w.sharing /\ s.role # NoRole THEN [s EXCEPT !.role = w.role] ELSE s
                        : s \in sharings}
    /\ Done(w)
    /\ UNCHANGED <<status, invites, registered>> /\ Histories

\* PUT /sharings/:itemType/:itemId/type, to private.
changeSharingType(i) ==
    /\ Found(i) /\ Quiet
    /\ sharings' = sharings \ SharingsOf(i, "public")
    /\ UNCHANGED <<status, invites, registered, inflight>> /\ Histories

----------------------------------------------------------------------------
(* What happens to the items and to the guests.                            *)

\* The row and the sharings are updated at the same time.
moveToTrash(i) ==
    /\ status[i] = "EXISTS" /\ Quiet /\ Cardinality(inflight) + 1 < MaxInFlight
    /\ LET row == Numbered(NewRequest("trashRow", Owner, i))
           nr == CHOOSE k \in 1 .. MaxInFlight : k \notin {v.nr : v \in inflight \cup {row}}
       IN  inflight' = inflight \cup {row, [NewRequest("bulkDeleteInvites", Owner, i) EXCEPT !.nr = nr]}
    /\ UNCHANGED <<status, invites, sharings, registered>> /\ Histories

trashRow(w) ==
    /\ w.op = "trashRow"
    /\ status' = [status EXCEPT ![w.item] = IF @ = "EXISTS" THEN "TRASHED" ELSE @]
    /\ Done(w)
    /\ UNCHANGED <<invites, sharings, registered>> /\ Histories

\* Moved out of the trash, or emptied with it.
leaveTrash(i) ==
    /\ status[i] = "TRASHED" /\ Quiet
    /\ \E to \in {"EXISTS", "DELETED"} : status' = [status EXCEPT ![i] = to]
    /\ UNCHANGED <<invites, sharings, registered, inflight>> /\ Histories

\* POST /users by a guest; the pre-created user's invites follow.
signUp(e) ==
    /\ e \in Guests \ registered
    /\ Begin([NewRequest("readInvites", e, CHOOSE i \in Items : TRUE) EXCEPT !.with = e])
    /\ registered' = registered \cup {e}
    /\ UNCHANGED <<status, invites, sharings>> /\ Histories

\* Each invite is encrypted for the new keys, or deleted when that cannot be.
replacePreCreatedUser(w) ==
    /\ \/ /\ w.op = "readInvites"
          /\ LET mine == {v \in invites : v.with = PreCreated(w.with)}
             IN  \E keep \in SUBSET mine :
                    /\ invites' = invites \ (mine \ keep)
                    /\ Goes(w, [w EXCEPT !.op = "readdress", !.ids = {v.id : v \in keep}])
       \/ /\ w.op = "readdress"
          /\ invites' = {IF v.id \in w.ids THEN [v EXCEPT !.with = w.with] ELSE v : v \in invites}
          /\ Done(w)
    /\ UNCHANGED <<status, sharings, registered>> /\ Histories

\* The process stops or a statement fails, where requests do not run alone.
requestDies(w) ==
    /\ ~ alone /\ Done(w)
    /\ UNCHANGED <<status, invites, sharings, registered>> /\ Histories

Step ==
    \/ \E i \in Items : removeSharing(i) \/ changeSharingType(i) \/ moveToTrash(i) \/ leaveTrash(i)
    \/ \E i \in Items, persist \in BOOLEAN :
          \/ \E u \in Invitees \cup {Owner} : createPublicSharing(u, i, persist)
          \/ \E e \in Invitees, r \in Roles : createInvite(i, e, r, persist)
    \/ \E v \in invites : \/ validateInvite(v)
                          \/ \E e \in registered : acceptInvite(e, v)
                          \/ \E u \in registered \cup {Owner} : removeInvite(u, v)
    \/ \E s \in sharings : \/ \E r \in Roles : updateSharingRole(s, r)
                           \/ \E u \in registered \cup {Owner} :
                                 removeSharedWith(u, s) \/ removeSharingRole(u, s)
    \/ \E e \in Guests : signUp(e)
    \/ \E w \in inflight :
          \/ createInviteUnpublishes(w) \/ createInviteInsert(w) \/ createInviteMailed(w)
          \/ removeItemFromBeingShared(w) \/ createPublicSharingFinds(w)
          \/ createPublicSharingInsert(w) \/ acceptInviteInserts(w) \/ acceptInviteDeletes(w)
          \/ deleteInvite(w) \/ bulkRemoveSharings(w) \/ removeSharedWithDeletes(w)
          \/ updateSharingRoleBy(w) \/ trashRow(w) \/ replacePreCreatedUser(w) \/ requestDies(w)

Next == Step /\ UNCHANGED alone

Spec == Init /\ [][Next]_vars

----------------------------------------------------------------------------
(* What users are shown.                                                   *)

Related(u) == {s \in sharings : isOwnedBy(u) \/ s.with = u}

\* findAllSharing by sharedWith, and by ownerId.
getSharedFoldersBySharedWith(u) ==
    {s.item : s \in {x \in sharings : x.with = u /\ x.item \in Folders /\ status[x.item] = "EXISTS"}}

getSharedFoldersByOwner(u) ==
    {s.item : s \in {x \in sharings : isOwnedBy(u) /\ x.item \in Folders /\ status[x.item] = "EXISTS"}}

\* findByOwnerAndSharedWithMe
getSharedFolders(u) == {s.item : s \in Related(u)} \cap {i \in Folders : status[i] = "EXISTS"}

\* getUserRelatedSharedFilesInfo
getSharedFiles(u) == {s.item : s \in Related(u)} \cap {i \in Files : status[i] = "EXISTS"}

\* The join with users leaves out the invites of pre-created users.
getInvites(i) == {v \in InvitesOf(i) : v.with \in registered}

getUserValidInvites(u) ==
    {v \in invites : v.with = u /\ u \in registered /\ status[v.item] = "EXISTS"}

\* findSharingsWithRoles throws on a sharing that has no role.
findSharingsWithRolesByItem(i) ==
    LET rows == SharingsOf(i, "private")
    IN  IF \E s \in rows : s.role = NoRole THEN {} ELSE rows

UsersListed(u, rows) ==
    LET sharedsWith == {s.with : s \in rows}
    IN  IF rows # {} /\ (isOwnedBy(u) \/ u \in sharedsWith) THEN sharedsWith \cup {Owner} ELSE {}

\* The users an item is shared with and its owner; nobody when it is refused.
getItemSharedWith(u, i) ==
    IF Found(i) THEN UsersListed(u, findSharingsWithRolesByItem(i)) ELSE {}

getSharedWithByItemId(u, i) ==
    IF getFolderByUuid(i) THEN UsersListed(u, findSharingsWithRolesByItem(i)) ELSE {}

\* The role a user sees himself with.
getUserRole(u, s) == IF isOwnedBy(u) THEN "OWNER" ELSE s.role

\* A public sharing is anyone's, a private one its owner's and its user's.
getSharingType(u, i) == {s \in sharings : s.item = i /\ (s.type = "public" \/ isOwnedBy(u) \/ s.with = u)}

getItemSharingInfo(u, i) ==
    [public |-> SharingsOf(i, "public") # {},
     found  |-> getSharingType(u, i) # {} \/ InvitesOf(i) # {},
     invitationsCount |-> Cardinality(InvitesOf(i))]

----------------------------------------------------------------------------
(* Properties.                                                             *)

\* Rows have the columns of their models, and requests their number.
TypeOK ==
    /\ status \in [Items -> {"EXISTS", "TRASHED", "DELETED"}]
    /\ invites \subseteq SharingInvite /\ sharings \subseteq SharingRow
    /\ registered \subseteq Invitees /\ alone \in BOOLEAN
    /\ \A v, x \in invites : v.id = x.id => v = x
    /\ \A s, x \in sharings : s.id = x.id => s = x
    /\ Cardinality({w.nr : w \in inflight}) = Cardinality(inflight)

AtRest == inflight = {}

\* Nobody has two invites to an item, two sharings of it, or one of each: the
\* endpoints that revoke look for one row.
OnePerUser ==
    AtRest => \A i \in Items, e \in Invitees :
        Cardinality({v \in InvitesOf(i) : Person(v.with) = e})
            + Cardinality({s \in SharingsOf(i, "private") : Person(s.with) = e}) <= 1

\* Unless its owner asked to keep both, an item with a public link is neither
\* shared with nor offered to anybody.
PublicOrPrivate ==
    AtRest => \A i \in Items \ mixed :
        SharingsOf(i, "public") # {} => SharingsOf(i, "private") = {} /\ InvitesOf(i) = {}

\* A folder that went to the trash has no sharing and no invite left, and none
\* comes back with it.
TrashedFolderUnshared ==
    AtRest => \A i \in Folders :
        status[i] # "EXISTS" => {s \in sharings : s.item = i} = {} /\ InvitesOf(i) = {}

\* An item has no more sharings and invites together than the limit, while
\* invites turn into sharings.
SharesWithinLimit ==
    AtRest => \A i \in Items :
        Cardinality(SharingsOf(i, "private")) + Cardinality(InvitesOf(i)) <= Limit

\* Once a guest has signed up no invite waits for the pre-created user, who can
\* no longer accept any.
InvitesReachRegistered ==
    AtRest => \A v \in invites : v.with \in registered \/ Person(v.with) \notin registered

\* Whatever races or fails half way, an item is shared with nobody who was not invited
\* to it.
NobodyUninvited ==
    \A s \in sharings : s.type = "private" => <<s.item, Person(s.with)>> \in offered

\* Queries written apart agree: the folders shared by and with a user are the
\* ones in the common listing, what is listed has a type, its users can be listed
\* by any of them and by either endpoint unless a role is missing, an invite shown
\* can be accepted, and an item without a type or an invite has no users.
ViewsAgree ==
    /\ \A u \in registered \cup {Owner} :
          /\ getSharedFolders(u) = getSharedFoldersBySharedWith(u) \cup getSharedFoldersByOwner(u)
          /\ \A i \in getSharedFolders(u) \cup getSharedFiles(u) :
                /\ getSharingType(u, i) # {}
                /\ findSharingsWithRolesByItem(i) # {} =>
                      \/ u \in getItemSharedWith(u, i)
                      \/ \A s \in SharingsOf(i, "private") : s.with # u
                /\ i \in Folders => getSharedWithByItemId(u, i) = getItemSharedWith(u, i)
          /\ \A v \in getUserValidInvites(u) : Found(v.item) /\ v \in getInvites(v.item)
          /\ \A s \in sharings : getUserRole(u, s) = "OWNER" => getItemSharingInfo(u, s.item).found
    /\ \A i \in Items :
          ~ getItemSharingInfo(Owner, i).found => getItemSharedWith(Owner, i) = {} /\ getInvites(i) = {}

\* With requests one at a time a user has one invite to an item or one sharing of
\* it, an item is public or private unless asked for, a folder that was trashed
\* is shared no more, limits count what was only offered, and no invite is left
\* behind for a pre-created user that signed up; and the lists of all that agree,
\* whatever races.
SharingCoherent ==
    /\ ViewsAgree
    /\ alone =>
          OnePerUser /\ PublicOrPrivate /\ TrashedFolderUnshared /\ SharesWithinLimit /\ InvitesReachRegistered

============================================================================
