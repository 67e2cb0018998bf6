------------------------------- MODULE SyncPages -------------------------------
(***************************************************************************)
(* Lists of files and folders a program asks for page by page, while they  *)
(* change.  The delta of files since a date is read after a cursor, which  *)
(* is the place of the last file of a page among all, by the time of its   *)
(* last update; other lists are read from an offset.  Lists of the trash   *)
(* leave out what the expiry job may take.                                 *)
(***************************************************************************)
EXTENDS Integers, FiniteSets, SequencesExt

CONSTANTS
    Files, Folders,      \* integers: the order of their uuids
    parent,              \* of an item, or None
    space,               \* of an item: "drive" or "workspace"
    Limits,              \* rows asked for at once
    Retentions,          \* limits of tiers on the time in the trash, or None
    TRASH_EXPIRATION_START_DATE,
    RecentDays,          \* age of what is recent
    Milli,               \* ticks of the database's clock in one of the server's
    Instants,            \* may there be several writes at one time?
    Lists,               \* names of the lists that are read
    MaxTime, MaxWrites,  \* bounds: of the clock, and of writes
    MaxReads             \* bound: lists read

VARIABLES now, rows, favorites, retention, writes, reads, session

pageVars == <<now, rows, favorites, retention, writes, reads, session>>

----------------------------------------------------------------------------
None == -1

Items == Files \cup Folders

FileStatus == {"EXISTS", "TRASHED", "DELETED"}

NoRow == [status |-> "NONE", updatedAt |-> 0]

NoCursor == [updatedAt |-> None, uuid |-> None, status |-> "ALL"]

NoList == [name |-> "none"]

CursorLists == {"sync", "in folders"}

Init ==
    /\ now \in Milli .. 2 * Milli - 1
    /\ rows = [i \in Items |-> IF parent[i] = None THEN [status |-> "EXISTS", updatedAt |-> Milli] ELSE NoRow]
    /\ favorites = {} /\ retention \in Retentions
    /\ writes = 0 /\ reads = 0
    /\ session = [list |-> NoList, open |-> FALSE, cursor |-> NoCursor, offset |-> 0, page |-> <<>>, stuck |-> FALSE,
                  copies |-> [i \in Items |-> NoRow], times |-> [i \in Items |-> 0], there |-> {}, untouched |-> TRUE,
                  quiet |-> TRUE]

Exists(i) == rows[i].status # "NONE"

\* new Date(), in ticks of the database's clock.
Date == now - (now % Milli)

----------------------------------------------------------------------------
(* Queries: rows of the user, or of the user in a workspace.               *)

\* Rows asked for, and what they are sorted by, if anything: what is asked for, or else by default.
List(S, l, default) ==
    [rows |-> S, by |-> IF l.by = "none" THEN default ELSE l.by, order |-> IF l.by = "none" THEN "ASC" ELSE l.order]

WithStatus(S, status) == {i \in S : status \in {"ALL", rows[i].status}}

UpdatedAfter(S, after) == {i \in S : rows[i].updatedAt > after}

findAllCursorWithThumbnails(status) == WithStatus({i \in Files : Exists(i) /\ space[i] = "drive"}, status)

findAllCursorInWorkspace(status) == WithStatus({i \in Files : Exists(i) /\ space[i] = "workspace"}, status)

findAllFolders(status) == WithStatus({f \in Folders : Exists(f) /\ space[f] = "drive"}, status)

findAllFoldersInWorkspace(status) == WithStatus({f \in Folders : Exists(f) /\ space[f] = "workspace"}, status)

findAllCursorWhereUpdatedAfter(status, after) == UpdatedAfter(findAllCursorWithThumbnails(status), after)

findAllCursorWhereUpdatedAfterInWorkspace(status, after) == UpdatedAfter(findAllCursorInWorkspace(status), after)

\* The root folder has no parent.
NotRoot(S) == {f \in S : parent[f] # None}

findAllFoldersWhereUpdatedAfter(status, after) == NotRoot(UpdatedAfter(findAllFolders(status), after))

findAllFoldersInWorkspaceWhereUpdatedAfter(status, after) ==
    NotRoot(UpdatedAfter(findAllFoldersInWorkspace(status), after))

findAllCursorFavorites == findAllCursorWithThumbnails("EXISTS") \cap favorites

findAllFavoriteFolders == NotRoot(findAllFolders("EXISTS") \cap favorites)

\* In a folder that is not in the trash; what that one is in is not looked at.
findRecent ==
    {i \in findAllCursorWithThumbnails("EXISTS") :
        rows[i].updatedAt >= Date - RecentDays * Milli /\ rows[parent[i]].status = "EXISTS"}

\* From when on what is in the trash has not expired: None if nothing has.
getTrashNotExpiredCutoffDate ==
    LET cutoff == Date - retention * Milli
    IN  IF retention = None \/ TRASH_EXPIRATION_START_DATE >= cutoff THEN None ELSE cutoff

calculateTrashExpirationDate(i) ==
    retention * Milli
        + (IF rows[i].updatedAt < TRASH_EXPIRATION_START_DATE THEN TRASH_EXPIRATION_START_DATE ELSE rows[i].updatedAt)

trashedNotExpiredQuery(S) ==
    {i \in S : getTrashNotExpiredCutoffDate # None => rows[i].updatedAt >= getTrashNotExpiredCutoffDate}

findTrashedNotExpired == trashedNotExpiredQuery(findAllCursorWithThumbnails("TRASHED"))

findTrashedNotExpiredInWorkspace == trashedNotExpiredQuery(findAllCursorInWorkspace("TRASHED"))

trashNotExpiredQuery(S) == trashedNotExpiredQuery(S)

findTrashedFoldersNotExpired == trashNotExpiredQuery(findAllFolders("TRASHED"))

findTrashedFoldersNotExpiredInWorkspace == trashNotExpiredQuery(findAllFoldersInWorkspace("TRASHED"))

\* What the job takes of users of a tier.
deleteExpiredTrashByTier ==
    {i \in WithStatus(Items, "TRASHED") :
        /\ TRASH_EXPIRATION_START_DATE <= Date - retention * Milli
        /\ rows[i].updatedAt <= Date - retention * Milli}

----------------------------------------------------------------------------
(* Lists, and the pages of them.                                           *)

StatusAsked(l) == l.status

getFilesUpdatedAfter(l) == List(findAllCursorWhereUpdatedAfter(StatusAsked(l), l.after), l, "updatedAt")

getFoldersUpdatedAfter(l) == List(findAllFoldersWhereUpdatedAfter(StatusAsked(l), l.after), l, "updatedAt")

getWorkspaceFilesUpdatedAfter(l) ==
    List(findAllCursorWhereUpdatedAfterInWorkspace(StatusAsked(l), l.after), l, "updatedAt")

getWorkspacesFoldersUpdatedAfter(l) ==
    List(findAllFoldersInWorkspaceWhereUpdatedAfter(StatusAsked(l), l.after), l, "updatedAt")

\* Of a folder.
getFiles(l) == List({i \in findAllCursorWithThumbnails("EXISTS") : parent[i] = l.folder}, l, "none")

getFolders(l) == List({f \in findAllFolders("EXISTS") : parent[f] = l.folder}, l, "none")

getFavoriteFiles(l) == List(findAllCursorFavorites, l, "updatedAt")

getFavoriteFolders(l) == List(findAllFavoriteFolders, l, "updatedAt")

getRecentFiles(l) == List(findRecent, l, "none")

getTrashedFiles(l) == List(findTrashedNotExpired, l, "none")

getTrashedFolders(l) == List(findTrashedFoldersNotExpired, l, "none")

getWorkspaceUserTrashedItems(l) ==
    List(IF l.name = "trashed files" THEN findTrashedNotExpiredInWorkspace ELSE findTrashedFoldersNotExpiredInWorkspace,
         l, "none")

Found(l) ==
    IF l.space = "workspace"
    THEN CASE l.name = "files" -> getWorkspaceFilesUpdatedAfter(l)
           [] l.name = "folders" -> getWorkspacesFoldersUpdatedAfter(l)
           [] OTHER -> getWorkspaceUserTrashedItems(l)
    ELSE CASE l.name = "files" -> getFilesUpdatedAfter(l)
           [] l.name = "folders" -> getFoldersUpdatedAfter(l)
           [] l.name = "trashed files" -> getTrashedFiles(l)
           [] l.name = "trashed folders" -> getTrashedFolders(l)
           [] l.name = "favorite files" -> getFavoriteFiles(l)
           [] l.name = "favorite folders" -> getFavoriteFolders(l)
           [] l.name = "recents" -> getRecentFiles(l)
           [] l.name = "content files" -> getFiles(l)
           [] l.name = "content folders" -> getFolders(l)

\* The delta, after a date.
Delta(l, after) ==
    {i \in findAllCursorWhereUpdatedAfter(l.status, after) : l.name = "in folders" => parent[i] = l.folder}

Listed(l) == IF l.name \in CursorLists THEN Delta(l, l.after) ELSE Found(l).rows

KeyOf(i, by) == CASE by = "uuid" -> i [] by = "updatedAt" -> rows[i].updatedAt [] OTHER -> 0

\* Rows alike in what they are sorted by come in any order, each time.
Ordered(found) ==
    {s \in SetToSeqs(found.rows) :
        \A p \in DOMAIN s : \A q \in 1 .. p - 1 :
            LET first == KeyOf(s[q], found.by) second == KeyOf(s[p], found.by)
            IN  IF found.order = "ASC" THEN first <= second ELSE first >= second}

findAllCursor(l, offset) ==
    {SubSeq(s, offset + 1, IF offset + l.limit < Len(s) THEN offset + l.limit ELSE Len(s)) : s \in Ordered(Found(l))}

\* Mutant: what was written at the time of the cursor is read again.
notEarlier(i, c) == rows[i].updatedAt >= c.updatedAt

\* ("updated_at", "uuid") > (:cursorUpdatedAt, :cursorId)
AfterCursor(i, c) == rows[i].updatedAt > c.updatedAt \/ (rows[i].updatedAt = c.updatedAt /\ i > c.uuid)

\* Rows after the cursor, whatever the date asked for, and whether there are more.
findFilesWithCursorWhereUpdatedAfter(l, c) ==
    LET found == IF c = NoCursor THEN Delta(l, l.after) ELSE {i \in Delta(l, 0) : AfterCursor(i, c)}
        sorted == SetToSortSeq(found, LAMBDA i, j : AfterCursor(j, [updatedAt |-> rows[i].updatedAt, uuid |-> i]))
    IN  [files |-> IF Len(sorted) > l.limit THEN SubSeq(sorted, 1, l.limit) ELSE sorted, hasMore |-> Len(sorted) > l.limit]

\* As the server reads times, and as toISOString writes them.
toISOString(t) == t - (t % Milli)

nextCursor(l, found) ==
    LET last == found.files[Len(found.files)]
    IN  IF found.hasMore THEN [updatedAt |-> toISOString(rows[last].updatedAt), uuid |-> last, status |-> l.status]
        ELSE NoCursor

----------------------------------------------------------------------------
(* A program reads lists, and keeps what it gets.                          *)

Latest == LET times == {session.copies[i].updatedAt : i \in Items} IN CHOOSE t \in times : \A u \in times : u <= t

\* A new list, or the delta since the last file that was read.
AsksFor(l) ==
    /\ ~ session.open /\ reads < MaxReads
    /\ l.after > 0 => session.list # NoList /\ [session.list EXCEPT !.after = l.after, !.limit = l.limit] = l
    /\ reads' = reads + 1
    /\ session' = [session EXCEPT !.list = l, !.open = TRUE, !.cursor = NoCursor, !.offset = 0, !.page = <<>>,
                                  !.stuck = FALSE, !.times = [i \in Items |-> 0], !.untouched = TRUE, !.quiet = TRUE,
                                  !.there = Listed(l),
                                  !.copies = IF l.after = 0 THEN [i \in Items |-> NoRow] ELSE @]
    /\ UNCHANGED <<now, rows, favorites, retention, writes>>

Gets(page, open, cursor) ==
    /\ session' = [session EXCEPT !.open = open, !.cursor = cursor, !.offset = @ + Len(page), !.quiet = TRUE,
                                  !.page = IF cursor = NoCursor THEN <<>> ELSE page,
                                  !.stuck = session.quiet /\ page # <<>> /\ page = session.page,
                                  !.copies = [i \in Items |-> IF i \in Range(page) /\ session.list.name \in CursorLists
                                                             THEN rows[i] ELSE @[i]],
                                  !.times = [i \in Items |-> IF i \in Range(page) /\ @[i] < 2 THEN @[i] + 1 ELSE @[i]]]
    /\ UNCHANGED <<now, rows, favorites, retention, writes, reads>>

\* The status asked for must be that of the cursor.
getFilesUpdatedAfterWithCursor ==
    /\ session.open /\ session.list.name = "sync"
    /\ session.cursor # NoCursor => session.cursor.status = session.list.status
    /\ LET found == findFilesWithCursorWhereUpdatedAfter(session.list, session.cursor)
       IN  Gets(found.files, found.hasMore, nextCursor(session.list, found))

getFilesInFolders ==
    /\ session.open /\ session.list.name = "in folders"
    /\ LET found == findFilesWithCursorWhereUpdatedAfter(session.list, session.cursor)
       IN  Gets(found.files, found.hasMore, nextCursor(session.list, found))

\* Until a page is not full; recent files are one page.
getPage ==
    /\ session.open /\ session.list.name \notin CursorLists
    /\ \E page \in findAllCursor(session.list, session.offset) :
          Gets(page, Len(page) = session.list.limit /\ session.list.name # "recents", NoCursor)

----------------------------------------------------------------------------
(* Items change.                                                           *)

Wrote(S) ==
    /\ writes < MaxWrites /\ writes' = writes + 1
    /\ now' = IF Instants THEN now ELSE now + Milli
    /\ now' <= MaxTime * Milli
    /\ session' = [session EXCEPT !.untouched = FALSE, !.quiet = FALSE,
                                  !.times = [i \in Items |-> IF i \in S /\ session.list.name \in CursorLists THEN 0 ELSE @[i]]]
    /\ UNCHANGED <<retention, reads>>

Writes(S, status, time) ==
    /\ rows' = [i \in Items |-> IF i \in S THEN [status |-> status, updatedAt |-> time] ELSE rows[i]]
    /\ Wrote(S)

create(i) ==
    /\ ~ Exists(i) /\ Exists(parent[i])
    /\ Writes({i}, "EXISTS", Date) /\ UNCHANGED favorites

updateByUuidAndUserId(i) ==
    /\ Exists(i) /\ parent[i] # None /\ rows[i].status # "DELETED"
    /\ Writes({i}, rows[i].status, Date) /\ UNCHANGED favorites

\* Items trashed are favorites no longer.
moveItemsToTrash(S) ==
    /\ S # {} /\ S \subseteq NotRoot(WithStatus(Items, "EXISTS"))
    /\ Writes(S, "TRASHED", Date) /\ favorites' = favorites \ S

restore(i) ==
    /\ i \in WithStatus(Items, "TRASHED")
    /\ Writes({i}, "EXISTS", Date) /\ UNCHANGED favorites

deleteByUser(S) ==
    /\ S # {} /\ S \subseteq WithStatus(Items, "TRASHED")
    /\ Writes(S, "DELETED", Date) /\ UNCHANGED favorites

\* The database's own time.
deleteUserTrashedFilesBatch ==
    LET S == WithStatus(Files, "TRASHED")
    IN  S # {} /\ Writes(S, "DELETED", now) /\ UNCHANGED favorites

deleteExpiredItems ==
    /\ retention # None /\ deleteExpiredTrashByTier # {}
    /\ Writes(deleteExpiredTrashByTier, "DELETED", now) /\ UNCHANGED favorites

markAsFavorite(i) ==
    /\ Lists \cap {"favorite files", "favorite folders"} # {}
    /\ Exists(i) /\ i \notin favorites /\ favorites' = favorites \cup {i}
    /\ Wrote({}) /\ UNCHANGED rows

unmarkAsFavorite(i) ==
    /\ i \in favorites /\ favorites' = favorites \ {i}
    /\ Wrote({}) /\ UNCHANGED rows

changeTier ==
    /\ retention' \in Retentions \ {retention} /\ ~ session.open /\ writes < MaxWrites /\ writes' = writes + 1
    /\ UNCHANGED <<now, rows, favorites, reads, session>>

\* What expires meanwhile leaves lists, and what is no longer recent.
tick ==
    /\ retention # None \/ "recents" \in Lists
    /\ now < MaxTime * Milli /\ now' = now + 1
    /\ session' = [session EXCEPT !.untouched = FALSE]
    /\ UNCHANGED <<rows, favorites, retention, writes, reads>>

----------------------------------------------------------------------------
(* What is asked for.                                                      *)

Asked(name) ==
    [name : Lists \cap {name}, space : {"drive"}, status : {"EXISTS"}, after : {0}, by : {"none"}, order : {"ASC"},
     limit : Limits, folder : {None}]

WithAny(lists, field, values) == {[l EXCEPT ![field] = v] : l \in lists, v \in values}

Sorted(lists) == lists \cup WithAny(WithAny(lists, "by", {"updatedAt", "uuid"}), "order", {"ASC", "DESC"})

AnyStatus == FileStatus \cup {"ALL"}

\* A new delta, or what was updated since the last file read.
SyncAsked == WithAny(WithAny(Asked("sync"), "status", AnyStatus), "after", {0, Latest})

FilesInFoldersAsked ==
    WithAny(WithAny(WithAny(Asked("in folders"), "status", {"ALL"}), "after", {0, Latest}), "folder", Folders)

FilesAsked == Sorted(WithAny(Asked("files"), "status", AnyStatus))

FoldersAsked == Sorted(WithAny(Asked("folders"), "status", AnyStatus))

InWorkspace(lists) == WithAny(lists, "space", {"workspace"})

WorkspaceFilesAsked == InWorkspace(FilesAsked)

WorkspaceFoldersAsked == InWorkspace(FoldersAsked)

TrashAsked == Sorted(Asked("trashed files") \cup Asked("trashed folders"))

WorkspaceTrashAsked == InWorkspace(TrashAsked)

FavoritesAsked == Sorted(Asked("favorite files") \cup Asked("favorite folders"))

\* The latest first.
RecentsAsked == WithAny(WithAny(Asked("recents"), "by", {"updatedAt"}), "order", {"DESC"})

ContentFilesAsked == Sorted(WithAny(Asked("content files"), "folder", Folders))

ContentFoldersAsked == Sorted(WithAny(Asked("content folders"), "folder", Folders))

\* Where there are files to ask for.
Requests ==
    {l \in SyncAsked \cup FilesInFoldersAsked \cup FilesAsked \cup FoldersAsked \cup WorkspaceFilesAsked
               \cup WorkspaceFoldersAsked \cup TrashAsked \cup WorkspaceTrashAsked \cup FavoritesAsked
               \cup RecentsAsked \cup ContentFilesAsked \cup ContentFoldersAsked :
        \E i \in Files : space[i] = l.space}

Next ==
    \/ \E l \in Requests : AsksFor(l)
    \/ getFilesUpdatedAfterWithCursor \/ getFilesInFolders \/ getPage
    \/ \E i \in Items :
          create(i) \/ updateByUuidAndUserId(i) \/ restore(i) \/ markAsFavorite(i) \/ unmarkAsFavorite(i)
    \/ \E S \in SUBSET Items : moveItemsToTrash(S) \/ deleteByUser(S)
    \/ deleteUserTrashedFilesBatch \/ deleteExpiredItems \/ changeTier \/ tick

Spec == Init /\ [][Next]_pageVars

----------------------------------------------------------------------------
(* Properties.                                                             *)

Closed(names) == session.list.name \in names /\ ~ session.open

\* Rows have states and times of the past, and what is kept was once read.
TypeOK ==
    /\ \A i \in Items : rows[i].status \in FileStatus \cup {"NONE"} /\ rows[i].updatedAt <= now
    /\ \A i \in Items : session.copies[i].updatedAt <= rows[i].updatedAt

\* A program that has read the delta to its end has every file there is as it is: nothing that
\* changed while it read is missing, however often it asks for the delta since what it has.
CursorCatchesUp ==
    Closed({"sync"}) /\ session.list.status = "ALL" /\ session.quiet =>
        \A i \in findAllCursorWithThumbnails("ALL") : session.copies[i] = rows[i]

\* The delta holds a file once for each time it was written.
CursorNeverRepeats == session.list.name \in CursorLists => \A i \in Items : session.times[i] <= 1

\* A cursor leads to a page other than the one it came with.
NextPageIsAnother == ~ session.stuck

\* If nothing changes and the order is total, or there is one page, the pages of a list are all of it, and each row once.
PagesComplete ==
    LET by == Found(session.list).by
    IN  Closed(Lists \ CursorLists) /\ session.untouched
            /\ (session.list.name = "recents" => Cardinality(session.there) <= session.list.limit)
            /\ (Cardinality(session.there) <= session.list.limit
                    \/ \A i, j \in session.there : KeyOf(i, by) = KeyOf(j, by) => i = j) =>
            \A i \in Items : session.times[i] = IF i \in session.there THEN 1 ELSE 0

\* Whatever is written meanwhile, lists of items of any status by uuid hold all that was there.
AllByUuidComplete ==
    Closed({"files", "folders"}) /\ session.list.status = "ALL" /\ session.list.by = "uuid" =>
        \A i \in session.there : session.times[i] > 0

\* The trash shows what is in it until it expires: before the dates shown nothing is taken by the
\* job, which takes everything after them.
TrashKeepsPromise ==
    retention # None =>
        \A i \in WithStatus(Items, "TRASHED") :
            /\ i \in trashedNotExpiredQuery(WithStatus(Items, "TRASHED")) <=> now <= calculateTrashExpirationDate(i)
            /\ i \in deleteExpiredTrashByTier <=> calculateTrashExpirationDate(i) <= now

=============================================================================
