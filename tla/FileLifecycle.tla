--------------------------- MODULE FileLifecycle ---------------------------
(***************************************************************************)
(* The rows of table files that belong to one user, from upload to hard    *)
(* deletion, and the queue deleted_files_new through which the network is  *)
(* told to drop a deleted file's content.                                  *)
(*                                                                         *)
(* A handler that reads, awaits and then writes is two actions: the first  *)
(* makes every check and leaves the write it is going to do in inflight,   *)
(* the second does the write.  In the behaviours where alone is FALSE      *)
(* anything may happen between the two, which is what the server allows;   *)
(* in the others each request runs alone.                                  *)
(*                                                                         *)
(* A file names one content at a time.  How replaced contents are kept as  *)
(* versions, and how many, is the subject of FileVersions: here a version  *)
(* is there to be restored, or is dropped.                                 *)
(***************************************************************************)
EXTENDS Naturals, FiniteSets

CONSTANTS
    Files,        \* file uuids; each is used for one file only (uuid v4)
    Contents,     \* network file ids; the client uploads each one once
    Empty,        \* the null fileId of a file of size 0
    Folders,      \* folder uuids of the user
    Names,        \* plain names
    Types,        \* extensions other than null
    NoType,       \* the null extension
    EmptyType,    \* the extension ''; a member of Types in the instances that use it
    EmptyLimit,   \* value of the limit max-zero-size-files of the user's tier
    MaxInFlight   \* bound: requests between their check and their write

ASSUME FileConstants ==
    /\ IsFiniteSet(Files) /\ Empty \notin Contents
    /\ NoType \notin Types /\ EmptyType # NoType
    /\ Folders # {} /\ Names # {}
    /\ EmptyLimit \in Nat
    /\ MaxInFlight \in Nat \ {0}

VARIABLES
    file,          \* table files: [Files -> FileRow]
    folder,        \* status of the folders, as Folder.getFolderStatus gives it
    deletedFiles,  \* table deleted_files_new, by file uuid
    versions,      \* the contents that each file has a version of
    net,           \* the contents on the storage network
    inflight,      \* writes that requests have checked and not done yet
    late,          \* history: the writes of a status or a content to a DELETED row
    alone          \* does each request of this behaviour run alone?

vars == <<file, folder, deletedFiles, versions, net, inflight, late, alone>>

----------------------------------------------------------------------------
FileStatus == {"EXISTS", "TRASHED", "DELETED"}

\* NONE: not inserted yet; GONE: the row was destroyed.
RowStatus == FileStatus \cup {"NONE", "GONE"}

FolderStatus == {"EXISTS", "TRASHED", "DELETED"}

AllTypes == Types \cup {NoType}

FileRow == [status : RowStatus, removed : BOOLEAN,
            folder : Folders, name : Names, type : AllTypes,
            content : Contents \cup {Empty}]

\* Gone for good: marked, or the row destroyed.
Removed == {"DELETED", "GONE"}

Live == {"EXISTS", "TRASHED"}

Queued == [state : {"none", "pending", "processed"}, content : Contents \cup {Empty}]

\* uploaded: stored, and given to the server by no request yet; discarded: the
\* client had the network delete a content that no file named.
Stored == {"stored", "discarded"}

OffNetwork == {"purged", "discarded"}

\* The handlers that have an await between their checks and their write.
Ops == {"createFile", "updateFileMetaData", "moveFile", "replaceFile",
        "replaceKeepingVersion", "restoreFileVersion", "deleteOldContent",
        "deleteFilePermanently", "deleteFromNetwork"}

\* old is the content that was read, content the one to be written or deleted;
\* nr tells apart requests that checked the same thing.
Write == [nr : Nat, op : Ops, file : Files, folder : Folders, name : Names, type : AllTypes,
          old : Contents \cup {Empty}, content : Contents \cup {Empty}]

HasRow(f) == file[f].status \in FileStatus

AnyFolder == CHOOSE d \in Folders : TRUE
AnyName == CHOOSE n \in Names : TRUE

\* What the row of an uninserted or destroyed file is set to.
NullRow(status) == [status |-> status, removed |-> FALSE,
                    folder |-> AnyFolder, name |-> AnyName, type |-> NoType,
                    content |-> Empty]

Init ==
    /\ file = [f \in Files |-> NullRow("NONE")]
    /\ folder = [d \in Folders |-> "EXISTS"]
    /\ deletedFiles = [f \in Files |-> [state |-> "none", content |-> Empty]]
    /\ versions = [f \in Files |-> {}]
    /\ net = [c \in Contents |-> "none"]
    /\ inflight = {}
    /\ late = {}
    /\ alone \in BOOLEAN

----------------------------------------------------------------------------
(* The database.                                                           *)

\* The partial unique index on (plain_name, type, folder_id) of the EXISTS
\* rows.  SQL nulls are distinct: rows without a type are not constrained.
UniqueIndex(rows) ==
    \A f, g \in Files :
        /\ f # g
        /\ rows[f].status = "EXISTS" /\ rows[g].status = "EXISTS"
        /\ rows[f].type = rows[g].type /\ rows[f].type # NoType
        => <<rows[f].name, rows[f].folder>> # <<rows[g].name, rows[g].folder>>

\* The entry that the trigger inserts for a row.
Entry(f) == [state |-> "pending", content |-> file[f].content]

\* Mutant: only files that leave the trash are queued.
TriggerFromTrashOnly(rows) ==
    [f \in Files |->
        IF /\ file[f].status = "TRASHED" /\ rows[f].status = "DELETED"
           /\ file[f].content # Empty /\ deletedFiles[f].state = "none"
        THEN Entry(f) ELSE deletedFiles[f]]

\* Mutant: a file is queued as soon as it leaves EXISTS.
TriggerOnTrash(rows) ==
    [f \in Files |->
        IF /\ HasRow(f) /\ file[f].status # rows[f].status
           /\ rows[f].status \in {"TRASHED", "DELETED"}
           /\ file[f].content # Empty /\ deletedFiles[f].state = "none"
        THEN Entry(f) ELSE deletedFiles[f]]

\* Trigger on update of files: a content whose file becomes DELETED is queued,
\* unless the queue already has a row for this uuid, whatever content it names.
FileDeletedTrigger(rows) ==
    [f \in Files |->
        IF /\ HasRow(f) /\ file[f].status # "DELETED"
           /\ rows[f].status = "DELETED"
           /\ file[f].content # Empty
           /\ deletedFiles[f].state = "none"
        THEN Entry(f) ELSE deletedFiles[f]]

\* One UPDATE or INSERT: rejected as a whole when it breaks the index.
Save(rows) ==
    IF UniqueIndex(rows)
    THEN file' = rows /\ deletedFiles' = FileDeletedTrigger(rows)
    ELSE UNCHANGED <<file, deletedFiles>>

\* An UPDATE that sets the rows of S to DELETED; setRemoved says whether it
\* also sets the column removed.
SetDeleted(S, setRemoved) ==
    Save([f \in Files |->
            IF f \in S
            THEN [file[f] EXCEPT !.status = "DELETED", !.removed = @ \/ setRemoved]
            ELSE file[f]])

\* The lookup takes a null and an empty extension for the same one.
SameType(t, u) == t = u \/ {t, u} \subseteq {NoType, EmptyType}

\* Mutant: the extensions are compared as they are.
findByExactType(n, t, d) ==
    \E g \in Files : /\ file[g].status = "EXISTS" /\ file[g].type = t
                     /\ file[g].name = n /\ file[g].folder = d

findByPlainNameAndFolderId(n, t, d) ==
    \E g \in Files : /\ file[g].status = "EXISTS"
                     /\ file[g].name = n /\ file[g].folder = d
                     /\ SameType(file[g].type, t)

LiveEmptyFiles == {f \in Files : file[f].status \in Live /\ file[f].content = Empty}

getZeroSizeFilesCountByUser == Cardinality(LiveEmptyFiles)

----------------------------------------------------------------------------
(* Requests.                                                               *)

\* Nothing comes between the check of a request that runs alone and its write.
Quiet == alone => inflight = {}

\* The first number no request in flight has.
Free(k) == {w.nr : w \in inflight} \cap 1 .. k = 1 .. (k - 1)

\* The checks of a handler passed: w is what it writes when its next await
\* returns.
Checked(w) ==
    /\ Quiet
    /\ \E k \in 1 .. MaxInFlight :
          Free(k) /\ inflight' = inflight \cup {[w EXCEPT !.nr = k]}
    /\ UNCHANGED <<file, folder, deletedFiles, versions, late>>

Done(w) == inflight' = inflight \ {w}

Req(op, f, d, n, t, c) ==
    [nr |-> 0, op |-> op, file |-> f, folder |-> d, name |-> n, type |-> t,
     old |-> file[f].content, content |-> c]

\* A request about a file that keeps its place.
InPlace(op, f, c) == Req(op, f, file[f].folder, file[f].name, file[f].type, c)

\* A write of w to a row that has been DELETED meanwhile.
WroteLate(w) ==
    late' = late \cup {<<w.op, f>> : f \in {w.file} \cap {g \in Files : file[g].status = "DELETED"}}

\* Mutant: an empty file is counted as if it had just been deleted.
checkOneTooMany == getZeroSizeFilesCountByUser <= EmptyLimit

checkEmptyFilesLimit == getZeroSizeFilesCountByUser < EmptyLimit

\* The content a client names is one it uploaded, and for one request only: the
\* server does not ask the network.  A file of size 0 has none, and is counted.
Content(c) ==
    \/ c = Empty /\ checkEmptyFilesLimit /\ UNCHANGED net
    \/ c # Empty /\ net[c] = "uploaded" /\ net' = [net EXCEPT ![c] = "stored"]

\* POST /files after the client uploaded the content.  The folder must be
\* found with deleted = removed = FALSE, the name must be free and an empty
\* file must be within the limit.
createFile(f, d, n, t, c) ==
    /\ file[f].status = "NONE" /\ ~ \E w \in inflight : w.file = f /\ w.op = "createFile"
    /\ folder[d] = "EXISTS"
    /\ ~ findByPlainNameAndFolderId(n, t, d)
    /\ Content(c)
    /\ Checked(Req("createFile", f, d, n, t, c))

createFileInsert(w) ==
    /\ w.op = "createFile"
    /\ Save([file EXCEPT ![w.file] = [status |-> "EXISTS", removed |-> FALSE,
                folder |-> w.folder, name |-> w.name, type |-> w.type,
                content |-> w.content]])
    /\ Done(w)
    /\ UNCHANGED <<folder, versions, net, late>>

\* PUT /files/:uuid/meta renames an EXISTS file in its folder.
updateFileMetaData(f, n, t) ==
    /\ file[f].status = "EXISTS"
    /\ ~ findByPlainNameAndFolderId(n, t, file[f].folder)
    /\ Checked(Req("updateFileMetaData", f, file[f].folder, n, t, Empty))
    /\ UNCHANGED net

\* The UPDATE names the columns plain_name and type only, and its WHERE clause
\* does not look at the status.
updateFileMetaDataWrite(w) ==
    /\ w.op = "updateFileMetaData"
    /\ IF HasRow(w.file)
       THEN Save([file EXCEPT ![w.file].name = w.name, ![w.file].type = w.type])
       ELSE UNCHANGED <<file, deletedFiles>>
    /\ Done(w)
    /\ UNCHANGED <<folder, versions, net, late>>

isDeleted(f) == file[f].status = "DELETED" \/ file[f].removed

\* File.setType: a blank extension is saved as null.
setType(t) == IF t = EmptyType THEN NoType ELSE t

\* Mutant: isDeleted is not consulted.
moveFileUnchecked(f, d, n, t) ==
    /\ HasRow(f)
    /\ folder[d] = "EXISTS"
    /\ ~ findByPlainNameAndFolderId(n, setType(t), d)
    /\ Checked(Req("moveFile", f, d, n, setType(t), Empty))
    /\ UNCHANGED net

\* PATCH /files/:uuid moves a file, or restores it from the trash.
moveFile(f, d, n, t) ==
    /\ HasRow(f) /\ ~ isDeleted(f)
    /\ folder[d] = "EXISTS"
    /\ ~ findByPlainNameAndFolderId(n, setType(t), d)
    /\ Checked(Req("moveFile", f, d, n, setType(t), Empty))
    /\ UNCHANGED net

\* updateByUuidAndUserId: the status becomes EXISTS whatever it is by now.
moveFileWrite(w) ==
    /\ w.op = "moveFile"
    /\ IF HasRow(w.file)
       THEN Save([file EXCEPT ![w.file] = [@ EXCEPT !.status = "EXISTS",
                    !.folder = w.folder, !.name = w.name, !.type = w.type]])
       ELSE UNCHANGED <<file, deletedFiles>>
    /\ WroteLate(w)
    /\ Done(w)
    /\ UNCHANGED <<folder, versions, net>>

\* PUT /files/:uuid gives an EXISTS file the content the client has uploaded.
\* isFileVersionable goes by type, size and plan, and so does versioned here.
replaceFile(f, c, versioned) ==
    /\ file[f].status = "EXISTS"
    /\ Content(c)
    /\ Checked(InPlace(IF versioned THEN "replaceKeepingVersion" ELSE "replaceFile", f, c))

\* UPDATE files SET file_id, by uuid and user whatever the status has become:
\* neither the index nor the trigger looks at the content.  rest is what the
\* request still has to do.
writeContent(w, rest) ==
    /\ file' = IF HasRow(w.file) THEN [file EXCEPT ![w.file].content = w.content] ELSE file
    /\ WroteLate(w)
    /\ inflight' = (inflight \ {w}) \cup rest
    /\ UNCHANGED <<folder, deletedFiles, net>>

\* Without a version the request then asks the network to delete the old content.
replaceFileWrite(w) ==
    /\ w.op = "replaceFile"
    /\ writeContent(w, IF w.old = Empty THEN {}
                       ELSE {[w EXCEPT !.op = "deleteOldContent", !.content = w.old]})
    /\ UNCHANGED versions

\* network.deleteFile may fail; the failure is logged.
deleteOldContent(w) ==
    /\ w.op = "deleteOldContent"
    /\ net' \in {net, [net EXCEPT ![w.content] = "purged"]}
    /\ Done(w)
    /\ UNCHANGED <<file, folder, deletedFiles, versions, late>>

\* createFileVersionAction: the old content becomes a version, in a Promise.all
\* with the update.  A row that is gone can have no version, a null content
\* makes none, and no content makes two.
replaceKeepingVersionWrite(w) ==
    /\ w.op = "replaceKeepingVersion"
    /\ writeContent(w, {})
    /\ versions' = IF HasRow(w.file)
                   THEN [versions EXCEPT ![w.file] = @ \cup ({w.old} \ {Empty})]
                   ELSE versions

\* POST /files/:uuid/versions/:versionId/restore.  The status of the file is
\* not looked at.
restoreFileVersion(f, c) ==
    /\ HasRow(f) /\ c \in versions[f]
    /\ Checked(InPlace("restoreFileVersion", f, c))
    /\ UNCHANGED net

\* The version's row goes, the file names its content.
restoreFileVersionWrite(w) ==
    /\ w.op = "restoreFileVersion"
    /\ writeContent(w, {})
    /\ versions' = [versions EXCEPT ![w.file] = @ \ {w.content}]

\* DELETE /files/:uuid looks the file up with removed = FALSE, drops its
\* sharings, thumbnail and favourites, and then marks the row.
deleteFilePermanently(f) ==
    /\ HasRow(f) /\ ~ file[f].removed
    /\ Checked(InPlace("deleteFilePermanently", f, Empty))
    /\ UNCHANGED net

deleteFilePermanentlyWrite(w) ==
    /\ w.op = "deleteFilePermanently"
    /\ SetDeleted({w.file} \cap {f \in Files : HasRow(f)}, TRUE)
    /\ Done(w)
    /\ UNCHANGED <<folder, versions, net, late>>

\* DELETE /files/:bucketId/:fileId: a content that no row has goes straight to
\* the network, be it a version's; the others take the way of
\* deleteFilePermanently.
deleteFileByFileId(f, c) ==
    \/ file[f].content = c /\ deleteFilePermanently(f)
    \/ /\ \A g \in Files : HasRow(g) => file[g].content # c
       /\ net[c] \in {"uploaded", "stored"}
       /\ Checked([InPlace("deleteFromNetwork", f, c) EXCEPT !.old = Empty])
       /\ UNCHANGED net

\* The bridge's DELETE returns, or fails.
deleteFromNetworkReturns(w) ==
    /\ w.op = "deleteFromNetwork"
    /\ net' \in {net, [net EXCEPT ![w.content] = "discarded"]}
    /\ Done(w)
    /\ UNCHANGED <<file, folder, deletedFiles, versions, late>>

----------------------------------------------------------------------------
(* Handlers and jobs whose only access to the files is one UPDATE, with its *)
(* conditions in the WHERE clause: nothing comes between check and write.   *)

Atomic == Quiet /\ UNCHANGED <<folder, versions, net, inflight, late>>

\* Mutant: a status the enum does not have.
moveFilesToTrashWrongStatus(uuids) ==
    /\ Atomic
    /\ Save([f \in Files |->
                IF f \in uuids /\ file[f].status = "EXISTS"
                THEN [file[f] EXCEPT !.status = "REMOVED"] ELSE file[f]])

\* POST /storage/trash/add.  The rows named by numeric id are looked up for
\* their sharings and favourites and do not take part in the UPDATE, so that a
\* request with numeric ids only has uuids = {}.
moveFilesToTrash(uuids) ==
    /\ Atomic
    /\ Save([f \in Files |->
                IF f \in uuids /\ file[f].status = "EXISTS"
                THEN [file[f] EXCEPT !.status = "TRASHED"] ELSE file[f]])

\* DELETE /storage/trash and /storage/trash/file/:fileId: the rows the user
\* owns among those asked for, in the trash or not, in one UPDATE per chunk.
deleteItems(S) ==
    /\ Atomic
    /\ S # {} /\ \A f \in S : HasRow(f)
    /\ SetDeleted(S, TRUE)

\* One batch of DELETE /storage/trash/all; the column removed is left alone.
deleteUserTrashedFilesBatch(S) ==
    /\ Atomic
    /\ S # {} /\ \A f \in S : file[f].status = "TRASHED"
    /\ SetDeleted(S, FALSE)

\* One batch of the job that expires the trash of a tier.
deleteExpiredTrashFilesByTier(S) ==
    /\ Atomic
    /\ S # {} /\ \A f \in S : file[f].status = "TRASHED"
    /\ SetDeleted(S, TRUE)

\* The deleted-items job, for the files of a removed folder.
markFilesInFolderAsRemoved(d) ==
    /\ Atomic
    /\ folder[d] = "DELETED"
    /\ SetDeleted({f \in Files : file[f].status \in {"EXISTS", "TRASHED"}
                                 /\ file[f].folder = d}, TRUE)

\* The hard-delete job destroys rows that have been DELETED for long enough.
\* The content they named is remembered for the properties.
destroyDeletedFilesByUuids(S) ==
    /\ Atomic
    /\ S # {} /\ \A f \in S : file[f].status = "DELETED"
    /\ file' = [f \in Files |->
                   IF f \in S
                   THEN [NullRow("GONE") EXCEPT !.content = file[f].content] ELSE file[f]]
    /\ UNCHANGED deletedFiles

\* The job that empties deleted_files_new of what has been processed.
cleanupDeletedFilesTable(S) ==
    /\ Atomic
    /\ S # {} /\ \A f \in S : deletedFiles[f].state = "processed"
    /\ deletedFiles' = [f \in Files |->
                           IF f \in S THEN [state |-> "none", content |-> Empty]
                           ELSE deletedFiles[f]]
    /\ UNCHANGED file

----------------------------------------------------------------------------
(* The surroundings.                                                       *)

\* The client stores a content on the network before it names it.
uploadContent(c) ==
    /\ Quiet
    /\ net[c] = "none"
    /\ net' = [net EXCEPT ![c] = "uploaded"]
    /\ UNCHANGED <<file, folder, deletedFiles, versions, inflight, late>>

\* The reader of deleted_files_new, a service of its own.
purgeContent(f) ==
    /\ Quiet
    /\ deletedFiles[f].state = "pending"
    /\ deletedFiles' = [deletedFiles EXCEPT ![f].state = "processed"]
    /\ net' = [net EXCEPT ![deletedFiles[f].content] = "purged"]
    /\ UNCHANGED <<file, folder, versions, inflight, late>>

\* A version is deleted or expires and its queue is read: see FileVersions.
dropVersion(f, c) ==
    /\ Quiet
    /\ c \in versions[f]
    /\ versions' = [versions EXCEPT ![f] = @ \ {c}]
    /\ net' = [net EXCEPT ![c] = "purged"]
    /\ UNCHANGED <<file, folder, deletedFiles, inflight, late>>

\* What the folder handlers do to a folder, seen from its files: trash it,
\* restore it or remove it.
changeFolderStatus(d, s) ==
    /\ Quiet
    /\ folder[d] # "DELETED" /\ folder[d] # s
    /\ folder' = [folder EXCEPT ![d] = s]
    /\ UNCHANGED <<file, deletedFiles, versions, net, inflight, late>>

----------------------------------------------------------------------------
Check ==
    \E f \in Files :
        \/ \E d \in Folders, n \in Names, t \in AllTypes :
              \/ \E c \in Contents \cup {Empty} : createFile(f, d, n, t, c)
              \/ moveFile(f, d, n, t)
        \/ \E n \in Names, t \in AllTypes : updateFileMetaData(f, n, t)
        \/ \E c \in Contents \cup {Empty}, b \in BOOLEAN : replaceFile(f, c, b)
        \/ deleteFilePermanently(f)
        \/ \E c \in Contents : restoreFileVersion(f, c) \/ deleteFileByFileId(f, c)

FinishWrite ==
    \E w \in inflight :
        \/ createFileInsert(w) \/ updateFileMetaDataWrite(w) \/ moveFileWrite(w)
        \/ replaceFileWrite(w) \/ replaceKeepingVersionWrite(w)
        \/ restoreFileVersionWrite(w) \/ deleteOldContent(w)
        \/ deleteFilePermanentlyWrite(w) \/ deleteFromNetworkReturns(w)

OneUpdate ==
    \/ \E S \in SUBSET Files :
          \/ moveFilesToTrash(S) \/ deleteItems(S) \/ deleteUserTrashedFilesBatch(S)
          \/ deleteExpiredTrashFilesByTier(S)
          \/ destroyDeletedFilesByUuids(S) \/ cleanupDeletedFilesTable(S)
    \/ \E d \in Folders : markFilesInFolderAsRemoved(d)

Surroundings ==
    \/ \E f \in Files : purgeContent(f) \/ \E c \in Contents : dropVersion(f, c)
    \/ \E c \in Contents : uploadContent(c)
    \/ \E d \in Folders, s \in FolderStatus : changeFolderStatus(d, s)

Next ==
    /\ Check \/ FinishWrite \/ OneUpdate \/ Surroundings
    /\ UNCHANGED alone

Spec == Init /\ [][Next]_vars

----------------------------------------------------------------------------
(* Properties of every schedule.                                           *)

\* The variables keep their types; a row that was never inserted or that was
\* destroyed is not in the trash, the index or the queue by accident.
TypeOK ==
    /\ file \in [Files -> FileRow]
    /\ folder \in [Folders -> FolderStatus]
    /\ deletedFiles \in [Files -> Queued]
    /\ versions \in [Files -> SUBSET Contents]
    /\ net \in [Contents -> {"none", "uploaded", "stored", "purged", "discarded"}]
    /\ inflight \subseteq Write
    /\ late \subseteq Ops \X Files
    /\ alone \in BOOLEAN

\* Some request wrote the row when it had been deleted.
WrittenLate(f) == \E op \in Ops : <<op, f>> \in late

\* A file that went away for good, by any of the ways to delete one and in any
\* order with replacements, restores, renames and clean-up jobs, has the content
\* it named then purged or queued for purging.  What can break that is a write
\* to the row after its deletion, since the trigger does not queue a second
\* time: a move or a replacement whose check came before the deletion, or a
\* version that is restored into a deleted file, which no check forbids.
\* Only the last of these needs no race.
NoContentLeak ==
    /\ \A f \in Files :
          file[f].status \in Removed /\ file[f].content # Empty /\ ~ WrittenLate(f)
              => \/ net[file[f].content] \in OffNetwork
                 \/ deletedFiles[f] = Entry(f)
    /\ alone => late \subseteq {"restoreFileVersion"} \X Files

\* The limit on empty files is kept, through replacements, the trash and back,
\* and deletions: those in the trash count, since they can be restored without
\* another check.  Requests that race exceed it, by at most one for each in
\* flight but the first, and no later race makes it more.
EmptyFilesBounded ==
    Cardinality(LiveEmptyFiles) < EmptyLimit + (IF alone THEN 1 ELSE MaxInFlight)

(* Properties of requests that run one at a time.                          *)

StaysDeleted(f) == file[f].status \in Removed => file'[f].status \in Removed

\* A file that was deleted for good never shows up again.
DeletedIsFinal == [][\A f \in Files : StaysDeleted(f)]_vars

\* A file the user can see or restore still has its content, unless the user
\* had the network delete it when it was a version's, and nothing is queued
\* that would take it away.
LiveContentStored ==
    \A f \in Files :
        file[f].status \in Live /\ file[f].content # Empty
            => /\ net[file[f].content] \in Stored
               /\ \A g \in Files : deletedFiles[g] # Entry(f)

\* LiveContentStored when requests run alone: no sequence of requests and jobs
\* purges or queues the content of a file the user can see or restore.
LiveContentStoredAlone == alone => LiveContentStored

\* What a handler looks up before it awaits and writes still holds when it has
\* written: no two files of a folder have the same name and extension, null and
\* '' being the same one, though the index leaves such rows out.
UniqueNamesAlone ==
    alone =>
    \A f, g \in Files :
        /\ f # g /\ file[f].status = "EXISTS" /\ file[g].status = "EXISTS"
        /\ file[f].folder = file[g].folder /\ file[f].name = file[g].name
        => ~ SameType(file[f].type, file[g].type)

\* A file that was deleted for good never shows up again, whatever is restored,
\* moved, renamed, replaced or cleaned up later.
DeletedIsFinalAlone == [][alone => \A f \in Files : StaysDeleted(f)]_vars

============================================================================
