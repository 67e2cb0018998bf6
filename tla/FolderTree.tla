----------------------------- MODULE FolderTree -----------------------------
(***************************************************************************)
(* The rows of table folders that belong to one user: the tree, the names  *)
(* in it, the trash and the removals.                                      *)
(*                                                                         *)
(* As in FileLifecycle a handler that reads and then writes is two         *)
(* actions, and anything may come in between; a history variable keeps     *)
(* which rows did change, so that what goes wrong can be put down to it.   *)
(* A name is kept twice, in clear and encrypted with the id of the parent  *)
(* as salt; both are always written together, so that the encrypted one is *)
(* modelled by its salt alone, and it can be read back only under that     *)
(* parent.  updateByFolderId, which reads the row again and saves what     *)
(* differs, is one step.                                                   *)
(***************************************************************************)
EXTENDS FiniteSets

CONSTANTS
    Folders,      \* the folders that can exist, the root aside
    Root,         \* the user's root folder
    Names,        \* plain names
    Blank,        \* what decryption with the wrong salt gives: the name ''
    Keep,         \* a move that gives no new name
    Requests      \* bound: requests between their check and their write

ASSUME FolderConstants ==
    /\ Root \notin Folders
    /\ Blank \notin Names /\ Keep \notin Names \cup {Blank}

VARIABLES
    folder,    \* table folders: [Folders -> Row]
    inflight,  \* writes that requests have checked and not done yet
    changed    \* history: the folders whose row has changed since a request's check

vars == <<folder, inflight, changed>>

Parents == Folders \cup {Root}

Row == [known : BOOLEAN, parent : Parents, name : Names \cup {Blank},
        salt : Parents, deleted : BOOLEAN, removed : BOOLEAN]

Ops == {"create", "rename", "move"}

\* A checked write: the parent it puts the folders under (or, for a rename,
\* the one it found) and the names it gives them.
Write == [request : Requests, op : Ops, parent : Parents,
          names : UNION {[S -> Names \cup {Blank}] : S \in SUBSET Folders}]

Init ==
    /\ folder = [f \in Folders |-> [known |-> FALSE, parent |-> Root,
           name |-> Blank, salt |-> Root, deleted |-> FALSE, removed |-> FALSE]]
    /\ inflight = {}
    /\ changed = [r \in Requests |-> {}]

----------------------------------------------------------------------------
(* The table.                                                              *)

Known == {f \in Folders : folder[f].known}
Removed == {f \in Known : folder[f].removed}
Deleted == {f \in Known : folder[f].deleted}

\* folders_parentuuid_plainname_unique covers the rows neither deleted nor
\* removed.
Indexed(row) == row.known /\ ~ row.deleted /\ ~ row.removed

UniqueIndex(rows) ==
    \A f, g \in Folders :
        /\ f # g /\ Indexed(rows[f]) /\ Indexed(rows[g])
        /\ rows[f].parent = rows[g].parent
        => rows[f].name # rows[g].name

\* One UPDATE or INSERT: rejected as a whole when it breaks the index.
Save(rows) == IF UniqueIndex(rows) THEN folder' = rows ELSE UNCHANGED folder

\* The lookups by name look at deleted and not at removed.
NameInUse(p, n) ==
    \E g \in Known \ Deleted : folder[g].parent = p /\ folder[g].name = n

\* The encrypted name, read with the parent the row has now.  Under the wrong
\* parent the decryption ends up with '', or with null, which the encryption
\* that follows refuses: the request then changes nothing.
decryptName(f) == IF folder[f].salt = folder[f].parent THEN folder[f].name ELSE Blank

----------------------------------------------------------------------------
(* Requests with a check and a write.                                      *)

Checked(op, p, names) ==
    /\ \E r \in Requests \ {w.request : w \in inflight} :
          inflight' = inflight \cup
                {[request |-> r, op |-> op, parent |-> p, names |-> names]}
    /\ UNCHANGED folder

Done(w) == inflight' = inflight \ {w}

\* uuid v4: no two requests create the same folder.
Unused(S) ==
    /\ S \cap Known = {}
    /\ \A w \in inflight : w.op = "create" => S \cap DOMAIN w.names = {}

\* POST /folders with a name.  The parent may be in the trash or removed.
createFolder(f, p, n) ==
    /\ Unused({f})
    /\ p \in Known \cup {Root}
    /\ ~ NameInUse(p, n)
    /\ Checked("create", p, [g \in {f} |-> n])

\* POST /folders with a list of different names.
createBulkFolders(names, p) ==
    /\ Unused(DOMAIN names)
    /\ p \in (Known \ Removed) \cup {Root}
    /\ \A f, g \in DOMAIN names : f # g => names[f] # names[g]
    /\ \A f \in DOMAIN names : \A g \in Known :
          Indexed(folder[g]) /\ folder[g].parent = p => folder[g].name # names[f]
    /\ Checked("create", p, names)

\* One INSERT, of all the rows or of none.
insertedRows(w) ==
    [f \in Folders |->
        IF f \in DOMAIN w.names
        THEN [known |-> TRUE, parent |-> w.parent, name |-> w.names[f],
              salt |-> w.parent, deleted |-> FALSE, removed |-> FALSE]
        ELSE folder[f]]

insertFolders(w) ==
    /\ w.op = "create"
    /\ Save(insertedRows(w))
    /\ Done(w)

\* PUT /folders/:uuid/meta.  It looks for the name it has just encrypted, and
\* encryption is randomised: the lookup never finds anything.
updateFolderMetaData(f, n) ==
    /\ f \in Known \ Removed
    /\ Checked("rename", folder[f].parent, [g \in {f} |-> n])

\* Called with a folder that was just moved, when a member leaves a workspace.
renameFolder(f, n) ==
    /\ f \in Known \ (Removed \cup Deleted)
    /\ ~ NameInUse(folder[f].parent, n)
    /\ Checked("rename", folder[f].parent, [g \in {f} |-> n])

\* The name is encrypted for the parent that was read, whichever it is by now.
renamedRows(w) ==
    [f \in Folders |->
        IF f \in DOMAIN w.names
        THEN [folder[f] EXCEPT !.name = w.names[f], !.salt = w.parent]
        ELSE folder[f]]

renameWrite(w) ==
    /\ w.op = "rename"
    /\ Save(renamedRows(w))
    /\ Done(w)

\* Mutant: whether the folder was removed is not looked at.
moveFolderUnchecked(f, p, n) ==
    /\ f \in Known
    /\ folder[f].parent \notin Removed
    /\ p \in (Known \ (Removed \cup Deleted)) \cup {Root}
    /\ LET name == IF n = Keep THEN decryptName(f) ELSE n IN
         ~ NameInUse(p, name) /\ Checked("move", p, [g \in {f} |-> name])

\* Mutant: a name that is kept is not looked for where the folder goes.
moveFolderKeepUnchecked(f, p, n) ==
    /\ f \in Known \ Removed
    /\ folder[f].parent \notin Removed
    /\ p \in (Known \ (Removed \cup Deleted)) \cup {Root}
    /\ LET name == IF n = Keep THEN decryptName(f) ELSE n IN
         /\ n # Keep => ~ NameInUse(p, name)
         /\ Checked("move", p, [g \in {f} |-> name])

\* PATCH /folders/:uuid moves a folder, or restores it from the trash.  A name
\* that is not given anew is decrypted.  Nothing keeps the destination from
\* being the folder itself or one below it.
moveFolder(f, p, n) ==
    /\ f \in Known \ Removed
    /\ folder[f].parent \notin Removed
    /\ p \in (Known \ (Removed \cup Deleted)) \cup {Root}
    /\ LET name == IF n = Keep THEN decryptName(f) ELSE n IN
         ~ NameInUse(p, name) /\ Checked("move", p, [g \in {f} |-> name])

\* Mutant: the name is not encrypted anew for the destination.
movedRowsSameName(w) ==
    [f \in Folders |->
        IF f \in DOMAIN w.names
        THEN [folder[f] EXCEPT !.parent = w.parent, !.name = w.names[f], !.deleted = FALSE]
        ELSE folder[f]]

\* Mutant: the row goes under a parent there is not.
movedRowsNoParent(w) ==
    [f \in Folders |->
        IF f \in DOMAIN w.names
        THEN [folder[f] EXCEPT !.parent = Keep, !.salt = w.parent,
                               !.name = w.names[f], !.deleted = FALSE]
        ELSE folder[f]]

movedRows(w) ==
    [f \in Folders |->
        IF f \in DOMAIN w.names
        THEN [folder[f] EXCEPT !.parent = w.parent, !.salt = w.parent,
                               !.name = w.names[f], !.deleted = FALSE]
        ELSE folder[f]]

moveFolderWrite(w) ==
    /\ w.op = "move"
    /\ Save(movedRows(w))
    /\ Done(w)

----------------------------------------------------------------------------
(* Requests and jobs that are one UPDATE of the rows of a set.             *)

UpdateAll(S, deleted, removed) ==
    /\ folder' = [f \in Folders |->
          IF f \in S
          THEN [folder[f] EXCEPT !.deleted = @ \/ deleted, !.removed = @ \/ removed]
          ELSE folder[f]]
    /\ UNCHANGED inflight

\* POST /storage/trash/add; backup folders, which are outside this tree, are
\* removed instead.
moveFoldersToTrash(S) == S \subseteq Known /\ UpdateAll(S, TRUE, FALSE)

\* DELETE /storage/trash and DELETE /folders/:uuid: whatever the rows are.
deleteByUser(S) == S \subseteq Known /\ UpdateAll(S, TRUE, TRUE)

\* Emptying the trash, and the clean-up of a trash that expired.
deleteTrashedFoldersBatch(S) ==
    S \subseteq Deleted \ Removed /\ UpdateAll(S, FALSE, TRUE)

\* The job that takes the children of removed folders.
markChildFoldersAsRemoved(parents) ==
    /\ parents \subseteq Removed
    /\ UpdateAll({f \in Known \ Removed : folder[f].parent \in parents}, TRUE, TRUE)

----------------------------------------------------------------------------

Check ==
    \/ \E f \in Folders, n \in Names :
          \/ \E p \in Parents : createFolder(f, p, n)
          \/ updateFolderMetaData(f, n) \/ renameFolder(f, n)
    \/ \E f \in Folders, p \in Parents, n \in Names \cup {Keep} : moveFolder(f, p, n)
    \/ \E S \in SUBSET Folders \ {{}} : \E names \in [S -> Names], p \in Parents :
          createBulkFolders(names, p)

FinishWrite ==
    \E w \in inflight : insertFolders(w) \/ renameWrite(w) \/ moveFolderWrite(w)

OneUpdate ==
    \E S \in SUBSET Folders \ {{}} :
        \/ moveFoldersToTrash(S) \/ deleteByUser(S)
        \/ deleteTrashedFoldersBatch(S) \/ markChildFoldersAsRemoved(S)

\* What every request in flight has not seen.
Remember ==
    changed' = [r \in Requests |->
                  IF \E w \in inflight' : w.request = r
                  THEN changed[r] \cup {f \in Folders : folder'[f] # folder[f]}
                  ELSE {}]

Next == (Check \/ FinishWrite \/ OneUpdate) /\ Remember

Spec == Init /\ [][Next]_vars

----------------------------------------------------------------------------
(* Properties.                                                             *)

\* The rows and the writes in flight keep their types: no request puts a folder
\* under something that is not one.
TypeOK ==
    /\ folder \in [Folders -> Row]
    /\ inflight \subseteq Write
    /\ changed \in [Requests -> SUBSET Folders]

\* A write that is made, or rejected, by this step.
Ended(w) == w \in inflight /\ w \notin inflight'

Readable(row) == row.salt = row.parent

\* The encrypted name of a folder can be read back, because it was encrypted for
\* the parent the folder is under; only a rename makes one unreadable, and only
\* where the row has changed between its check and its write.
NamesReadable ==
    [][\A f \in Folders :
          /\ folder'[f].known /\ ~ Readable(folder'[f])
          /\ f \in Known => Readable(folder[f])
          => \E w \in inflight : /\ Ended(w) /\ w.op = "rename"
                                 /\ f \in DOMAIN w.names \cap changed[w.request]]_vars

Placed(row) == <<row.parent, row.name, row.salt, row.removed>>

\* A removed folder is neither moved, renamed nor taken back, but by a request
\* that had looked at it before it was removed.
RemovedIsFinal ==
    [][\A f \in Removed :
          Placed(folder'[f]) # Placed(folder[f])
          => \E w \in inflight : Ended(w) /\ f \in DOMAIN w.names \cap changed[w.request]]_vars

Rows(w) ==
    CASE w.op = "create" -> insertedRows(w)
      [] w.op = "rename" -> renamedRows(w)
      [] w.op = "move" -> movedRows(w)

\* The lookups by name are enough where nothing races, though they look at other
\* rows than the unique index does: it rejects a creation, a move or a restore
\* only where the name was taken after the request had looked for it.
RejectedOnlyByARace ==
    [][\A w \in inflight :
          Ended(w) /\ w.op # "rename" /\ ~ UniqueIndex(Rows(w))
          => \E g \in changed[w.request], f \in DOMAIN w.names :
                Indexed(folder[g]) /\ folder[g].parent = w.parent
                /\ folder[g].name = w.names[f]]_vars

============================================================================
