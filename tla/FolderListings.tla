---------------------------- MODULE FolderListings ----------------------------
(***************************************************************************)
(* What is asked about folders as a whole: their contents, whether a name  *)
(* is taken, the tree below them, its size and the count of its files,     *)
(* what they are in, and what there is at a path.  The tree is read folder *)
(* by folder, while it changes; the rest are single queries.               *)
(*                                                                         *)
(* The rows are of one user, and are written by requests that run one at a *)
(* time (module FolderTree has their races).  Names stay as they are.      *)
(***************************************************************************)
EXTENDS Integers, FiniteSets, FiniteSetsExt, SequencesExt

CONSTANTS
    Folders, Root,        \* integers; the root folder
    Files,
    nameOf,               \* of a folder, but the root
    fileName,             \* of a file: a name and a type, which may be None
    size,                 \* of a file
    MAX_ROWS,             \* depth the size is summed to
    MAX_FILES, MAX_DEPTH, \* limits of the count of files
    InitialTrees,         \* parents of the folders and files there are at first
    MaxWrites, MaxWalk    \* bounds: changes, and folders of a tree read

VARIABLES folder, file, walk, changes

listingVars == <<folder, file, walk, changes>>

----------------------------------------------------------------------------
None == -1

All == Folders \cup {Root}

States == {"NONE", "EXISTS", "TRASHED", "REMOVED"}

Known == {f \in All : folder[f].status # "NONE"}

Live == {f \in All : folder[f].status = "EXISTS"}

children(f) == {g \in Folders : folder[g].parent = f /\ folder[g].status = "EXISTS"}

NoWalk == [at |-> "none", from |-> Root, pending |-> <<>>, folders |-> <<>>, files |-> <<>>, touched |-> {}]

\* Below the root, and with different names.
ASSUME TreesAssumption ==
    \A t \in InitialTrees :
        /\ t \in [Folders \cup Files -> All]
        /\ \A S \in SUBSET Folders \ {{}} : \E f \in S : t[f] \notin S
        /\ \A f, g \in Folders : f # g /\ t[f] = t[g] => nameOf[f] # nameOf[g]
        /\ \A i, j \in Files : i # j /\ t[i] = t[j] => fileName[i] # fileName[j]

Init ==
    /\ \E t \in InitialTrees :
          /\ folder = [f \in All |-> [parent |-> IF f = Root THEN None ELSE t[f], status |-> "EXISTS"]]
          /\ file = [i \in Files |-> [parent |-> t[i], status |-> "EXISTS"]]
    /\ walk = NoWalk /\ changes = 0

----------------------------------------------------------------------------
(* A folder's content, and whether names are taken.                        *)

filesOf(f) == {i \in Files : file[i].parent = f /\ file[i].status = "EXISTS"}

\* The folder must be there and not in the trash.
getFolderContent(f) ==
    IF f \in Live THEN [folders |-> children(f), files |-> filesOf(f)] ELSE [folders |-> {}, files |-> {}]

searchFoldersInFolder(f, names) == {g \in children(f) : f \in Live /\ nameOf[g] \in names}

\* The type is looked at when one is given.
findFilesInFolderByName(f, name) ==
    {i \in filesOf(f) : fileName[i].name = name.name /\ (name.type # None => fileName[i].type = name.type)}

\* What a new file, or one moved, may not be called like.
findByPlainNameAndFolderId(f, name) == {i \in filesOf(f) : fileName[i] = name}

\* findOne of createFolder: of folders that are not in the trash.
nameAlreadyInUse(p, n) == \E g \in Folders : g \in children(p) /\ nameOf[g] = n

----------------------------------------------------------------------------
(* Queries that follow parents or children.                                *)

\* folder_recursive, with the depth a folder is found at: once for each way down.
folder_recursive(f) ==
    LET level[d \in 1 .. MAX_ROWS] == IF d = 1 THEN {f} \cap Live ELSE UNION {children(h) : h \in level[d - 1]}
    IN  UNION {{d} \X level[d] : d \in 1 .. MAX_ROWS}

filesBelow(f, depth, statuses) ==
    {e \in folder_recursive(f) \X Files :
        /\ e[1][1] <= depth
        /\ file[e[2]].parent = e[1][2] /\ file[e[2]].status \in statuses}

SizeOf(S) == FoldSet(LAMBDA e, sum : sum + size[e[2]], 0, S)

calculateFolderSize(f, includeTrash) ==
    SizeOf(filesBelow(f, MAX_ROWS, IF includeTrash THEN {"EXISTS", "TRASHED"} ELSE {"EXISTS"}))

Stats(S, hitDepthLimit) ==
    LET hitFileLimit == Cardinality(S) > MAX_FILES
    IN  [fileCount |-> IF hitFileLimit THEN MAX_FILES ELSE Cardinality(S), totalSize |-> SizeOf(S),
         isExact |-> ~ hitFileLimit /\ ~ hitDepthLimit]

\* LIMIT takes any of the files, one more than are counted.
limited_files(f) ==
    LET S == filesBelow(f, MAX_DEPTH, {"EXISTS"})
    IN  IF Cardinality(S) <= MAX_FILES + 1 THEN {S} ELSE kSubset(MAX_FILES + 1, S)

\* The depth of files found is looked at, not that of folders.
calculateFolderStats(f) == {Stats(S, \E e \in S : e[1][1] = MAX_DEPTH) : S \in limited_files(f)}

\* get_folder_ancestors: a set, of folders in the trash too; and of the folder itself.
getFolderAncestors(f) ==
    LET NotRemoved == {g \in Known : folder[g].status # "REMOVED"}
        up[n \in 0 .. Cardinality(All)] ==
            IF n = 0 THEN {f} \cap NotRemoved
            ELSE LET hier == up[n - 1] IN hier \cup ({folder[h].parent : h \in hier} \cap NotRemoved)
    IN  up[Cardinality(All)]

\* get_folder_ancestors_excluding_root_children: all of them but the root.
getFolderAncestorsInWorkspace(f) == getFolderAncestors(f) \ {Root}

\* get_folder_by_path: name by name from the root.
getFolderByPath(path) ==
    FoldLeft(LAMBDA S, n : UNION {{g \in children(f) : nameOf[g] = n} : f \in S}, {Root}, path)

getFileMetadataByPath(path, name) ==
    UNION {findByPlainNameAndFolderId(f, name) : f \in getFolderByPath(path)}

----------------------------------------------------------------------------
(* getFolderTree: folders wait in a queue, and each is read by three       *)
(* queries.                                                                *)

Asks(f) ==
    /\ walk = NoWalk /\ f \in Live
    /\ walk' = [NoWalk EXCEPT !.at = "folder", !.from = f, !.pending = <<f>>]
    /\ UNCHANGED <<folder, file, changes>>

\* A folder that is gone meanwhile ends all.
findByUuid ==
    /\ walk.at = "folder" /\ walk.pending # <<>>
    /\ Len(walk.folders) < MaxWalk
    /\ walk' = IF Head(walk.pending) \in Live
               THEN [walk EXCEPT !.at = "files", !.folders = Append(@, Head(walk.pending))]
               ELSE [walk EXCEPT !.at = "not found"]
    /\ UNCHANGED <<folder, file, changes>>

getFilesByFolderUuid ==
    /\ walk.at = "files"
    /\ walk' = [walk EXCEPT !.at = "children", !.files = Append(@, filesOf(Head(walk.pending)))]
    /\ UNCHANGED <<folder, file, changes>>

\* Mutant: a folder is read before those that wait.
findAllByParentUuidLast ==
    /\ walk.at = "children"
    /\ walk' = [walk EXCEPT !.at = "folder", !.pending = SetToSeq(children(Head(@)))]
    /\ UNCHANGED <<folder, file, changes>>

findAllByParentUuid ==
    /\ walk.at = "children"
    /\ \E s \in SetToSeqs(children(Head(walk.pending))) :
          walk' = [walk EXCEPT !.at = "folder", !.pending = Tail(@) \o s]
    /\ UNCHANGED <<folder, file, changes>>

answers ==
    /\ walk.at = "folder" /\ walk.pending = <<>>
    /\ walk' = [walk EXCEPT !.at = "answered"]
    /\ UNCHANGED <<folder, file, changes>>

----------------------------------------------------------------------------
(* Rows change.                                                            *)

Changed(S) ==
    /\ changes < MaxWrites /\ changes' = changes + 1
    /\ walk' = IF walk = NoWalk THEN walk ELSE [walk EXCEPT !.touched = @ \cup S]

SetFolders(S, p, status) ==
    /\ folder' = [f \in All |-> IF f \in S THEN [parent |-> IF p = None THEN folder[f].parent ELSE p, status |-> status]
                                ELSE folder[f]]
    /\ Changed({<<"folder", f>> : f \in S}) /\ UNCHANGED file

createFolder(f, p) ==
    /\ folder[f].status = "NONE" /\ p \in Known /\ ~ nameAlreadyInUse(p, nameOf[f])
    /\ SetFolders({f}, p, "EXISTS")

\* Or restores it; the destination may be below the folder itself.
moveFolder(f, p) ==
    /\ folder[f].status \in {"EXISTS", "TRASHED"} /\ folder[folder[f].parent].status # "REMOVED"
    /\ p \in Live /\ ~ nameAlreadyInUse(p, nameOf[f])
    /\ SetFolders({f}, p, "EXISTS")

moveFolderToTrash(f) == folder[f].status = "EXISTS" /\ SetFolders({f}, None, "TRASHED")

deleteFolder(f) == folder[f].status \in {"EXISTS", "TRASHED"} /\ SetFolders({f}, None, "REMOVED")

markChildFoldersAsRemoved(p) ==
    /\ folder[p].status = "REMOVED"
    /\ LET S == {f \in Folders : folder[f].parent = p /\ folder[f].status \in {"EXISTS", "TRASHED"}}
       IN  S # {} /\ SetFolders(S, None, "REMOVED")

SetFile(i, p, status) ==
    /\ file' = [file EXCEPT ![i] = [parent |-> p, status |-> status]]
    /\ Changed({<<"file", i>>}) /\ UNCHANGED folder

\* Or restores it.
moveFile(i, p) ==
    /\ file[i].status \in {"EXISTS", "TRASHED"} /\ p \in Live
    /\ findByPlainNameAndFolderId(p, fileName[i]) = {}
    /\ SetFile(i, p, "EXISTS")

moveFileToTrash(i) == file[i].status = "EXISTS" /\ SetFile(i, file[i].parent, "TRASHED")

deleteFile(i) == file[i].status \in {"EXISTS", "TRASHED"} /\ SetFile(i, file[i].parent, "DELETED")

----------------------------------------------------------------------------
Next ==
    \/ \E f \in All : Asks(f)
    \/ findByUuid \/ getFilesByFolderUuid \/ findAllByParentUuid \/ answers
    \/ \E f \in Folders, p \in All : createFolder(f, p) \/ moveFolder(f, p)
    \/ \E f \in Folders : moveFolderToTrash(f) \/ deleteFolder(f) \/ markChildFoldersAsRemoved(f)
    \/ \E i \in Files, p \in All : moveFile(i, p)
    \/ \E i \in Files : moveFileToTrash(i) \/ deleteFile(i)

Spec == Init /\ [][Next]_listingVars

----------------------------------------------------------------------------
(* Properties.                                                             *)

Names == {nameOf[f] : f \in Folders}

Paths == UNION {[1 .. n -> Names] : n \in 0 .. Cardinality(Folders)}

\* Folders in the root, or in such ones, with nothing in the trash in between.
Visible == {f \in Live : LET hier == getFolderAncestors(f) IN Root \in hier /\ hier \subseteq Live}

\* Every folder but the root is in another, and the folders of a tree were there to be read.
TypeOK ==
    /\ \A f \in All : folder[f].status \in States /\ (folder[f].parent = None <=> f = Root)
    /\ \A i \in Files : file[i].parent \in All /\ file[i].status \in {"EXISTS", "TRASHED", "DELETED"}
    /\ Range(walk.folders) \subseteq Known /\ Len(walk.files) <= Len(walk.folders)

\* A client that looks whether names are taken before it creates something is told of whatever
\* the creation would refuse, and of folders of nothing else.
SearchesForetellConflicts ==
    \A f \in Live :
        /\ \A n \in Names : searchFoldersInFolder(f, {n}) # {} <=> nameAlreadyInUse(f, n)
        /\ \A i \in Files : findByPlainNameAndFolderId(f, fileName[i]) \subseteq findFilesInFolderByName(f, fileName[i])

\* A path leads to one folder or file at most, to every one there is in folders that one gets to
\* and to no other; and its folders are those the folder found is in.
PathsLeadHome ==
    LET found == [path \in Paths |-> getFolderByPath(path)]
        reached == UNION Range(found)
    IN  /\ \A path \in Paths : \A f \in found[path] :
              /\ found[path] = {f}
              /\ {nameOf[g] : g \in getFolderAncestorsInWorkspace(f)} = Range(path)
              /\ Cardinality(getFolderAncestors(f)) = Len(path) + 1
        /\ reached = Visible
        /\ \A i \in Files :
              UNION {getFileMetadataByPath(path, fileName[i]) : path \in Paths}
                  = {j \in Files : fileName[j] = fileName[i] /\ file[j].status = "EXISTS" /\ file[j].parent \in reached}

\* What a folder's size is summed over are the folders that have it among what they are in, with
\* nothing in the trash in between.
SizesFollowAncestors ==
    LET visible == Visible
    IN  \A f \in visible : {e[2] : e \in folder_recursive(f)} = {g \in visible : f \in getFolderAncestors(g)}

\* A tree that is read while nothing changes is all there is below a folder, and each folder once:
\* its files are those of the folders' contents, and their sizes the folder's size.
TreeIsWholeAlone ==
    walk.touched = {} /\ walk.at \in {"answered", "not found"} /\ walk.from \in Visible =>
        /\ walk.at = "answered"
        /\ IsInjective(walk.folders)
        /\ Range(walk.folders) = {e[2] : e \in folder_recursive(walk.from)}
        /\ \A k \in DOMAIN walk.folders : walk.files[k] = getFolderContent(walk.folders[k]).files
        /\ MapThenSumSet(LAMBDA i : size[i], UNION Range(walk.files)) = calculateFolderSize(walk.from, FALSE)

\* Whatever moves or goes meanwhile, a tree that is answered has each folder that stayed, in
\* folders that stayed, with the files that stayed.
TreeKeepsWhatStays ==
    LET Stayed(S) == \A f \in S : <<"folder", f>> \notin walk.touched
        Between(f) == {g \in getFolderAncestors(f) : walk.from \in getFolderAncestors(g)}
    IN  walk.at = "answered" /\ walk.from \in Visible =>
            \A f \in Visible :
                walk.from \in Between(f) /\ Stayed(Between(f)) =>
                    \E k \in DOMAIN walk.folders :
                        /\ walk.folders[k] = f
                        /\ \A i \in filesOf(f) : <<"file", i>> \notin walk.touched => i \in walk.files[k]

\* A count that is said to be exact is that of all files below the folder, and the size theirs;
\* but where files are only below the limit of depth and none at it.
StatsExact ==
    \A f \in Visible :
        LET files == filesBelow(f, MAX_ROWS, {"EXISTS"})
        IN  \A s \in calculateFolderStats(f) :
                s.isExact /\ ((\A e \in files : e[1][1] <= MAX_DEPTH) \/ \E e \in files : e[1][1] = MAX_DEPTH) =>
                    s.fileCount = Cardinality(files) /\ s.totalSize = SizeOf(files)

=============================================================================
