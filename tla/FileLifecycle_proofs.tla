------------------------ MODULE FileLifecycle_proofs ------------------------
(***************************************************************************)
(* Proofs about FileLifecycle, for any number of files, contents, folders, *)
(* names and requests in flight.                                           *)
(***************************************************************************)
EXTENDS FileLifecycle, FiniteSetTheorems, TLAPS

(* What each kind of step does.                                            *)

\* The request names a content the client uploaded, or none within the limit.
Given(w) ==
    \/ w.content = Empty /\ checkEmptyFilesLimit /\ UNCHANGED net
    \/ /\ w.content \in Contents /\ net[w.content] = "uploaded"
       /\ net' = [net EXCEPT ![w.content] = "stored"]

\* What the check of a request has seen.
Passed(w) ==
    /\ w.op # "deleteOldContent"
    /\ w.op \in {"createFile", "replaceFile", "replaceKeepingVersion"} => Given(w)
    /\ w.op \notin {"createFile", "replaceFile", "replaceKeepingVersion"} => UNCHANGED net
    /\ w.op \in {"createFile", "updateFileMetaData", "moveFile"}
          => ~ findByPlainNameAndFolderId(w.name, w.type, w.folder)
    /\ w.op = "createFile" => /\ file[w.file].status = "NONE"
                              /\ \A v \in inflight : v.file = w.file => v.op # "createFile"
    /\ w.op = "updateFileMetaData"
          => file[w.file].status = "EXISTS" /\ file[w.file].folder = w.folder
    /\ w.op = "moveFile" => file[w.file].status \in Live
    /\ w.op \in {"replaceFile", "replaceKeepingVersion"}
          => file[w.file].status = "EXISTS" /\ w.old = file[w.file].content
    /\ w.op = "restoreFileVersion" => HasRow(w.file) /\ w.content \in versions[w.file]
    /\ w.op = "deleteFromNetwork"
          => /\ w.content \in Contents
             /\ \A g \in Files : HasRow(g) => file[g].content # w.content

\* A check that passes puts its request in flight and does nothing else.
Begun(w) ==
    /\ Quiet
    /\ w.nr \in 1 .. MaxInFlight /\ \A v \in inflight : v.nr # w.nr
    /\ inflight' = inflight \cup {w}
    /\ UNCHANGED <<file, folder, deletedFiles, versions, late>>
    /\ Passed(w)

\* Rows that are there become DELETED, and what was visible is queued.
Deletes ==
    /\ file' \in [Files -> FileRow]
    /\ deletedFiles' \in [Files -> Queued]
    /\ \A f \in Files :
          \/ file'[f] = file[f] /\ deletedFiles'[f] = deletedFiles[f]
          \/ /\ HasRow(f) /\ file'[f].status = "DELETED"
             /\ file'[f].content = file[f].content
             /\ deletedFiles'[f] = IF /\ file[f].status # "DELETED"
                                      /\ file[f].content # Empty
                                      /\ deletedFiles[f].state = "none"
                                   THEN Entry(f) ELSE deletedFiles[f]
    /\ \/ Quiet /\ inflight' = inflight
       \/ \E w \in inflight : w.op = "deleteFilePermanently" /\ Done(w)
    /\ UNCHANGED <<folder, versions, net, late>>

\* Visible rows go to the trash.
Trashes ==
    /\ file' \in [Files -> FileRow]
    /\ \A f \in Files :
          \/ file'[f] = file[f]
          \/ file[f].status = "EXISTS" /\ file'[f] = [file[f] EXCEPT !.status = "TRASHED"]
    /\ Quiet
    /\ UNCHANGED <<folder, deletedFiles, versions, net, inflight, late>>

\* A request writes the row of its file, or the write is refused.
WritesRow(w, row) ==
    /\ \/ file' = file
       \/ file' = [file EXCEPT ![w.file] = row]
    /\ UNCHANGED deletedFiles

InsertedRow(w) ==
    [status |-> "EXISTS", removed |-> FALSE, folder |-> w.folder,
     name |-> w.name, type |-> w.type, content |-> w.content]

RenamedRow(w) == [file[w.file] EXCEPT !.name = w.name, !.type = w.type]

MovedRow(w) ==
    [file[w.file] EXCEPT !.status = "EXISTS", !.folder = w.folder,
                         !.name = w.name, !.type = w.type]

ReplacedRow(w) == [file[w.file] EXCEPT !.content = w.content]

Inserts(w) ==
    /\ w.op = "createFile" /\ WritesRow(w, InsertedRow(w))
    /\ Done(w) /\ UNCHANGED <<folder, versions, net, late>>

Renames(w) ==
    /\ w.op = "updateFileMetaData" /\ WritesRow(w, RenamedRow(w))
    /\ file' # file => HasRow(w.file)
    /\ Done(w) /\ UNCHANGED <<folder, versions, net, late>>

Moves(w) ==
    /\ w.op = "moveFile" /\ WritesRow(w, MovedRow(w))
    /\ file' # file => HasRow(w.file)
    /\ WroteLate(w) /\ Done(w) /\ UNCHANGED <<folder, versions, net>>

Replaces(w) ==
    \/ replaceFileWrite(w) \/ replaceKeepingVersionWrite(w) \/ restoreFileVersionWrite(w)

CallsNetwork(w) == deleteOldContent(w) \/ deleteFromNetworkReturns(w)

\* The placeholders of a row that is not there have the types of the columns.
LEMMA NullRowType == \A s \in RowStatus : NullRow(s) \in FileRow /\ NullRow(s).status = s
<1>1. AnyFolder \in Folders
  BY FileConstants DEF AnyFolder
<1>2. AnyName \in Names
  BY FileConstants DEF AnyName
<1> QED
  BY <1>1, <1>2 DEF NullRow, FileRow, AllTypes

\* The rows that a write may leave have the types of the columns.
LEMMA RowTypes ==
    ASSUME TypeOK, NEW w \in Write
    PROVE  /\ w.file \in Files /\ file[w.file] \in FileRow
           /\ InsertedRow(w) \in FileRow /\ InsertedRow(w).status = "EXISTS"
           /\ InsertedRow(w).content = w.content
           /\ RenamedRow(w) \in FileRow /\ RenamedRow(w).status = file[w.file].status
           /\ RenamedRow(w).content = file[w.file].content
           /\ MovedRow(w) \in FileRow /\ MovedRow(w).status = "EXISTS"
           /\ MovedRow(w).content = file[w.file].content
           /\ ReplacedRow(w) \in FileRow /\ ReplacedRow(w).status = file[w.file].status
           /\ ReplacedRow(w).content = w.content
<1>1. w.file \in Files /\ file[w.file] \in FileRow
  BY DEF TypeOK, Write
<1>2. /\ w.folder \in Folders /\ w.name \in Names /\ w.type \in AllTypes
      /\ w.content \in Contents \cup {Empty}
  BY DEF Write
<1>3. InsertedRow(w) \in FileRow /\ InsertedRow(w).status = "EXISTS"
      /\ InsertedRow(w).content = w.content
  BY <1>2 DEF InsertedRow, FileRow, RowStatus, FileStatus
<1>4. /\ RenamedRow(w) \in FileRow /\ RenamedRow(w).status = file[w.file].status
      /\ RenamedRow(w).content = file[w.file].content
  BY <1>1, <1>2 DEF RenamedRow, FileRow
<1>5. MovedRow(w) \in FileRow /\ MovedRow(w).status = "EXISTS"
      /\ MovedRow(w).content = file[w.file].content
  BY <1>1, <1>2 DEF MovedRow, FileRow, RowStatus, FileStatus
<1>6. /\ ReplacedRow(w) \in FileRow /\ ReplacedRow(w).status = file[w.file].status
      /\ ReplacedRow(w).content = w.content
  BY <1>1, <1>2 DEF ReplacedRow, FileRow
<1> QED
  BY <1>1, <1>3, <1>4, <1>5, <1>6

\* An extension stays an extension through File.setType.
LEMMA SetTypeType == \A t \in AllTypes : setType(t) \in AllTypes
BY DEF setType, AllTypes

\* A request record built from typed parts is a Write.
LEMMA ReqType ==
    ASSUME TypeOK
    PROVE  \A op \in Ops, f \in Files, d \in Folders, n \in Names, t \in AllTypes,
              c \in Contents \cup {Empty} :
              /\ Req(op, f, d, n, t, c) \in Write
              /\ InPlace(op, f, c) \in Write
              /\ [InPlace(op, f, c) EXCEPT !.old = Empty] \in Write
<1> SUFFICES ASSUME NEW op \in Ops, NEW f \in Files, NEW d \in Folders, NEW n \in Names,
                    NEW t \in AllTypes, NEW c \in Contents \cup {Empty}
             PROVE  /\ Req(op, f, d, n, t, c) \in Write
                    /\ InPlace(op, f, c) \in Write
                    /\ [InPlace(op, f, c) EXCEPT !.old = Empty] \in Write
  OBVIOUS
<1>1. /\ file[f].folder \in Folders /\ file[f].name \in Names /\ file[f].type \in AllTypes
      /\ file[f].content \in Contents \cup {Empty}
  BY DEF TypeOK, FileRow
<1>2. Req(op, f, d, n, t, c) \in Write
  BY <1>1 DEF Req, Write
<1>3. InPlace(op, f, c) \in Write
  BY <1>1 DEF InPlace, Req, Write
<1> QED
  BY <1>2, <1>3 DEF Write

\* A check that passes is one that begins a request, with a number of its own.
LEMMA CheckedBegins ==
    ASSUME NEW w \in Write, Checked(w), \A k \in Nat : Passed([w EXCEPT !.nr = k])
    PROVE  \E v \in Write : Begun(v)
<1>1. PICK k \in 1 .. MaxInFlight : Free(k) /\ inflight' = inflight \cup {[w EXCEPT !.nr = k]}
  BY DEF Checked
<1> DEFINE v == [w EXCEPT !.nr = k]
<1>2. k \in Nat
  BY FileConstants
<1>3. v \in Write /\ v.nr = k
  BY <1>2 DEF Write
<1>4. \A u \in inflight : u.nr # k
  <2> SUFFICES ASSUME NEW u \in inflight, u.nr = k PROVE FALSE
    OBVIOUS
  <2>1. k \in {x.nr : x \in inflight} \cap 1 .. k
    BY <1>2, FileConstants
  <2>2. k \in 1 .. (k - 1)
    BY <1>1, <2>1 DEF Free
  <2> QED
    BY <1>2, <2>2
<1>5. Begun(v)
  BY <1>1, <1>2, <1>3, <1>4 DEF Begun, Checked
<1> QED
  BY <1>3, <1>5

\* So does each handler that checks before it writes.
LEMMA CheckBegins == ASSUME TypeOK, Check PROVE \E v \in Write : Begun(v)
<1>1. PICK f \in Files :
        \/ \E d \in Folders, n \in Names, t \in AllTypes :
              \/ \E c \in Contents \cup {Empty} : createFile(f, d, n, t, c)
              \/ moveFile(f, d, n, t)
        \/ \E n \in Names, t \in AllTypes : updateFileMetaData(f, n, t)
        \/ \E c \in Contents \cup {Empty}, b \in BOOLEAN : replaceFile(f, c, b)
        \/ deleteFilePermanently(f)
        \/ \E c \in Contents : restoreFileVersion(f, c) \/ deleteFileByFileId(f, c)
  BY DEF Check
<1>2. /\ file[f].folder \in Folders /\ file[f].name \in Names /\ file[f].type \in AllTypes
      /\ Empty \in Contents \cup {Empty} /\ file[f].status \in RowStatus
  BY DEF TypeOK, FileRow
<1>3. ASSUME NEW d \in Folders, NEW n \in Names, NEW t \in AllTypes,
             NEW c \in Contents \cup {Empty}, createFile(f, d, n, t, c)
      PROVE  \E v \in Write : Begun(v)
  <2> DEFINE w == Req("createFile", f, d, n, t, c)
  <2>1. w \in Write
    BY <1>2, ReqType DEF Ops
  <2>2. ASSUME NEW k \in Nat PROVE Passed([w EXCEPT !.nr = k])
    BY <1>3 DEF createFile, Content, Passed, Given, Req
  <2> HIDE DEF w
  <2>3. Checked(w)
    BY <1>3 DEF createFile, w
  <2> QED
    BY <2>1, <2>2, <2>3, CheckedBegins
<1>4. ASSUME NEW d \in Folders, NEW n \in Names, NEW t \in AllTypes, moveFile(f, d, n, t)
      PROVE  \E v \in Write : Begun(v)
  <2> DEFINE w == Req("moveFile", f, d, n, setType(t), Empty)
  <2>1. w \in Write
    BY <1>2, ReqType, SetTypeType DEF Ops
  <2>2. file[f].status \in Live
    BY <1>4 DEF moveFile, isDeleted, HasRow, FileStatus, Live
  <2>3. ASSUME NEW k \in Nat PROVE Passed([w EXCEPT !.nr = k])
    BY <1>4, <2>2 DEF moveFile, Passed, Req
  <2> HIDE DEF w
  <2>4. Checked(w)
    BY <1>4 DEF moveFile, w
  <2> QED
    BY <2>1, <2>3, <2>4, CheckedBegins
<1>5. ASSUME NEW n \in Names, NEW t \in AllTypes, updateFileMetaData(f, n, t)
      PROVE  \E v \in Write : Begun(v)
  <2> DEFINE w == Req("updateFileMetaData", f, file[f].folder, n, t, Empty)
  <2>1. w \in Write
    BY <1>2, ReqType DEF Ops
  <2>2. ASSUME NEW k \in Nat PROVE Passed([w EXCEPT !.nr = k])
    BY <1>5 DEF updateFileMetaData, Passed, Req
  <2> HIDE DEF w
  <2>3. Checked(w)
    BY <1>5 DEF updateFileMetaData, w
  <2> QED
    BY <2>1, <2>2, <2>3, CheckedBegins
<1>6. ASSUME NEW c \in Contents \cup {Empty}, NEW b \in BOOLEAN, replaceFile(f, c, b)
      PROVE  \E v \in Write : Begun(v)
  <2> DEFINE w == InPlace(IF b THEN "replaceKeepingVersion" ELSE "replaceFile", f, c)
  <2>1. w \in Write
    BY <1>2, ReqType DEF Ops
  <2>2. ASSUME NEW k \in Nat PROVE Passed([w EXCEPT !.nr = k])
    BY <1>6 DEF replaceFile, Content, Passed, Given, InPlace, Req
  <2> HIDE DEF w
  <2>3. Checked(w)
    BY <1>6 DEF replaceFile, w
  <2> QED
    BY <2>1, <2>2, <2>3, CheckedBegins
<1>7. ASSUME deleteFilePermanently(f) PROVE \E v \in Write : Begun(v)
  <2> DEFINE w == InPlace("deleteFilePermanently", f, Empty)
  <2>1. w \in Write
    BY <1>2, ReqType DEF Ops
  <2>2. ASSUME NEW k \in Nat PROVE Passed([w EXCEPT !.nr = k])
    BY <1>7 DEF deleteFilePermanently, Passed, InPlace, Req
  <2> HIDE DEF w
  <2>3. Checked(w)
    BY <1>7 DEF deleteFilePermanently, w
  <2> QED
    BY <2>1, <2>2, <2>3, CheckedBegins
<1>8. ASSUME NEW c \in Contents, restoreFileVersion(f, c) PROVE \E v \in Write : Begun(v)
  <2> DEFINE w == InPlace("restoreFileVersion", f, c)
  <2>1. w \in Write
    BY <1>2, ReqType DEF Ops
  <2>2. ASSUME NEW k \in Nat PROVE Passed([w EXCEPT !.nr = k])
    BY <1>8 DEF restoreFileVersion, Passed, InPlace, Req
  <2> HIDE DEF w
  <2>3. Checked(w)
    BY <1>8 DEF restoreFileVersion, w
  <2> QED
    BY <2>1, <2>2, <2>3, CheckedBegins
<1>9. ASSUME NEW c \in Contents, deleteFileByFileId(f, c), ~ deleteFilePermanently(f)
      PROVE  \E v \in Write : Begun(v)
  <2> DEFINE w == [InPlace("deleteFromNetwork", f, c) EXCEPT !.old = Empty]
  <2>1. w \in Write
    BY <1>2, ReqType DEF Ops
  <2>2. ASSUME NEW k \in Nat PROVE Passed([w EXCEPT !.nr = k])
    BY <1>9 DEF deleteFileByFileId, Passed, InPlace, Req
  <2> HIDE DEF w
  <2>3. Checked(w)
    BY <1>9 DEF deleteFileByFileId, w
  <2> QED
    BY <2>1, <2>2, <2>3, CheckedBegins
<1> QED
  BY <1>1, <1>3, <1>4, <1>5, <1>6, <1>7, <1>8, <1>9

(* Every step is of one of these kinds.                                    *)

\* The trigger stays silent when no row becomes DELETED.
LEMMA TriggerSilent ==
    ASSUME TypeOK, NEW rows,
           \A f \in Files : rows[f].status = "DELETED" => file[f].status = "DELETED"
    PROVE  FileDeletedTrigger(rows) = deletedFiles
BY DEF FileDeletedTrigger, TypeOK

\* An UPDATE of one row that does not delete it leaves the queue alone.
LEMMA SaveWritesRow ==
    ASSUME TypeOK, NEW w \in Write, NEW row \in FileRow, Save([file EXCEPT ![w.file] = row]),
           row.status = "DELETED" => file[w.file].status = "DELETED"
    PROVE  WritesRow(w, row)
<1> DEFINE rows == [file EXCEPT ![w.file] = row]
<1>1. w.file \in Files /\ file \in [Files -> FileRow]
  BY DEF Write, TypeOK
<1>2. \A f \in Files : rows[f].status = "DELETED" => file[f].status = "DELETED"
  BY <1>1
<1> HIDE DEF rows
<1>3. FileDeletedTrigger(rows) = deletedFiles
  BY <1>2, TriggerSilent
<1>4. \/ UNCHANGED <<file, deletedFiles>>
      \/ file' = rows /\ deletedFiles' = FileDeletedTrigger(rows)
  BY DEF Save, rows
<1> QED
  BY <1>3, <1>4 DEF WritesRow, rows

\* A request that writes.
LEMMA FinishKinds ==
    ASSUME TypeOK, NEW w \in inflight,
           createFileInsert(w) \/ updateFileMetaDataWrite(w) \/ moveFileWrite(w)
    PROVE  Inserts(w) \/ Renames(w) \/ Moves(w)
<1>1. w \in Write
  BY DEF TypeOK
<1>2. /\ w.file \in Files /\ file \in [Files -> FileRow] /\ file[w.file] \in FileRow
      /\ InsertedRow(w) \in FileRow /\ InsertedRow(w).status = "EXISTS"
      /\ RenamedRow(w) \in FileRow /\ RenamedRow(w).status = file[w.file].status
      /\ MovedRow(w) \in FileRow /\ MovedRow(w).status = "EXISTS"
  BY <1>1, RowTypes DEF TypeOK
<1>3. CASE createFileInsert(w)
  <2>1. Save([file EXCEPT ![w.file] = InsertedRow(w)])
    BY <1>3 DEF createFileInsert, InsertedRow
  <2>2. WritesRow(w, InsertedRow(w))
    BY <1>1, <1>2, <2>1, SaveWritesRow
  <2> QED
    BY <1>3, <2>2 DEF createFileInsert, Inserts
<1>4. CASE updateFileMetaDataWrite(w)
  <2>1. CASE HasRow(w.file)
    <3>1. [file EXCEPT ![w.file].name = w.name, ![w.file].type = w.type]
             = [file EXCEPT ![w.file] = RenamedRow(w)]
      BY <1>2 DEF RenamedRow, FileRow
    <3>2. Save([file EXCEPT ![w.file] = RenamedRow(w)])
      BY <1>4, <2>1, <3>1 DEF updateFileMetaDataWrite
    <3>3. WritesRow(w, RenamedRow(w))
      BY <1>1, <1>2, <3>2, SaveWritesRow
    <3> QED
      BY <1>4, <2>1, <3>3 DEF updateFileMetaDataWrite, Renames
  <2>2. CASE ~ HasRow(w.file)
    BY <1>4, <2>2 DEF updateFileMetaDataWrite, Renames, WritesRow
  <2> QED
    BY <2>1, <2>2
<1>5. CASE moveFileWrite(w)
  <2>1. CASE HasRow(w.file)
    <3>1. Save([file EXCEPT ![w.file] = MovedRow(w)])
      BY <1>5, <2>1, <1>2 DEF moveFileWrite, MovedRow
    <3>2. WritesRow(w, MovedRow(w))
      BY <1>1, <1>2, <3>1, SaveWritesRow
    <3> QED
      BY <1>5, <2>1, <3>2 DEF moveFileWrite, Moves
  <2>2. CASE ~ HasRow(w.file)
    BY <1>5, <2>2 DEF moveFileWrite, Moves, WritesRow
  <2> QED
    BY <2>1, <2>2
<1> QED
  BY <1>3, <1>4, <1>5

\* An UPDATE that sets rows to DELETED.
LEMMA SetDeletedDeletes ==
    ASSUME TypeOK, NEW S \in SUBSET Files, NEW b \in BOOLEAN, SetDeleted(S, b),
           \A f \in S : HasRow(f),
           \/ Quiet /\ inflight' = inflight
           \/ \E w \in inflight : w.op = "deleteFilePermanently" /\ Done(w),
           UNCHANGED <<folder, versions, net, late>>
    PROVE  Deletes
<1> DEFINE gone(f) == [file[f] EXCEPT !.status = "DELETED", !.removed = @ \/ b]
           rows == [f \in Files |-> IF f \in S THEN gone(f) ELSE file[f]]
<1>1. \A f \in Files : file[f] \in FileRow /\ deletedFiles[f] \in Queued
  BY DEF TypeOK
<1>2. \A f \in Files : file[f].removed \in BOOLEAN
  BY <1>1 DEF FileRow
<1>3. \A f \in Files : (file[f].removed \/ b) \in BOOLEAN
  BY <1>2
<1>4. \A f \in Files : /\ gone(f).status = "DELETED" /\ gone(f).content = file[f].content
                       /\ gone(f) \in FileRow
  BY <1>1, <1>3 DEF FileRow, RowStatus, FileStatus
<1>5. \/ file' = rows /\ deletedFiles' = FileDeletedTrigger(rows)
      \/ UNCHANGED <<file, deletedFiles>>
  BY DEF SetDeleted, Save
<1> HIDE DEF gone
<1>6. rows \in [Files -> FileRow]
  BY <1>1, <1>4
<1>7. \A f \in Files : Entry(f) \in Queued
  BY <1>1 DEF Entry, FileRow, Queued
<1>8. FileDeletedTrigger(rows) \in [Files -> Queued]
  BY <1>1, <1>7 DEF FileDeletedTrigger
<1>9. \A f \in Files :
        FileDeletedTrigger(rows)[f] =
            IF /\ f \in S /\ file[f].status # "DELETED"
               /\ file[f].content # Empty /\ deletedFiles[f].state = "none"
            THEN Entry(f) ELSE deletedFiles[f]
  BY <1>4 DEF FileDeletedTrigger
<1>10. CASE file' = rows /\ deletedFiles' = FileDeletedTrigger(rows)
  <2> HIDE DEF rows
  <2>1. \A f \in Files : f \in S => file'[f].status = "DELETED" /\ file'[f].content = file[f].content
    BY <1>4, <1>10 DEF rows
  <2>2. \A f \in Files : f \notin S => file'[f] = file[f] /\ deletedFiles'[f] = deletedFiles[f]
    BY <1>9, <1>10 DEF rows
  <2> QED
    BY <1>6, <1>8, <1>9, <1>10, <2>1, <2>2 DEF Deletes
<1>11. CASE UNCHANGED <<file, deletedFiles>>
  BY <1>11 DEF Deletes, TypeOK
<1> QED
  BY <1>5, <1>10, <1>11

\* Handlers and jobs that are one statement.
LEMMA OneUpdateKinds ==
    ASSUME TypeOK, OneUpdate
    PROVE  \/ Deletes \/ Trashes
           \/ \E S \in SUBSET Files : destroyDeletedFilesByUuids(S) \/ cleanupDeletedFilesTable(S)
<1>1. CASE \E S \in SUBSET Files : moveFilesToTrash(S)
  <2>1. PICK S \in SUBSET Files : moveFilesToTrash(S)
    BY <1>1
  <2> DEFINE trashed(f) == [file[f] EXCEPT !.status = "TRASHED"]
             rows == [f \in Files |->
                        IF f \in S /\ file[f].status = "EXISTS"
                        THEN trashed(f) ELSE file[f]]
  <2>2. \A f \in Files : trashed(f).status = "TRASHED" /\ trashed(f) \in FileRow
    BY DEF TypeOK, FileRow, RowStatus, FileStatus
  <2>3. \/ file' = rows /\ deletedFiles' = FileDeletedTrigger(rows)
        \/ UNCHANGED <<file, deletedFiles>>
    BY <2>1 DEF moveFilesToTrash, Save
  <2> HIDE DEF trashed
  <2>4. \A f \in Files : rows[f].status = "DELETED" => file[f].status = "DELETED"
    BY <2>2
  <2>5. rows \in [Files -> FileRow]
    BY <2>2 DEF TypeOK
  <2>6. \A f \in Files : rows[f] = file[f] \/ (file[f].status = "EXISTS" /\ rows[f] = trashed(f))
    OBVIOUS
  <2> HIDE DEF rows
  <2>7. deletedFiles' = deletedFiles
    BY <2>3, <2>4, TriggerSilent
  <2> QED
    BY <2>1, <2>3, <2>5, <2>6, <2>7 DEF Trashes, moveFilesToTrash, Atomic, TypeOK, trashed
<1>2. ASSUME NEW S \in SUBSET Files,
             \/ deleteItems(S) \/ deleteUserTrashedFilesBatch(S)
             \/ deleteExpiredTrashFilesByTier(S)
      PROVE  Deletes
  <2>1. \A f \in S : HasRow(f)
    BY <1>2 DEF deleteItems, deleteUserTrashedFilesBatch, deleteExpiredTrashFilesByTier,
                HasRow, FileStatus
  <2> QED
    BY <1>2, <2>1, SetDeletedDeletes
    DEF deleteItems, deleteUserTrashedFilesBatch, deleteExpiredTrashFilesByTier, Atomic
<1>3. ASSUME NEW d \in Folders, markFilesInFolderAsRemoved(d) PROVE Deletes
  <2> DEFINE S == {f \in Files : file[f].status \in {"EXISTS", "TRASHED"} /\ file[f].folder = d}
  <2>1. S \in SUBSET Files /\ \A f \in S : HasRow(f)
    BY DEF HasRow, FileStatus
  <2>2. SetDeleted(S, TRUE)
    BY <1>3 DEF markFilesInFolderAsRemoved
  <2> HIDE DEF S
  <2> QED
    BY <1>3, <2>1, <2>2, SetDeletedDeletes DEF markFilesInFolderAsRemoved, Atomic
<1> QED
  BY <1>1, <1>2, <1>3 DEF OneUpdate

Finishes(w) == Inserts(w) \/ Renames(w) \/ Moves(w) \/ Replaces(w) \/ CallsNetwork(w)

\* A step is a check, a write or a call of a request, a deletion, a trashing, a
\* clean-up, or something of the surroundings.
LEMMA StepKinds ==
    ASSUME TypeOK, [Next]_vars
    PROVE  \/ UNCHANGED vars
           \/ /\ UNCHANGED alone
              /\ \/ \E w \in Write : Begun(w)
                 \/ \E w \in inflight : Finishes(w)
                 \/ Deletes
                 \/ Trashes
                 \/ \E S \in SUBSET Files :
                       destroyDeletedFilesByUuids(S) \/ cleanupDeletedFilesTable(S)
                 \/ Surroundings
<1>1. ASSUME FinishWrite PROVE (\E w \in inflight : Finishes(w)) \/ Deletes
  <2>1. PICK w \in inflight :
            \/ createFileInsert(w) \/ updateFileMetaDataWrite(w) \/ moveFileWrite(w)
            \/ replaceFileWrite(w) \/ replaceKeepingVersionWrite(w)
            \/ restoreFileVersionWrite(w) \/ deleteOldContent(w)
            \/ deleteFilePermanentlyWrite(w) \/ deleteFromNetworkReturns(w)
    BY <1>1 DEF FinishWrite
  <2>2. CASE deleteFilePermanentlyWrite(w)
    <3> DEFINE S == {w.file} \cap {f \in Files : HasRow(f)}
    <3>1. S \in SUBSET Files /\ \A f \in S : HasRow(f)
      OBVIOUS
    <3>2. SetDeleted(S, TRUE)
      BY <2>2 DEF deleteFilePermanentlyWrite
    <3> HIDE DEF S
    <3> QED
      BY <2>2, <3>1, <3>2, SetDeletedDeletes DEF deleteFilePermanentlyWrite
  <2> QED
    BY <2>1, <2>2, FinishKinds DEF Finishes, Replaces, CallsNetwork
<1> QED
  BY <1>1, CheckBegins, OneUpdateKinds DEF Next

(* The types.                                                              *)

\* A request that gives a file another content.
LEMMA ReplaceFacts ==
    ASSUME TypeOK, NEW w \in inflight, Replaces(w)
    PROVE  /\ w.op \in {"replaceFile", "replaceKeepingVersion", "restoreFileVersion"}
           /\ file' = IF HasRow(w.file) THEN [file EXCEPT ![w.file] = ReplacedRow(w)] ELSE file
           /\ WroteLate(w)
           /\ UNCHANGED <<folder, deletedFiles, net>>
           /\ \/ Done(w)
              \/ /\ w.op = "replaceFile" /\ w.old # Empty
                 /\ \E v \in Write :
                       /\ inflight' = (inflight \ {w}) \cup {v}
                       /\ v.op = "deleteOldContent" /\ v.nr = w.nr
                       /\ v.file = w.file /\ v.content = w.old
           /\ w.op = "replaceFile" => UNCHANGED versions
           /\ w.op = "replaceKeepingVersion"
                 => versions' = IF HasRow(w.file)
                                THEN [versions EXCEPT ![w.file] = @ \cup ({w.old} \ {Empty})]
                                ELSE versions
           /\ w.op = "restoreFileVersion"
                 => versions' = [versions EXCEPT ![w.file] = @ \ {w.content}]
<1>1. w \in Write
  BY DEF TypeOK
<1>2. /\ w.file \in Files /\ file \in [Files -> FileRow] /\ file[w.file] \in FileRow
  BY <1>1, RowTypes DEF TypeOK
<1>3. [file EXCEPT ![w.file].content = w.content] = [file EXCEPT ![w.file] = ReplacedRow(w)]
  BY <1>2 DEF ReplacedRow, FileRow
<1>4. CASE replaceFileWrite(w)
  <2> DEFINE v == [w EXCEPT !.op = "deleteOldContent", !.content = w.old]
  <2>1. /\ v \in Write /\ v.op = "deleteOldContent" /\ v.nr = w.nr
        /\ v.file = w.file /\ v.content = w.old
    BY <1>1 DEF Write, Ops
  <2>2. inflight' = (inflight \ {w}) \cup (IF w.old = Empty THEN {} ELSE {v})
    BY <1>4 DEF replaceFileWrite, writeContent
  <2> HIDE DEF v
  <2>3. Done(w) \/ (w.old # Empty /\ inflight' = (inflight \ {w}) \cup {v})
    BY <2>2 DEF Done
  <2> QED
    BY <1>3, <1>4, <2>1, <2>3 DEF replaceFileWrite, writeContent
<1>5. CASE replaceKeepingVersionWrite(w)
  BY <1>3, <1>5 DEF replaceKeepingVersionWrite, writeContent, Done
<1>6. CASE restoreFileVersionWrite(w)
  BY <1>3, <1>6 DEF restoreFileVersionWrite, writeContent, Done
<1> QED
  BY <1>4, <1>5, <1>6 DEF Replaces

\* The history keeps its type.
LEMMA LateType ==
    ASSUME TypeOK, NEW w \in Write, WroteLate(w)
    PROVE  late' \subseteq Ops \X Files
BY DEF TypeOK, WroteLate, Write

\* Writing one row keeps the type of the table.
LEMMA RowWriteType ==
    ASSUME TypeOK, NEW w \in Write, NEW row \in FileRow, WritesRow(w, row)
    PROVE  file' \in [Files -> FileRow] /\ deletedFiles' = deletedFiles
BY DEF TypeOK, WritesRow, Write

\* The variables keep their types in every step.
LEMMA TypeStep ==
    ASSUME TypeOK, [Next]_vars
    PROVE  TypeOK'
<1>1. CASE UNCHANGED vars
  BY <1>1 DEF vars, TypeOK
<1>2. ASSUME UNCHANGED alone, NEW w \in Write, Begun(w) PROVE TypeOK'
  <2>1. net' \in [Contents -> {"none", "uploaded", "stored", "purged", "discarded"}]
    BY <1>2 DEF TypeOK, Begun, Passed, Given
  <2> QED
    BY <1>2, <2>1 DEF TypeOK, Begun
<1>3. ASSUME UNCHANGED alone, NEW w \in inflight, Finishes(w) PROVE TypeOK'
  <2>1. w \in Write
    BY DEF TypeOK
  <2>2. /\ InsertedRow(w) \in FileRow /\ RenamedRow(w) \in FileRow /\ MovedRow(w) \in FileRow
        /\ ReplacedRow(w) \in FileRow
    BY <2>1, RowTypes
  <2>3. CASE Inserts(w)
    <3>1. file' \in [Files -> FileRow] /\ deletedFiles' = deletedFiles
      BY <2>1, <2>2, <2>3, RowWriteType DEF Inserts
    <3> QED
      BY <1>3, <2>3, <3>1 DEF TypeOK, Inserts, Done
  <2>4. CASE Renames(w)
    <3>1. file' \in [Files -> FileRow] /\ deletedFiles' = deletedFiles
      BY <2>1, <2>2, <2>4, RowWriteType DEF Renames
    <3> QED
      BY <1>3, <2>4, <3>1 DEF TypeOK, Renames, Done
  <2>5. CASE Moves(w)
    <3>1. file' \in [Files -> FileRow] /\ deletedFiles' = deletedFiles
      BY <2>1, <2>2, <2>5, RowWriteType DEF Moves
    <3>2. late' \subseteq Ops \X Files
      BY <2>1, <2>5, LateType DEF Moves
    <3> QED
      BY <1>3, <2>5, <3>1, <3>2 DEF TypeOK, Moves, Done
  <2>6. CASE Replaces(w)
    <3>1. late' \subseteq Ops \X Files
      BY <2>1, <2>6, ReplaceFacts, LateType
    <3>2. file' \in [Files -> FileRow]
      BY <2>1, <2>2, <2>6, ReplaceFacts DEF TypeOK
    <3>3. inflight' \subseteq Write
      BY <2>6, ReplaceFacts DEF TypeOK, Done
    <3>4. w.old \in Contents \cup {Empty}
      BY <2>1 DEF Write
    <3>5. versions' \in [Files -> SUBSET Contents]
      BY <2>6, <3>4, ReplaceFacts DEF TypeOK
    <3> QED
      BY <1>3, <2>6, <3>1, <3>2, <3>3, <3>5, ReplaceFacts DEF TypeOK
  <2>7. CASE CallsNetwork(w)
    BY <1>3, <2>7 DEF CallsNetwork, deleteOldContent, deleteFromNetworkReturns, TypeOK, Done
  <2> QED
    BY <1>3, <2>3, <2>4, <2>5, <2>6, <2>7 DEF Finishes
<1>4. CASE UNCHANGED alone /\ Deletes
  BY <1>4 DEF Deletes, TypeOK, Done
<1>5. CASE UNCHANGED alone /\ Trashes
  BY <1>5 DEF Trashes, TypeOK
<1>6. ASSUME UNCHANGED alone, NEW S \in SUBSET Files, destroyDeletedFilesByUuids(S) PROVE TypeOK'
  <2> DEFINE gone(f) == [NullRow("GONE") EXCEPT !.content = file[f].content]
  <2>1. \A f \in Files : file[f].content \in Contents \cup {Empty}
    BY DEF TypeOK, FileRow
  <2>2. NullRow("GONE") \in FileRow
    BY NullRowType DEF RowStatus
  <2>3. \A f \in Files : gone(f) \in FileRow
    BY <2>1, <2>2 DEF FileRow
  <2>4. file' = [f \in Files |-> IF f \in S THEN gone(f) ELSE file[f]]
    BY <1>6 DEF destroyDeletedFilesByUuids
  <2> HIDE DEF gone
  <2>5. file' \in [Files -> FileRow]
    BY <2>3, <2>4 DEF TypeOK
  <2> QED
    BY <1>6, <2>5 DEF destroyDeletedFilesByUuids, Atomic, TypeOK
<1>7. ASSUME UNCHANGED alone, NEW S \in SUBSET Files, cleanupDeletedFilesTable(S) PROVE TypeOK'
  BY <1>7 DEF cleanupDeletedFilesTable, Atomic, TypeOK, Queued
<1>8. CASE UNCHANGED alone /\ Surroundings
  <2>1. ASSUME NEW f \in Files, purgeContent(f) PROVE TypeOK'
    BY <1>8, <2>1 DEF purgeContent, TypeOK, Queued
  <2>2. ASSUME NEW f \in Files, NEW c \in Contents, dropVersion(f, c) PROVE TypeOK'
    BY <1>8, <2>2 DEF dropVersion, TypeOK
  <2>3. ASSUME NEW c \in Contents, uploadContent(c) PROVE TypeOK'
    BY <1>8, <2>3 DEF uploadContent, TypeOK
  <2>4. ASSUME NEW d \in Folders, NEW s \in FolderStatus, changeFolderStatus(d, s) PROVE TypeOK'
    BY <1>8, <2>4 DEF changeFolderStatus, TypeOK
  <2> QED
    BY <1>8, <2>1, <2>2, <2>3, <2>4 DEF Surroundings
<1> QED
  BY <1>1, <1>2, <1>3, <1>4, <1>5, <1>6, <1>7, <1>8, StepKinds

\* The tables, the queue, the network and the requests keep their types.
THEOREM TypeCorrect == Spec => []TypeOK
<1>1. Init => TypeOK
  <2> SUFFICES ASSUME Init PROVE TypeOK
    OBVIOUS
  <2>1. NullRow("NONE") \in FileRow
    BY NullRowType DEF RowStatus
  <2>2. file \in [Files -> FileRow]
    BY <2>1 DEF Init
  <2> QED
    BY <2>2 DEF Init, TypeOK, FolderStatus, Queued
<1>2. TypeOK /\ [Next]_vars => TypeOK'
  BY TypeStep
<1> QED
  BY <1>1, <1>2, PTL DEF Spec

(* The content of what was deleted.                                        *)

\* A file is created by one request, and its row is not there before.
CreateInv ==
    \A w \in inflight :
        w.op = "createFile"
            => /\ file[w.file].status = "NONE"
               /\ \A v \in inflight : v.op = "createFile" /\ v.file = w.file => v = w

\* The queue has nothing of a file that is not deleted, and what a deleted file
\* names is queued or off the network; unless the row was written when deleted.
Tracked(f) ==
    /\ file[f].status \in Live \cup {"NONE"} => deletedFiles[f].state = "none"
    /\ file[f].status \in Removed /\ file[f].content # Empty
          => net[file[f].content] \in OffNetwork \/ deletedFiles[f] = Entry(f)

TrackedInv == \A f \in Files : Tracked(f) \/ WrittenLate(f)

\* Alone, one request is between check and write, and the row it moves or
\* replaces is as it was.
AloneInv ==
    /\ \A v, w \in inflight : v = w
    /\ \A w \in inflight :
          w.op \in {"moveFile", "replaceFile", "replaceKeepingVersion"}
              => file[w.file].status \in Live
    /\ late \subseteq {"restoreFileVersion"} \X Files

LeakInv == CreateInv /\ TrackedInv /\ (alone => AloneInv)

\* What is off the network stays off it.
LEMMA StaysOff ==
    ASSUME TypeOK, [Next]_vars, NEW c \in Contents, net[c] \in OffNetwork
    PROVE  net'[c] \in OffNetwork
<1>1. ASSUME NEW w \in Write, Begun(w) PROVE net'[c] \in OffNetwork
  BY <1>1 DEF Begun, Passed, Given, OffNetwork, TypeOK
<1>2. ASSUME NEW w \in inflight, Finishes(w) PROVE net'[c] \in OffNetwork
  <2>1. CASE Replaces(w)
    BY <2>1, ReplaceFacts
  <2> QED
    BY <1>2, <2>1 DEF Finishes, Inserts, Renames, Moves, CallsNetwork, deleteOldContent,
                      deleteFromNetworkReturns, OffNetwork, TypeOK
<1>3. CASE Surroundings
  BY <1>3 DEF Surroundings, purgeContent, dropVersion, uploadContent, changeFolderStatus,
              OffNetwork, TypeOK
<1> QED
  BY <1>1, <1>2, <1>3, StepKinds
  DEF vars, Deletes, Trashes, destroyDeletedFilesByUuids, cleanupDeletedFilesTable, Atomic

\* A row that a step leaves alone, and its entry with it, stays tracked.
LEMMA UntouchedTracked ==
    ASSUME TypeOK, [Next]_vars, NEW f \in Files, Tracked(f),
           file'[f] = file[f], deletedFiles'[f] = deletedFiles[f]
    PROVE  Tracked(f)'
<1>1. file[f].content \in Contents \cup {Empty}
  BY DEF TypeOK, FileRow
<1> QED
  BY <1>1, StaysOff DEF Tracked, Entry

\* A row that is there and stays out of DELETED keeps its entry.
LEMMA LiveTracked ==
    ASSUME NEW f \in Files, Tracked(f), file[f].status \in Live \cup {"NONE"},
           file'[f].status \in Live \cup {"NONE"}, deletedFiles'[f] = deletedFiles[f]
    PROVE  Tracked(f)'
BY DEF Tracked, Live, Removed

\* A request's write keeps the contents tracked, or is a write to a DELETED row.
LEMMA WriteTracks ==
    ASSUME TypeOK, CreateInv, [Next]_vars, NEW w \in inflight, NEW row \in FileRow,
           WritesRow(w, row), row.status \in {"EXISTS", file[w.file].status},
           \/ w.op = "createFile"
           \/ file' # file => HasRow(w.file),
           \/ w.op = "createFile"
           \/ row.content = file[w.file].content /\ row.status = file[w.file].status
           \/ WroteLate(w),
           NEW f \in Files, Tracked(f)
    PROVE  Tracked(f)' \/ WrittenLate(f)'
<1>1. w \in Write /\ w.file \in Files /\ w.op \in Ops
  BY DEF TypeOK, Write
<1>2. deletedFiles' = deletedFiles
  BY DEF WritesRow
<1>3. CASE file'[f] = file[f]
  BY <1>2, <1>3, UntouchedTracked
<1>4. CASE file'[f] # file[f]
  <2>1. f = w.file /\ file'[f] = row /\ file' # file
    BY <1>1, <1>4 DEF WritesRow, TypeOK
  <2>2. CASE file[f].status \in Live \cup {"NONE"}
    <3>1. file'[f].status \in Live \cup {"NONE"}
      BY <2>1, <2>2 DEF Live
    <3> QED
      BY <1>2, <2>2, <3>1, LiveTracked
  <2>3. CASE file[f].status \notin Live \cup {"NONE"}
    <3>1. file[f].status \in RowStatus
      BY DEF TypeOK, FileRow
    <3>2. w.op # "createFile"
      BY <2>1, <2>3 DEF CreateInv
    <3>3. file[f].status = "DELETED"
      BY <2>1, <2>3, <3>1, <3>2 DEF HasRow, FileStatus, Live, RowStatus
    <3>4. CASE WroteLate(w)
      BY <1>1, <2>1, <3>3, <3>4 DEF WroteLate, WrittenLate
    <3>5. CASE row.content = file[w.file].content /\ row.status = file[w.file].status
      <4>1. file[f].content \in Contents \cup {Empty}
        BY DEF TypeOK, FileRow
      <4> QED
        BY <1>2, <2>1, <3>5, <4>1, StaysOff DEF Tracked, Entry
    <3> QED
      BY <3>2, <3>4, <3>5
  <2> QED
    BY <2>2, <2>3
<1> QED
  BY <1>3, <1>4

\* Every step keeps a file's content tracked, or the step is a late write.
LEMMA TrackedStep ==
    ASSUME TypeOK, CreateInv, [Next]_vars, NEW f \in Files, Tracked(f)
    PROVE  Tracked(f)' \/ WrittenLate(f)'
<1>1. CASE UNCHANGED vars
  BY <1>1, UntouchedTracked DEF vars
<1>2. ASSUME NEW w \in Write, Begun(w) PROVE Tracked(f)'
  BY <1>2, UntouchedTracked DEF Begun
<1>3. ASSUME NEW w \in inflight, Finishes(w) PROVE Tracked(f)' \/ WrittenLate(f)'
  <2>1. w \in Write
    BY DEF TypeOK
  <2>2. /\ InsertedRow(w) \in FileRow /\ InsertedRow(w).status = "EXISTS"
        /\ RenamedRow(w) \in FileRow /\ RenamedRow(w).status = file[w.file].status
        /\ RenamedRow(w).content = file[w.file].content
        /\ MovedRow(w) \in FileRow /\ MovedRow(w).status = "EXISTS"
        /\ ReplacedRow(w) \in FileRow /\ ReplacedRow(w).status = file[w.file].status
    BY <2>1, RowTypes
  <2>3. CASE Inserts(w)
    BY <2>2, <2>3, WriteTracks DEF Inserts
  <2>4. CASE Renames(w)
    BY <2>2, <2>4, WriteTracks DEF Renames
  <2>5. CASE Moves(w)
    BY <2>2, <2>5, WriteTracks DEF Moves
  <2>6. CASE Replaces(w)
    <3>1. WritesRow(w, ReplacedRow(w)) /\ (file' # file => HasRow(w.file)) /\ WroteLate(w)
      BY <2>6, ReplaceFacts DEF WritesRow
    <3> QED
      BY <2>2, <3>1, WriteTracks
  <2>7. CASE CallsNetwork(w)
    BY <2>7, UntouchedTracked DEF CallsNetwork, deleteOldContent, deleteFromNetworkReturns
  <2> QED
    BY <1>3, <2>3, <2>4, <2>5, <2>6, <2>7 DEF Finishes
<1>4. CASE Deletes
  <2>1. CASE file'[f] = file[f] /\ deletedFiles'[f] = deletedFiles[f]
    BY <2>1, UntouchedTracked
  <2>2. CASE /\ HasRow(f) /\ file'[f].status = "DELETED"
             /\ file'[f].content = file[f].content
             /\ deletedFiles'[f] = IF /\ file[f].status # "DELETED"
                                      /\ file[f].content # Empty
                                      /\ deletedFiles[f].state = "none"
                                   THEN Entry(f) ELSE deletedFiles[f]
    <3>1. file[f].content \in Contents \cup {Empty}
      BY DEF TypeOK, FileRow
    <3>2. net' = net
      BY <1>4 DEF Deletes
    <3> QED
      BY <2>2, <3>1, <3>2 DEF Tracked, Entry, HasRow, FileStatus, Live, Removed
  <2> QED
    BY <1>4, <2>1, <2>2 DEF Deletes
<1>5. CASE Trashes
  <2>1. CASE file'[f] = file[f]
    BY <1>5, <2>1, UntouchedTracked DEF Trashes
  <2>2. CASE file[f].status = "EXISTS" /\ file'[f] = [file[f] EXCEPT !.status = "TRASHED"]
    <3>1. file'[f].status = "TRASHED"
      BY <2>2 DEF TypeOK, FileRow
    <3> QED
      BY <1>5, <2>2, <3>1, LiveTracked DEF Trashes, Live
  <2> QED
    BY <1>5, <2>1, <2>2 DEF Trashes
<1>6. ASSUME NEW S \in SUBSET Files, destroyDeletedFilesByUuids(S) PROVE Tracked(f)'
  <2>1. CASE f \notin S
    BY <1>6, <2>1, UntouchedTracked DEF destroyDeletedFilesByUuids
  <2>2. CASE f \in S
    <3> DEFINE gone == [NullRow("GONE") EXCEPT !.content = file[f].content]
    <3>1. file[f].status = "DELETED" /\ file'[f] = gone /\ UNCHANGED <<deletedFiles, net>>
      BY <1>6, <2>2 DEF destroyDeletedFilesByUuids, Atomic
    <3>2. NullRow("GONE") \in FileRow /\ NullRow("GONE").status = "GONE"
      BY NullRowType DEF RowStatus
    <3>3. gone.status = "GONE" /\ gone.content = file[f].content
      BY <3>2 DEF FileRow
    <3> HIDE DEF gone
    <3> QED
      BY <3>1, <3>3 DEF Tracked, Entry, Removed, Live
  <2> QED
    BY <2>1, <2>2
<1>7. ASSUME NEW S \in SUBSET Files, cleanupDeletedFilesTable(S) PROVE Tracked(f)'
  BY <1>7 DEF cleanupDeletedFilesTable, Atomic, Tracked, Entry
<1>8. CASE Surroundings
  <2>1. ASSUME NEW g \in Files, purgeContent(g) PROVE Tracked(f)'
    <3>1. CASE g # f
      BY <2>1, <3>1, UntouchedTracked DEF purgeContent, TypeOK
    <3>2. CASE g = f
      <4>1. deletedFiles[f].content \in Contents \cup {Empty}
        BY DEF TypeOK, Queued
      <4>2. file[f].content \in Contents \cup {Empty} /\ file' = file
        BY <2>1 DEF TypeOK, FileRow, purgeContent
      <4>3. deletedFiles[f].state = "pending"
        BY <2>1, <3>2 DEF purgeContent
      <4>4. CASE file[f].content # Empty /\ deletedFiles[f] = Entry(f)
        <5>1. deletedFiles[f].content = file[f].content
          BY <4>4 DEF Entry
        <5>2. net'[file[f].content] = "purged"
          BY <2>1, <3>2, <4>2, <4>4, <5>1 DEF purgeContent, TypeOK
        <5> QED
          BY <4>2, <4>3, <5>2 DEF Tracked, OffNetwork
      <4>5. CASE ~ (file[f].content # Empty /\ deletedFiles[f] = Entry(f))
        BY <4>2, <4>3, <4>5, StaysOff DEF Tracked
      <4> QED
        BY <4>4, <4>5
    <3> QED
      BY <3>1, <3>2
  <2> QED
    BY <1>8, <2>1, UntouchedTracked
    DEF Surroundings, dropVersion, uploadContent, changeFolderStatus
<1> QED
  BY <1>1, <1>2, <1>3, <1>4, <1>5, <1>6, <1>7, <1>8, StepKinds

\* A file that is not inserted yet stays so until its own request inserts it.
LEMMA StaysUninserted ==
    ASSUME TypeOK, [Next]_vars, NEW f \in Files, file[f].status = "NONE",
           ~ \E w \in inflight : w.file = f /\ Inserts(w)
    PROVE  file'[f].status = "NONE"
<1>1. ~ HasRow(f)
  BY DEF HasRow, FileStatus
<1>2. ASSUME NEW w \in inflight, Finishes(w) PROVE file'[f] = file[f]
  <2>1. w \in Write /\ w.file \in Files
    BY DEF TypeOK, Write
  <2>2. CASE w.file # f
    <3>1. CASE Replaces(w)
      BY <2>1, <2>2, <3>1, ReplaceFacts DEF TypeOK
    <3> QED
      BY <1>2, <2>1, <2>2, <3>1 DEF Finishes, Inserts, Renames, Moves, WritesRow, CallsNetwork,
                           deleteOldContent, deleteFromNetworkReturns, TypeOK
  <2>3. CASE w.file = f
    <3>1. CASE Replaces(w)
      BY <1>1, <2>3, <3>1, ReplaceFacts
    <3> QED
      BY <1>1, <1>2, <2>3, <3>1 DEF Finishes, Renames, Moves, CallsNetwork,
                           deleteOldContent, deleteFromNetworkReturns
  <2> QED
    BY <2>2, <2>3
<1>3. CASE Deletes
  BY <1>1, <1>3 DEF Deletes
<1>4. CASE Trashes
  BY <1>4 DEF Trashes
<1>5. ASSUME NEW S \in SUBSET Files, destroyDeletedFilesByUuids(S) PROVE file'[f] = file[f]
  BY <1>5 DEF destroyDeletedFilesByUuids
<1>6. CASE Surroundings
  BY <1>6 DEF Surroundings, purgeContent, dropVersion, uploadContent, changeFolderStatus
<1> QED
  BY <1>2, <1>3, <1>4, <1>5, <1>6, StepKinds DEF vars, Begun, cleanupDeletedFilesTable

\* What is in flight after a step was in flight, or has just passed its check,
\* or is the deletion of what a replacement left.
LEMMA InFlightStep ==
    ASSUME TypeOK, [Next]_vars
    PROVE  \A v \in inflight' :
              \/ v \in inflight
              \/ v \in Write /\ Begun(v)
              \/ /\ v.op = "deleteOldContent"
                 /\ \E w \in inflight :
                       /\ replaceFileWrite(w) /\ v.nr = w.nr /\ v.file = w.file /\ v.content = w.old
                       /\ w.old # Empty /\ inflight' = (inflight \ {w}) \cup {v}
<1>1. ASSUME NEW w \in inflight, Finishes(w)
      PROVE  \A v \in inflight' :
                \/ v \in inflight
                \/ /\ v.op = "deleteOldContent" /\ v.nr = w.nr /\ v.file = w.file
                   /\ v.content = w.old /\ w.old # Empty /\ replaceFileWrite(w)
                   /\ inflight' = (inflight \ {w}) \cup {v}
  <2>1. CASE Replaces(w)
    <3>1. w.op = "replaceFile" => replaceFileWrite(w)
      BY <2>1 DEF Replaces, replaceKeepingVersionWrite, restoreFileVersionWrite
    <3> QED
      BY <2>1, <3>1, ReplaceFacts DEF Done
  <2> QED
    BY <1>1, <2>1 DEF Finishes, Inserts, Renames, Moves, CallsNetwork,
                      deleteOldContent, deleteFromNetworkReturns, Done
<1>2. CASE Surroundings
  BY <1>2 DEF Surroundings, purgeContent, dropVersion, uploadContent, changeFolderStatus
<1> QED
  BY <1>1, <1>2, StepKinds
  DEF vars, Begun, Deletes, Trashes, Done, destroyDeletedFilesByUuids,
      cleanupDeletedFilesTable, Atomic

\* A file is created once.
LEMMA CreateStep == ASSUME TypeOK, CreateInv, [Next]_vars PROVE CreateInv'
<1> SUFFICES ASSUME NEW w \in inflight', w.op = "createFile"
             PROVE  /\ file'[w.file].status = "NONE"
                    /\ \A v \in inflight' : v.op = "createFile" /\ v.file = w.file => v = w
  BY DEF CreateInv
<1>1. CASE w \in inflight
  <2>1. w.file \in Files /\ file[w.file].status = "NONE"
    BY <1>1 DEF CreateInv, TypeOK, Write
  <2>2. ASSUME NEW u \in inflight, u.file = w.file, Inserts(u) PROVE FALSE
    <3>1. u = w
      BY <1>1, <2>2 DEF CreateInv, Inserts
    <3> QED
      BY <2>2, <3>1 DEF Inserts, Done
  <2>3. file'[w.file].status = "NONE"
    BY <2>1, <2>2, StaysUninserted
  <2>4. ASSUME NEW v \in inflight', v.op = "createFile", v.file = w.file PROVE v = w
    <3>1. v \in inflight \/ Begun(v)
      BY <2>4, InFlightStep
    <3>2. ~ Begun(v) \/ v = w
      BY <1>1, <2>4 DEF Begun, Passed
    <3> QED
      BY <1>1, <2>4, <3>1, <3>2 DEF CreateInv
  <2> QED
    BY <2>3, <2>4
<1>2. CASE w \notin inflight
  <2>1. Begun(w)
    BY <1>2, InFlightStep
  <2> QED
    BY <2>1 DEF Begun, Passed
<1> QED
  BY <1>1, <1>2

\* A request that runs alone finds the row it moves or replaces as it was.
LEMMA AloneStep ==
    ASSUME TypeOK, alone => AloneInv, [Next]_vars
    PROVE  (alone => AloneInv)'
<1>0. alone' = alone
  BY StepKinds DEF vars
<1> SUFFICES ASSUME alone PROVE AloneInv'
  BY <1>0
<1>1. CASE UNCHANGED vars
  BY <1>1 DEF vars, AloneInv
<1>2. ASSUME NEW w \in Write, Begun(w) PROVE AloneInv'
  <2>1. inflight' = {w} /\ UNCHANGED <<file, late>>
    BY <1>2 DEF Begun, Quiet
  <2>2. w.op \in {"moveFile", "replaceFile", "replaceKeepingVersion"} => file[w.file].status \in Live
    BY <1>2 DEF Begun, Passed, Live
  <2> QED
    BY <2>1, <2>2 DEF AloneInv
<1>3. ASSUME NEW w \in inflight, Finishes(w) PROVE AloneInv'
  <2>1. inflight = {w} /\ w \in Write /\ w.file \in Files
    BY DEF AloneInv, TypeOK, Write
  <2>2. \/ inflight' = {}
        \/ \E v : inflight' = {v} /\ v.op = "deleteOldContent"
    <3>1. CASE Replaces(w)
      <4>1. \/ Done(w)
            \/ \E v \in Write : inflight' = (inflight \ {w}) \cup {v} /\ v.op = "deleteOldContent"
        BY <3>1, ReplaceFacts
      <4> QED
        BY <2>1, <4>1 DEF Done
    <3> QED
      BY <1>3, <2>1, <3>1 DEF Finishes, Inserts, Renames, Moves, CallsNetwork,
                              deleteOldContent, deleteFromNetworkReturns, Done
  <2>3. late' \subseteq {"restoreFileVersion"} \X Files
    <3>1. late \subseteq {"restoreFileVersion"} \X Files
      BY DEF AloneInv
    <3>2. CASE Moves(w) \/ Replaces(w)
      <4>1. WroteLate(w)
        BY <3>2, ReplaceFacts DEF Moves
      <4>2. \/ w.op = "restoreFileVersion"
            \/ file[w.file].status \in Live
        BY <3>2, ReplaceFacts DEF Moves, AloneInv
      <4>3. "DELETED" \notin Live
        BY DEF Live
      <4> QED
        BY <2>1, <3>1, <4>1, <4>2, <4>3 DEF WroteLate
    <3> QED
      BY <1>3, <3>1, <3>2 DEF Finishes, Inserts, Renames, CallsNetwork,
                              deleteOldContent, deleteFromNetworkReturns
  <2> QED
    BY <2>2, <2>3 DEF AloneInv
<1>4. CASE Deletes
  <2>1. inflight' = {}
    BY <1>4 DEF Deletes, Quiet, Done, AloneInv
  <2> QED
    BY <1>4, <2>1 DEF Deletes, AloneInv
<1>5. CASE Trashes \/ Surroundings
           \/ \E S \in SUBSET Files : destroyDeletedFilesByUuids(S) \/ cleanupDeletedFilesTable(S)
  <2>1. inflight' = {} /\ late' = late
    BY <1>5 DEF Trashes, Quiet, Surroundings, purgeContent, dropVersion, uploadContent,
                changeFolderStatus, destroyDeletedFilesByUuids, cleanupDeletedFilesTable, Atomic
  <2> QED
    BY <2>1 DEF AloneInv
<1> QED
  BY <1>1, <1>2, <1>3, <1>4, <1>5, StepKinds

\* The invariant that keeps track of the contents.
LEMMA LeakInvariant == Spec => []LeakInv
<1>1. Init => LeakInv
  <2> SUFFICES ASSUME Init PROVE LeakInv
    OBVIOUS
  <2>1. NullRow("NONE").status = "NONE"
    BY NullRowType DEF RowStatus
  <2>2. \A f \in Files : file[f].status = "NONE" /\ deletedFiles[f].state = "none"
    BY <2>1 DEF Init
  <2>3. TrackedInv
    BY <2>2 DEF TrackedInv, Tracked, Removed
  <2> QED
    BY <2>3 DEF Init, LeakInv, CreateInv, AloneInv
<1>2. TypeOK /\ LeakInv /\ [Next]_vars => LeakInv'
  <2> SUFFICES ASSUME TypeOK, LeakInv, [Next]_vars PROVE LeakInv'
    OBVIOUS
  <2>1. CreateInv' /\ (alone => AloneInv)'
    BY CreateStep, AloneStep DEF LeakInv
  <2>2. late \subseteq late'
    <3>1. ASSUME NEW w \in inflight, Replaces(w) PROVE late \subseteq late'
      BY <3>1, ReplaceFacts DEF WroteLate
    <3> QED
      BY <3>1, StepKinds
      DEF vars, Begun, Finishes, Inserts, Renames, Moves, WroteLate, CallsNetwork,
          deleteOldContent, deleteFromNetworkReturns, Deletes, Trashes, Surroundings,
          destroyDeletedFilesByUuids, cleanupDeletedFilesTable, Atomic, purgeContent,
          dropVersion, uploadContent, changeFolderStatus
  <2>3. \A f \in Files : WrittenLate(f) => WrittenLate(f)'
    BY <2>2 DEF WrittenLate
  <2>4. TrackedInv'
    BY <2>3, TrackedStep DEF LeakInv, TrackedInv
  <2> QED
    BY <2>1, <2>4 DEF LeakInv
<1> QED
  BY <1>1, <1>2, TypeCorrect, PTL DEF Spec

\* In every schedule of any number of requests a deleted file's content is queued
\* or off the network, unless the row was written after its deletion; and of the
\* requests that run alone only the restoring of a version does that.
THEOREM NoLeak == Spec => []NoContentLeak
<1>1. LeakInv => NoContentLeak
  BY DEF LeakInv, TrackedInv, Tracked, AloneInv, NoContentLeak
<1> QED
  BY <1>1, LeakInvariant, PTL

(* The limit on empty files.                                               *)

\* The requests in flight have numbers of their own, none replaces the content
\* of a file that was never there, and a version has a content.
NumberedInv ==
    /\ \A w \in inflight : w.nr \in 1 .. MaxInFlight
    /\ \A v, w \in inflight : v.nr = w.nr => v = w
    /\ \A w \in inflight : w.op \in {"replaceFile", "replaceKeepingVersion"}
                            => file[w.file].status # "NONE"
    /\ \A w \in inflight : w.op = "restoreFileVersion" => w.content \in Contents

\* Shows up, or may do so without another look at the limit.
Comes(f) ==
    \/ file[f].status \in Live
    \/ \E w \in inflight : w.file = f /\ w.op \in {"createFile", "moveFile"}

\* Is empty, or may become so without another look at the limit.
Emptied(f) ==
    \/ HasRow(f) /\ file[f].content = Empty
    \/ \E w \in inflight :
          /\ w.file = f /\ w.content = Empty
          /\ w.op \in {"createFile", "replaceFile", "replaceKeepingVersion"}

Potential == {f \in Files : Comes(f) /\ Emptied(f)}

Bound == EmptyLimit + (IF alone THEN 1 ELSE MaxInFlight)

PotentialInv == NumberedInv /\ Cardinality(Potential) < Bound

\* No step takes a row back to what it was before it was inserted.
LEMMA StaysInserted ==
    ASSUME TypeOK, [Next]_vars, NEW f \in Files, file[f].status # "NONE"
    PROVE  file'[f].status # "NONE"
<1>1. ASSUME NEW w \in inflight, Finishes(w) PROVE file'[f].status # "NONE"
  <2>1. w \in Write
    BY DEF TypeOK
  <2>2. /\ w.file \in Files /\ file[w.file] \in FileRow /\ InsertedRow(w).status = "EXISTS"
        /\ RenamedRow(w).status = file[w.file].status /\ MovedRow(w).status = "EXISTS"
        /\ ReplacedRow(w).status = file[w.file].status
    BY <2>1, RowTypes
  <2>3. file \in [Files -> FileRow]
    BY DEF TypeOK
  <2>4. CASE Replaces(w)
    BY <2>2, <2>3, <2>4, ReplaceFacts
  <2> QED
    BY <1>1, <2>2, <2>3, <2>4 DEF Finishes, Inserts, Renames, Moves, WritesRow, CallsNetwork,
                           deleteOldContent, deleteFromNetworkReturns
<1>2. CASE Trashes
  <2>1. CASE file'[f] = file[f]
    BY <2>1
  <2>2. CASE file'[f] = [file[f] EXCEPT !.status = "TRASHED"]
    <3>1. file'[f].status = "TRASHED"
      BY <2>2 DEF TypeOK, FileRow
    <3> QED
      BY <3>1
  <2> QED
    BY <1>2, <2>1, <2>2 DEF Trashes
<1>3. ASSUME NEW S \in SUBSET Files, destroyDeletedFilesByUuids(S) PROVE file'[f].status # "NONE"
  <2> DEFINE gone == [NullRow("GONE") EXCEPT !.content = file[f].content]
  <2>1. NullRow("GONE") \in FileRow /\ NullRow("GONE").status = "GONE"
    BY NullRowType DEF RowStatus
  <2>2. gone.status = "GONE"
    BY <2>1 DEF FileRow
  <2>3. file'[f] = IF f \in S THEN gone ELSE file[f]
    BY <1>3 DEF destroyDeletedFilesByUuids
  <2> HIDE DEF gone
  <2> QED
    BY <2>2, <2>3
<1>4. CASE Surroundings
  BY <1>4 DEF Surroundings, purgeContent, dropVersion, uploadContent, changeFolderStatus
<1> QED
  BY <1>1, <1>2, <1>3, <1>4, StepKinds DEF vars, Begun, Deletes, cleanupDeletedFilesTable

\* Numbers stay unique.
LEMMA NumberedStep ==
    ASSUME TypeOK, CreateInv, NumberedInv, [Next]_vars
    PROVE  NumberedInv'
<1>1. ASSUME NEW v \in inflight', v \notin inflight
      PROVE  /\ v.nr \in 1 .. MaxInFlight
             /\ \A u \in inflight' : u.nr = v.nr => u = v
             /\ v.op \in {"replaceFile", "replaceKeepingVersion"} => file[v.file].status = "EXISTS"
             /\ v.op = "restoreFileVersion" => v.content \in Contents
  <2>1. CASE Begun(v) /\ v \in Write
    BY <2>1 DEF Begun, Passed, TypeOK, Write
  <2>2. CASE /\ v.op = "deleteOldContent"
             /\ \E w \in inflight : v.nr = w.nr /\ inflight' = (inflight \ {w}) \cup {v}
    BY <2>2 DEF NumberedInv
  <2> QED
    BY <1>1, <2>1, <2>2, InFlightStep
<1>2. ASSUME NEW v \in inflight' PROVE v.nr \in 1 .. MaxInFlight
  BY <1>1 DEF NumberedInv
<1>3. ASSUME NEW v \in inflight', NEW w \in inflight', v.nr = w.nr PROVE v = w
  BY <1>1, <1>3 DEF NumberedInv
<1>4. ASSUME NEW w \in inflight', w.op \in {"replaceFile", "replaceKeepingVersion"}
      PROVE  file'[w.file].status # "NONE"
  <2>1. w.file \in Files
    BY InFlightStep DEF TypeOK, Write
  <2>2. file[w.file].status # "NONE"
    BY <1>1, <1>4 DEF NumberedInv
  <2> QED
    BY <2>1, <2>2, StaysInserted
<1>5. ASSUME NEW w \in inflight', w.op = "restoreFileVersion" PROVE w.content \in Contents
  BY <1>1, <1>5 DEF NumberedInv
<1> QED
  BY <1>2, <1>3, <1>4, <1>5 DEF NumberedInv

\* As many files at most have a request in flight as there are numbers.
LEMMA FewInFlight ==
    ASSUME NEW I, \A w \in I : w.nr \in 1 .. MaxInFlight,
           \A v, w \in I : v.nr = w.nr => v = w
    PROVE  LET T == {w.file : w \in I}
           IN  /\ IsFiniteSet(T) /\ Cardinality(T) <= MaxInFlight
               /\ (\A v, w \in I : v = w) => Cardinality(T) <= 1
<1> DEFINE T == {w.file : w \in I}
           of(g) == CHOOSE w \in I : w.file = g
           inj == [g \in T |-> of(g).nr]
<1>1. \A g \in T : of(g) \in I /\ of(g).file = g
  OBVIOUS
<1> HIDE DEF of
<1>2. inj \in [T -> 1 .. MaxInFlight]
  BY <1>1
<1>3. \A g, h \in T : inj[g] = inj[h] => g = h
  BY <1>1
<1>4. inj \in Injection(T, 1 .. MaxInFlight)
  BY <1>2, <1>3 DEF Injection, IsInjective
<1>5. MaxInFlight \in Nat \ {0} /\ MaxInFlight \in Int /\ 1 \in Int
  BY FileConstants
<1>6. IsFiniteSet(1 .. MaxInFlight) /\ Cardinality(1 .. MaxInFlight) = MaxInFlight
  BY <1>5, FS_Interval
<1>7. ASSUME \A v, w \in I : v = w PROVE Cardinality(T) <= 1
  <2>1. CASE T = {}
    BY <2>1, FS_EmptySet
  <2>2. ASSUME NEW g \in T PROVE Cardinality(T) <= 1
    <3>1. T = {g}
      BY <1>1, <1>7, <2>2
    <3>2. Cardinality({g}) = 1
      BY FS_Singleton
    <3> QED
      BY <3>1, <3>2
  <2> QED
    BY <2>1, <2>2
<1> HIDE DEF inj, T
<1>8. IsFiniteSet(T) /\ Cardinality(T) <= MaxInFlight
  BY <1>4, <1>6, FS_Injection
<1> QED
  BY <1>7, <1>8 DEF T

\* When a request that may make a file empty passes its check, the files that
\* may become empty are those that count now and those of the requests in flight.
LEMMA CheckBounds ==
    ASSUME TypeOK, TypeOK', NumberedInv', (alone => AloneInv)', UNCHANGED file,
           checkEmptyFilesLimit
    PROVE  Cardinality(Potential') < Bound'
<1> DEFINE T == {w.file : w \in inflight'}
           K == IF alone' THEN 1 ELSE MaxInFlight
<1>1. IsFiniteSet(T) /\ Cardinality(T) <= K
  <2>1. alone' => \A v, w \in inflight' : v = w
    BY DEF AloneInv
  <2>2. /\ \A w \in inflight' : w.nr \in 1 .. MaxInFlight
        /\ \A v, w \in inflight' : v.nr = w.nr => v = w
    BY DEF NumberedInv
  <2>3. IsFiniteSet(T) /\ Cardinality(T) <= MaxInFlight
    BY <2>2, FewInFlight
  <2>4. (\A v, w \in inflight' : v = w) => Cardinality(T) <= 1
    BY <2>2, FewInFlight
  <2> QED
    BY <2>1, <2>3, <2>4
<1>2. IsFiniteSet(LiveEmptyFiles)
  BY FileConstants, FS_Subset DEF LiveEmptyFiles
<1>3. Potential' \subseteq LiveEmptyFiles \cup T
  BY DEF Potential, Comes, Emptied, LiveEmptyFiles
<1> HIDE DEF T
<1>4. IsFiniteSet(LiveEmptyFiles \cup T)
  BY <1>1, <1>2, FS_Union
<1>5. Cardinality(LiveEmptyFiles \cup T)
         = Cardinality(LiveEmptyFiles) + Cardinality(T) - Cardinality(LiveEmptyFiles \cap T)
  BY <1>1, <1>2, FS_Union
<1>6. IsFiniteSet(Potential') /\ Cardinality(Potential') <= Cardinality(LiveEmptyFiles \cup T)
  BY <1>3, <1>4, FS_Subset
<1>7. IsFiniteSet(LiveEmptyFiles \cap T)
  BY <1>2, FS_Subset
<1>8. /\ Cardinality(LiveEmptyFiles) \in Nat /\ Cardinality(T) \in Nat
      /\ Cardinality(LiveEmptyFiles \cap T) \in Nat /\ Cardinality(Potential') \in Nat
  BY <1>1, <1>2, <1>6, <1>7, FS_CardinalityType
<1>9. Cardinality(LiveEmptyFiles) < EmptyLimit
  BY DEF checkEmptyFilesLimit, getZeroSizeFilesCountByUser
<1>10. K \in Nat /\ EmptyLimit \in Nat
  BY FileConstants
<1> HIDE DEF K
<1>11. Cardinality(Potential') < EmptyLimit + K
  BY <1>1, <1>5, <1>6, <1>8, <1>9, <1>10
<1> QED
  BY <1>11 DEF K, Bound

\* Every other step leaves no more files that may become empty.
LEMMA NoMorePotential ==
    ASSUME TypeOK, CreateInv, NumberedInv, [Next]_vars,
           \A w \in Write : Begun(w) /\ w.content = Empty
               => w.op \notin {"createFile", "replaceFile", "replaceKeepingVersion"}
    PROVE  Potential' \subseteq Potential
<1>1. CASE UNCHANGED vars
  BY <1>1 DEF vars, Potential, Comes, Emptied, HasRow
<1>2. ASSUME NEW w \in Write, Begun(w) PROVE Potential' \subseteq Potential
  <2>1. file' = file /\ inflight' = inflight \cup {w}
    BY <1>2 DEF Begun
  <2>2. ASSUME NEW f \in Files, Emptied(f)' PROVE Emptied(f)
    BY <1>2, <2>1, <2>2 DEF Emptied, HasRow
  <2>3. ASSUME NEW f \in Files, Comes(f)', Emptied(f) PROVE Comes(f)
    <3>1. CASE f = w.file /\ w.op = "moveFile"
      BY <1>2, <3>1 DEF Begun, Passed, Comes
    <3>2. CASE f = w.file /\ w.op = "createFile"
      BY <1>2, <2>3, <3>2 DEF Begun, Passed, Emptied, HasRow, FileStatus, NumberedInv
    <3>3. CASE ~ (f = w.file /\ w.op \in {"moveFile", "createFile"})
      BY <2>1, <2>3, <3>3 DEF Comes
    <3> QED
      BY <3>1, <3>2, <3>3
  <2> QED
    BY <2>2, <2>3 DEF Potential
<1>3. ASSUME NEW w \in inflight, Finishes(w) PROVE Potential' \subseteq Potential
  <2>1. w \in Write
    BY DEF TypeOK
  <2>2. /\ w.file \in Files /\ file[w.file] \in FileRow
        /\ InsertedRow(w).status = "EXISTS" /\ InsertedRow(w).content = w.content
        /\ RenamedRow(w).status = file[w.file].status
        /\ RenamedRow(w).content = file[w.file].content
        /\ MovedRow(w).status = "EXISTS" /\ MovedRow(w).content = file[w.file].content
        /\ ReplacedRow(w).status = file[w.file].status /\ ReplacedRow(w).content = w.content
    BY <2>1, RowTypes
  <2>3. file \in [Files -> FileRow]
    BY DEF TypeOK
  <2>4. \A v \in inflight' : v \in inflight \/ v.op = "deleteOldContent"
    <3>1. CASE Replaces(w)
      BY <3>1, ReplaceFacts DEF Done
    <3> QED
      BY <1>3, <3>1 DEF Finishes, Inserts, Renames, Moves, CallsNetwork,
                           deleteOldContent, deleteFromNetworkReturns, Done
  <2>5. ASSUME file' = file PROVE Potential' \subseteq Potential
    BY <2>4, <2>5 DEF Potential, Comes, Emptied, HasRow
  <2>6. ASSUME NEW row, file' = [file EXCEPT ![w.file] = row],
               row.status \in Live => Comes(w.file),
               row.status \in FileStatus /\ row.content = Empty => Emptied(w.file)
        PROVE  Potential' \subseteq Potential
    <3>1. \A f \in Files : f # w.file => file'[f] = file[f]
      BY <2>3, <2>6
    <3>2. file'[w.file] = row
      BY <2>2, <2>3, <2>6
    <3>3. ASSUME NEW f \in Files, Comes(f)' PROVE Comes(f)
      BY <2>4, <2>6, <3>1, <3>2, <3>3 DEF Comes
    <3>4. ASSUME NEW f \in Files, Emptied(f)' PROVE Emptied(f)
      BY <2>4, <2>6, <3>1, <3>2, <3>4 DEF Emptied, HasRow
    <3> QED
      BY <3>3, <3>4 DEF Potential
  <2>7. CASE Inserts(w)
    <3>1. Comes(w.file)
      BY <2>7 DEF Inserts, Comes
    <3>2. w.content = Empty => Emptied(w.file)
      BY <2>7 DEF Inserts, Emptied
    <3> QED
      BY <2>2, <2>5, <2>6, <2>7, <3>1, <3>2 DEF Inserts, WritesRow
  <2>8. CASE Renames(w)
    BY <2>2, <2>5, <2>6, <2>8 DEF Renames, WritesRow, Comes, Emptied, HasRow
  <2>9. CASE Moves(w)
    <3>1. Comes(w.file)
      BY <2>9 DEF Moves, Comes
    <3> QED
      BY <2>2, <2>5, <2>6, <2>9, <3>1 DEF Moves, WritesRow, Emptied
  <2>10. CASE Replaces(w)
    <3>1. w.content = Empty => Emptied(w.file)
      <4>1. w.op = "restoreFileVersion" => w.content \in Contents
        BY DEF NumberedInv
      <4> QED
        BY <2>10, <4>1, ReplaceFacts, FileConstants DEF Emptied
    <3>2. ReplacedRow(w).status \in Live => Comes(w.file)
      BY <2>2 DEF Comes
    <3> QED
      BY <2>2, <2>5, <2>6, <2>10, <3>1, <3>2, ReplaceFacts
  <2>11. CASE CallsNetwork(w)
    BY <2>5, <2>11 DEF CallsNetwork, deleteOldContent, deleteFromNetworkReturns
  <2> QED
    BY <1>3, <2>7, <2>8, <2>9, <2>10, <2>11 DEF Finishes
<1>4. ASSUME inflight' \subseteq inflight,
             \A f \in Files :
                \/ file'[f] = file[f]
                \/ HasRow(f) /\ file'[f].status \notin Live /\ file'[f].content = file[f].content
                \/ file[f].status \in Live /\ file'[f].content = file[f].content
      PROVE  Potential' \subseteq Potential
  BY <1>4 DEF Potential, Comes, Emptied, HasRow, Live, FileStatus
<1>5. CASE Deletes
  BY <1>4, <1>5 DEF Deletes, Done, Live
<1>6. CASE Trashes
  <2>1. \A f \in Files : [file[f] EXCEPT !.status = "TRASHED"].content = file[f].content
    <3>1. \A f \in Files : file[f] \in FileRow
      BY DEF TypeOK
    <3> QED
      BY <3>1 DEF FileRow
  <2> QED
    BY <1>4, <1>6, <2>1 DEF Trashes, Live
<1>7. ASSUME NEW S \in SUBSET Files, destroyDeletedFilesByUuids(S)
      PROVE  Potential' \subseteq Potential
  <2> DEFINE gone(f) == [NullRow("GONE") EXCEPT !.content = file[f].content]
  <2>1. NullRow("GONE") \in FileRow /\ NullRow("GONE").status = "GONE"
    BY NullRowType DEF RowStatus
  <2>2. \A f : gone(f).status = "GONE" /\ gone(f).content = file[f].content
    BY <2>1 DEF FileRow
  <2>3. \A f \in Files : file'[f] = IF f \in S THEN gone(f) ELSE file[f]
    BY <1>7 DEF destroyDeletedFilesByUuids
  <2> HIDE DEF gone
  <2> QED
    BY <1>4, <1>7, <2>2, <2>3 DEF destroyDeletedFilesByUuids, Atomic, Live, HasRow, FileStatus
<1>8. ASSUME NEW S \in SUBSET Files, cleanupDeletedFilesTable(S)
      PROVE  Potential' \subseteq Potential
  BY <1>4, <1>8 DEF cleanupDeletedFilesTable, Atomic
<1>9. CASE Surroundings
  BY <1>4, <1>9 DEF Surroundings, purgeContent, dropVersion, uploadContent, changeFolderStatus
<1> QED
  BY <1>1, <1>2, <1>3, <1>5, <1>6, <1>7, <1>8, <1>9, StepKinds

\* Whatever races, the empty files that show up stay below the limit and what
\* the requests in flight may add.
THEOREM EmptyFilesAreBounded == Spec => []EmptyFilesBounded
<1>1. Init => PotentialInv
  <2> SUFFICES ASSUME Init PROVE PotentialInv
    OBVIOUS
  <2>1. NullRow("NONE").status = "NONE"
    BY NullRowType DEF RowStatus
  <2>2. Potential = {}
    BY <2>1 DEF Init, Potential, Comes, Live
  <2>3. Cardinality({}) = 0
    BY FS_EmptySet
  <2>4. 0 < Bound
    BY FileConstants DEF Bound
  <2> QED
    BY <2>2, <2>3, <2>4 DEF Init, PotentialInv, NumberedInv
<1>2. /\ TypeOK /\ TypeOK' /\ LeakInv /\ LeakInv' /\ PotentialInv /\ [Next]_vars
      => PotentialInv'
  <2> SUFFICES ASSUME TypeOK, TypeOK', LeakInv, LeakInv', PotentialInv, [Next]_vars
               PROVE  PotentialInv'
    OBVIOUS
  <2>1. NumberedInv'
    BY NumberedStep DEF PotentialInv, LeakInv
  <2>2. CASE \E w \in Write :
               /\ Begun(w) /\ w.content = Empty
               /\ w.op \in {"createFile", "replaceFile", "replaceKeepingVersion"}
    <3>1. checkEmptyFilesLimit /\ UNCHANGED file
      BY <2>2, FileConstants DEF Begun, Passed, Given
    <3> QED
      BY <2>1, <3>1, CheckBounds DEF PotentialInv, LeakInv
  <2>3. CASE ~ \E w \in Write :
               /\ Begun(w) /\ w.content = Empty
               /\ w.op \in {"createFile", "replaceFile", "replaceKeepingVersion"}
    <3>1. Potential' \subseteq Potential
      BY <2>3, NoMorePotential DEF PotentialInv, LeakInv
    <3>2. IsFiniteSet(Potential)
      BY FileConstants, FS_Subset DEF Potential
    <3>3. IsFiniteSet(Potential') /\ Cardinality(Potential') <= Cardinality(Potential)
      BY <3>1, <3>2, FS_Subset
    <3>4. Cardinality(Potential) \in Nat /\ Cardinality(Potential') \in Nat
      BY <3>2, <3>3, FS_CardinalityType
    <3>5. Bound' = Bound /\ Bound \in Nat
      <4>1. alone' = alone
        BY StepKinds DEF vars
      <4> QED
        BY <4>1, FileConstants DEF Bound
    <3>6. Cardinality(Potential) < Bound
      BY DEF PotentialInv
    <3> HIDE DEF Bound
    <3>7. Cardinality(Potential') < Bound'
      BY <3>3, <3>4, <3>5, <3>6
    <3> QED
      BY <2>1, <3>7 DEF PotentialInv
  <2> QED
    BY <2>2, <2>3
<1>3. PotentialInv => EmptyFilesBounded
  <2> SUFFICES ASSUME PotentialInv PROVE EmptyFilesBounded
    OBVIOUS
  <2>1. IsFiniteSet(Potential)
    BY FileConstants, FS_Subset DEF Potential
  <2>2. LiveEmptyFiles \subseteq Potential
    BY DEF LiveEmptyFiles, Potential, Comes, Emptied, HasRow, Live, FileStatus
  <2>3. IsFiniteSet(LiveEmptyFiles) /\ Cardinality(LiveEmptyFiles) <= Cardinality(Potential)
    BY <2>1, <2>2, FS_Subset
  <2>4. Cardinality(LiveEmptyFiles) \in Nat /\ Cardinality(Potential) \in Nat
    BY <2>1, <2>3, FS_CardinalityType
  <2>5. Bound \in Nat /\ Cardinality(Potential) < Bound
    BY FileConstants DEF Bound, PotentialInv
  <2> HIDE DEF Bound
  <2>6. Cardinality(LiveEmptyFiles) < Bound
    BY <2>3, <2>4, <2>5
  <2> QED
    BY <2>6 DEF EmptyFilesBounded, Bound
<1> QED
  BY <1>1, <1>2, <1>3, TypeCorrect, LeakInvariant, PTL DEF Spec

(* Requests that run alone.                                                *)

\* Deleted rows stay deleted in each step of requests that run alone.
LEMMA DeletedStep ==
    ASSUME TypeOK, LeakInv, alone, [Next]_vars, NEW f \in Files
    PROVE  StaysDeleted(f)
<1> SUFFICES ASSUME file[f].status \in Removed PROVE file'[f].status \in Removed
  BY DEF StaysDeleted
<1>1. ASSUME NEW w \in inflight, Finishes(w) PROVE file'[f].status \in Removed
  <2>1. w \in Write
    BY DEF TypeOK
  <2>2. /\ w.file \in Files /\ file \in [Files -> FileRow]
        /\ RenamedRow(w).status = file[w.file].status
        /\ ReplacedRow(w).status = file[w.file].status
    BY <2>1, RowTypes DEF TypeOK
  <2>3. Removed \cap Live = {} /\ "NONE" \notin Removed
    BY DEF Removed, Live
  <2>4. CASE Inserts(w)
    <3>1. w.file # f
      BY <2>3, <2>4 DEF Inserts, LeakInv, CreateInv
    <3> QED
      BY <2>2, <2>4, <3>1 DEF Inserts, WritesRow
  <2>5. CASE Moves(w)
    <3>1. w.file # f
      BY <2>3, <2>5 DEF Moves, LeakInv, AloneInv
    <3> QED
      BY <2>2, <2>5, <3>1 DEF Moves, WritesRow
  <2>6. CASE Replaces(w)
    BY <2>2, <2>6, ReplaceFacts
  <2> QED
    BY <1>1, <2>2, <2>4, <2>5, <2>6 DEF Finishes, Renames, WritesRow, CallsNetwork,
                           deleteOldContent, deleteFromNetworkReturns
<1>2. CASE Deletes
  BY <1>2 DEF Deletes, Removed
<1>3. CASE Trashes
  BY <1>3 DEF Trashes, Removed
<1>4. ASSUME NEW S \in SUBSET Files, destroyDeletedFilesByUuids(S)
      PROVE  file'[f].status \in Removed
  <2> DEFINE gone == [NullRow("GONE") EXCEPT !.content = file[f].content]
  <2>1. NullRow("GONE") \in FileRow /\ NullRow("GONE").status = "GONE"
    BY NullRowType DEF RowStatus
  <2>2. gone.status = "GONE"
    BY <2>1 DEF FileRow
  <2>3. file'[f] = IF f \in S THEN gone ELSE file[f]
    BY <1>4 DEF destroyDeletedFilesByUuids
  <2> HIDE DEF gone
  <2> QED
    BY <2>2, <2>3 DEF Removed
<1>5. CASE Surroundings
  BY <1>5 DEF Surroundings, purgeContent, dropVersion, uploadContent, changeFolderStatus
<1> QED
  BY <1>1, <1>2, <1>3, <1>4, <1>5, StepKinds DEF vars, Begun, cleanupDeletedFilesTable

\* No sequence of requests that run alone brings back what was deleted for good.
THEOREM SerialDeletedIsFinal == Spec => DeletedIsFinalAlone
<1>1. TypeOK /\ LeakInv /\ [Next]_vars => [alone => \A f \in Files : StaysDeleted(f)]_vars
  BY DeletedStep
<1> QED
  BY <1>1, TypeCorrect, LeakInvariant, PTL DEF Spec, DeletedIsFinalAlone

\* What a request in flight has looked up.
LookedUp(w) ==
    /\ w.op \in {"createFile", "updateFileMetaData", "moveFile"}
          => ~ findByPlainNameAndFolderId(w.name, w.type, w.folder)
    /\ w.op = "updateFileMetaData" => file[w.file].folder = w.folder

NamesInv == UniqueNamesAlone /\ (alone => \A w \in inflight : LookedUp(w))

\* A name that the lookup did not find can be given to one file.
LEMMA FreeName ==
    ASSUME UniqueNamesAlone, alone, NEW e \in Files, NEW n, NEW t, NEW d,
           ~ findByPlainNameAndFolderId(n, t, d),
           \A g \in Files : g # e => file'[g] = file[g],
           file'[e].name = n, file'[e].type = t, file'[e].folder = d
    PROVE  UniqueNamesAlone'
<1>1. \A g \in Files : file[g].status = "EXISTS" /\ file[g].name = n /\ file[g].folder = d
                         => ~ SameType(file[g].type, t) /\ ~ SameType(t, file[g].type)
  BY DEF findByPlainNameAndFolderId, SameType
<1> SUFFICES ASSUME NEW f \in Files, NEW g \in Files, f # g,
                    file'[f].status = "EXISTS", file'[g].status = "EXISTS",
                    file'[f].folder = file'[g].folder, file'[f].name = file'[g].name
             PROVE  ~ SameType(file'[f].type, file'[g].type)
  BY DEF UniqueNamesAlone, SameType
<1>2. CASE f = e
  BY <1>1, <1>2
<1>3. CASE g = e
  BY <1>1, <1>3
<1>4. CASE f # e /\ g # e
  BY <1>4 DEF UniqueNamesAlone
<1> QED
  BY <1>2, <1>3, <1>4

\* Rows that are what they were, or do not show up in a folder, have unique names.
LEMMA NamesKept ==
    ASSUME UniqueNamesAlone, alone' = alone,
           \A f \in Files : file'[f].status = "EXISTS"
               => /\ file[f].status = "EXISTS" /\ file'[f].name = file[f].name
                  /\ file'[f].type = file[f].type /\ file'[f].folder = file[f].folder
    PROVE  UniqueNamesAlone'
BY DEF UniqueNamesAlone, SameType

\* Names stay unique in each step of requests that run alone.
LEMMA NamesStep ==
    ASSUME TypeOK, LeakInv, NamesInv, alone, [Next]_vars
    PROVE  NamesInv'
<1>1. CASE UNCHANGED vars
  BY <1>1 DEF vars, NamesInv, UniqueNamesAlone, LookedUp, SameType, findByPlainNameAndFolderId
<1> USE DEF NamesInv
<1>2. ASSUME UNCHANGED alone, NEW w \in Write, Begun(w) PROVE NamesInv'
  <2>1. inflight' = {w} /\ UNCHANGED file
    BY <1>2 DEF Begun, Quiet
  <2>2. LookedUp(w)'
    BY <1>2, <2>1 DEF Begun, Passed, LookedUp, findByPlainNameAndFolderId, SameType
  <2>3. UniqueNamesAlone'
    BY <1>2, <2>1, NamesKept
  <2> QED
    BY <2>1, <2>2, <2>3
<1>3. ASSUME UNCHANGED alone, NEW w \in inflight, Finishes(w) PROVE NamesInv'
  <2>1. inflight = {w} /\ w \in Write /\ w.file \in Files /\ file \in [Files -> FileRow]
    BY DEF LeakInv, AloneInv, TypeOK, Write
  <2>2. file[w.file] \in FileRow
    BY <2>1
  <2>3. \A v \in inflight' : v.op = "deleteOldContent"
    <3>1. CASE Replaces(w)
      BY <2>1, <3>1, ReplaceFacts DEF Done
    <3> QED
      BY <1>3, <2>1, <3>1 DEF Finishes, Inserts, Renames, Moves, CallsNetwork,
                              deleteOldContent, deleteFromNetworkReturns, Done
  <2>4. \A v \in inflight' : LookedUp(v)'
    BY <2>3 DEF LookedUp
  <2>5. UniqueNamesAlone'
    <3>1. CASE Inserts(w)
      <4>1. file' = file \/ file' = [file EXCEPT ![w.file] = InsertedRow(w)]
        BY <3>1 DEF Inserts, WritesRow
      <4>2. ~ findByPlainNameAndFolderId(w.name, w.type, w.folder)
        BY <3>1 DEF Inserts, LookedUp
      <4> QED
        BY <1>3, <2>1, <4>1, <4>2, FreeName, NamesKept DEF InsertedRow
    <3>2. CASE Renames(w)
      <4>1. file' = file \/ file' = [file EXCEPT ![w.file] = RenamedRow(w)]
        BY <3>2 DEF Renames, WritesRow
      <4>2. ~ findByPlainNameAndFolderId(w.name, w.type, w.folder) /\ file[w.file].folder = w.folder
        BY <3>2 DEF Renames, LookedUp
      <4>3. /\ RenamedRow(w).name = w.name /\ RenamedRow(w).type = w.type
            /\ RenamedRow(w).folder = file[w.file].folder
        BY <2>2 DEF RenamedRow, FileRow
      <4> QED
        BY <1>3, <2>1, <4>1, <4>2, <4>3, FreeName, NamesKept
    <3>3. CASE Moves(w)
      <4>1. file' = file \/ file' = [file EXCEPT ![w.file] = MovedRow(w)]
        BY <3>3 DEF Moves, WritesRow
      <4>2. ~ findByPlainNameAndFolderId(w.name, w.type, w.folder)
        BY <3>3 DEF Moves, LookedUp
      <4>3. /\ MovedRow(w).name = w.name /\ MovedRow(w).type = w.type
            /\ MovedRow(w).folder = w.folder
        BY <2>2 DEF MovedRow, FileRow
      <4> QED
        BY <1>3, <2>1, <4>1, <4>2, <4>3, FreeName, NamesKept
    <3>4. CASE Replaces(w)
      <4>1. /\ ReplacedRow(w).name = file[w.file].name /\ ReplacedRow(w).type = file[w.file].type
            /\ ReplacedRow(w).folder = file[w.file].folder
            /\ ReplacedRow(w).status = file[w.file].status
        BY <2>2 DEF ReplacedRow, FileRow
      <4>2. file' = file \/ file' = [file EXCEPT ![w.file] = ReplacedRow(w)]
        BY <3>4, ReplaceFacts
      <4> QED
        BY <1>3, <2>1, <4>1, <4>2, NamesKept
    <3>5. CASE CallsNetwork(w)
      BY <1>3, <3>5, NamesKept DEF CallsNetwork, deleteOldContent, deleteFromNetworkReturns
    <3> QED
      BY <1>3, <3>1, <3>2, <3>3, <3>4, <3>5 DEF Finishes
  <2> QED
    BY <2>4, <2>5
<1>4. ASSUME UNCHANGED alone, inflight' = {},
             \A f \in Files : file'[f].status = "EXISTS" => file'[f] = file[f]
      PROVE  NamesInv'
  BY <1>4, NamesKept
<1>5. CASE UNCHANGED alone /\ Deletes
  <2>1. inflight' = {}
    BY <1>5 DEF Deletes, Quiet, Done, LeakInv, AloneInv
  <2> QED
    BY <1>4, <1>5, <2>1 DEF Deletes
<1>6. CASE UNCHANGED alone /\ Trashes
  <2>1. ASSUME NEW f \in Files, file'[f].status = "EXISTS" PROVE file'[f] = file[f]
    <3>1. CASE file'[f] = [file[f] EXCEPT !.status = "TRASHED"]
      <4>1. file'[f].status = "TRASHED"
        BY <3>1 DEF TypeOK, FileRow
      <4> QED
        BY <2>1, <4>1
    <3> QED
      BY <1>6, <3>1 DEF Trashes
  <2> QED
    BY <1>4, <1>6, <2>1 DEF Trashes, Quiet
<1>7. ASSUME UNCHANGED alone, NEW S \in SUBSET Files, destroyDeletedFilesByUuids(S) PROVE NamesInv'
  <2> DEFINE gone(f) == [NullRow("GONE") EXCEPT !.content = file[f].content]
  <2>1. NullRow("GONE") \in FileRow /\ NullRow("GONE").status = "GONE"
    BY NullRowType DEF RowStatus
  <2>2. \A f : gone(f).status = "GONE"
    BY <2>1 DEF FileRow
  <2>3. \A f \in Files : file'[f] = IF f \in S THEN gone(f) ELSE file[f]
    BY <1>7 DEF destroyDeletedFilesByUuids
  <2> HIDE DEF gone
  <2> QED
    BY <1>4, <1>7, <2>2, <2>3 DEF destroyDeletedFilesByUuids, Atomic, Quiet
<1>8. ASSUME UNCHANGED alone, NEW S \in SUBSET Files, cleanupDeletedFilesTable(S) PROVE NamesInv'
  BY <1>4, <1>8 DEF cleanupDeletedFilesTable, Atomic, Quiet
<1>9. CASE UNCHANGED alone /\ Surroundings
  BY <1>4, <1>9
  DEF Surroundings, purgeContent, dropVersion, uploadContent, changeFolderStatus, Quiet
<1> QED
  BY <1>1, <1>2, <1>3, <1>5, <1>6, <1>7, <1>8, <1>9, StepKinds

\* Requests that run alone never give two files of a folder the same name and
\* extension, null and '' being the same one.
THEOREM SerialNamesUnique == Spec => []UniqueNamesAlone
<1>1. Init => NamesInv
  <2> SUFFICES ASSUME Init PROVE NamesInv
    OBVIOUS
  <2>1. NullRow("NONE").status = "NONE"
    BY NullRowType DEF RowStatus
  <2> QED
    BY <2>1 DEF Init, NamesInv, UniqueNamesAlone
<1>2. TypeOK /\ LeakInv /\ NamesInv /\ [Next]_vars => NamesInv'
  <2> SUFFICES ASSUME TypeOK, LeakInv, NamesInv, [Next]_vars PROVE NamesInv'
    OBVIOUS
  <2>1. alone' = alone
    BY StepKinds DEF vars
  <2>2. CASE ~ alone
    BY <2>1, <2>2 DEF NamesInv, UniqueNamesAlone
  <2> QED
    BY <2>2, NamesStep
<1>3. NamesInv => UniqueNamesAlone
  BY DEF NamesInv
<1> QED
  BY <1>1, <1>2, <1>3, TypeCorrect, LeakInvariant, PTL DEF Spec

\* A file the user can see or restore has this content.
LiveWith(f, c) == file[f].status \in Live /\ file[f].content = c

Pending(c) == \E g \in Files : deletedFiles[g].state = "pending" /\ deletedFiles[g].content = c

Unused(c) == \A f \in Files : ~ LiveWith(f, c) /\ c \notin versions[f]

\* A content is of one file or of one version; who uses it finds it stored and
\* not queued; and nobody uses or queues what no request has named yet.
Fine(c) ==
    /\ \A f, g \in Files :
          /\ LiveWith(f, c) /\ LiveWith(g, c) => f = g
          /\ c \in versions[f] /\ c \in versions[g] => f = g
          /\ LiveWith(f, c) => c \notin versions[g]
    /\ ~ Unused(c) => net[c] \in Stored /\ ~ Pending(c)
    /\ Pending(c) => net[c] \notin {"none", "uploaded"}

\* What a request in flight is about to write or to delete.
WriteFine(w) ==
    /\ w.op \in {"createFile", "replaceFile", "replaceKeepingVersion"} /\ w.content # Empty
          => net[w.content] = "stored" /\ Unused(w.content) /\ ~ Pending(w.content)
    /\ w.op \in {"replaceFile", "replaceKeepingVersion"} => w.old = file[w.file].content
    /\ w.op = "restoreFileVersion" => w.content \in versions[w.file]
    /\ w.op = "deleteOldContent" => w.content \in Contents /\ Unused(w.content)

ContentsInv == alone => /\ \A c \in Contents : Fine(c)
                        /\ \A w \in inflight : WriteFine(w)

\* A step that uses and queues no more than before keeps a content fine.
LEMMA FewerUses ==
    ASSUME NEW c \in Contents, Fine(c), net'[c] = net[c],
           \A f \in Files : LiveWith(f, c)' => LiveWith(f, c),
           \A f \in Files : c \in versions'[f] => c \in versions[f],
           Pending(c)' => Pending(c)
    PROVE  Fine(c)'
BY DEF Fine, Unused

\* The contents stay fine in each step of requests that run alone.
LEMMA ContentsStep ==
    ASSUME TypeOK, LeakInv, ContentsInv, alone, [Next]_vars
    PROVE  ContentsInv'
<1>0. /\ \A c \in Contents : Fine(c)
      /\ \A w \in inflight : WriteFine(w)
  BY DEF ContentsInv
<1>1. CASE UNCHANGED vars
  BY <1>1 DEF vars, ContentsInv, Fine, WriteFine, LiveWith, Pending, Unused
<1>2. ASSUME NEW w \in Write, Begun(w) PROVE ContentsInv'
  <2>1. inflight' = {w} /\ UNCHANGED <<file, deletedFiles, versions>>
    BY <1>2 DEF Begun, Quiet
  <2>2. ASSUME NEW c \in Contents PROVE Fine(c)'
    <3>1. net'[c] = net[c] \/ (net[c] = "uploaded" /\ net'[c] = "stored")
      BY <1>2 DEF Begun, Passed, Given, TypeOK
    <3>2. /\ Pending(c)' <=> Pending(c)
          /\ \A f \in Files : LiveWith(f, c)' <=> LiveWith(f, c)
      BY <2>1 DEF Pending, LiveWith
    <3>3. CASE net'[c] = net[c]
      BY <1>0, <2>1, <3>2, <3>3, FewerUses
    <3>4. CASE net[c] = "uploaded" /\ net'[c] = "stored"
      <4>1. Unused(c) /\ ~ Pending(c)
        BY <1>0, <3>4 DEF Fine, Stored
      <4> QED
        BY <2>1, <3>2, <3>4, <4>1 DEF Fine, Unused
    <3> QED
      BY <3>1, <3>3, <3>4
  <2>3. WriteFine(w)'
    <3>1. CASE w.op \in {"createFile", "replaceFile", "replaceKeepingVersion"} /\ w.content # Empty
      <4>1. w.content \in Contents /\ net[w.content] = "uploaded" /\ net'[w.content] = "stored"
        BY <1>2, <3>1 DEF Begun, Passed, Given, TypeOK
      <4>2. Unused(w.content) /\ ~ Pending(w.content)
        BY <1>0, <4>1 DEF Fine, Stored
      <4>3. Unused(w.content)' /\ ~ Pending(w.content)'
        BY <2>1, <4>2 DEF Unused, LiveWith, Pending
      <4> QED
        BY <1>2, <2>1, <3>1, <4>1, <4>3 DEF WriteFine, Begun, Passed
    <3>2. CASE ~ (w.op \in {"createFile", "replaceFile", "replaceKeepingVersion"} /\ w.content # Empty)
      BY <1>2, <2>1, <3>2 DEF WriteFine, Begun, Passed
    <3> QED
      BY <3>1, <3>2
  <2> QED
    BY <2>1, <2>2, <2>3 DEF ContentsInv
<1>3. ASSUME NEW w \in inflight, Finishes(w) PROVE ContentsInv'
  <2>1. inflight = {w} /\ w \in Write /\ w.file \in Files /\ file \in [Files -> FileRow]
    BY DEF LeakInv, AloneInv, TypeOK, Write
  <2>2. /\ file[w.file] \in FileRow
        /\ InsertedRow(w).status = "EXISTS" /\ InsertedRow(w).content = w.content
        /\ RenamedRow(w).status = file[w.file].status
        /\ RenamedRow(w).content = file[w.file].content
        /\ MovedRow(w).status = "EXISTS" /\ MovedRow(w).content = file[w.file].content
        /\ ReplacedRow(w).status = file[w.file].status /\ ReplacedRow(w).content = w.content
        /\ w.old \in Contents \cup {Empty} /\ w.content \in Contents \cup {Empty}
    BY <2>1, RowTypes DEF Write
  <2>3. WriteFine(w)
    BY <1>0
  <2>4. versions \in [Files -> SUBSET Contents]
    BY DEF TypeOK
  <2>5. CASE Inserts(w)
    <3>1. ASSUME NEW c \in Contents PROVE Fine(c)'
      <4>1. \A f \in Files : LiveWith(f, c)' => LiveWith(f, c) \/ (f = w.file /\ c = w.content)
        BY <2>1, <2>2, <2>5 DEF Inserts, WritesRow, LiveWith
      <4>2. Pending(c)' <=> Pending(c)
        BY <2>5 DEF Inserts, WritesRow, Pending
      <4>3. CASE c # w.content
        BY <1>0, <2>5, <4>1, <4>2, <4>3, FewerUses DEF Inserts
      <4>4. CASE c = w.content
        <5>1. net[c] = "stored" /\ Unused(c) /\ ~ Pending(c)
          BY <2>3, <2>5, <4>4, FileConstants DEF Inserts, WriteFine
        <5> QED
          BY <2>5, <4>1, <4>2, <5>1 DEF Inserts, Fine, Unused, Stored
      <4> QED
        BY <4>3, <4>4
    <3> QED
      BY <2>1, <2>5, <3>1 DEF Inserts, Done, ContentsInv
  <2>6. CASE Renames(w) \/ Moves(w)
    <3>1. w.op = "moveFile" => file[w.file].status \in Live
      BY <2>1 DEF LeakInv, AloneInv
    <3>2. ASSUME NEW c \in Contents PROVE Fine(c)'
      <4>1. \A f \in Files : LiveWith(f, c)' => LiveWith(f, c)
        BY <2>1, <2>2, <2>6, <3>1 DEF Renames, Moves, WritesRow, LiveWith
      <4>2. Pending(c)' <=> Pending(c)
        BY <2>6 DEF Renames, Moves, WritesRow, Pending
      <4> QED
        BY <1>0, <2>6, <4>1, <4>2, FewerUses DEF Renames, Moves
    <3> QED
      BY <2>1, <2>6, <3>2 DEF Renames, Moves, Done, ContentsInv
  <2>7. CASE Replaces(w)
    <3>1. /\ file' = IF HasRow(w.file) THEN [file EXCEPT ![w.file] = ReplacedRow(w)] ELSE file
          /\ UNCHANGED <<deletedFiles, net>>
      BY <2>7, ReplaceFacts
    <3>2. \A c \in Contents, f \in Files :
             LiveWith(f, c)' => \/ f # w.file /\ LiveWith(f, c)
                                \/ f = w.file /\ HasRow(f) /\ c = w.content
                                \/ ~ HasRow(w.file) /\ LiveWith(f, c)
      <4> SUFFICES ASSUME NEW c \in Contents, NEW f \in Files, LiveWith(f, c)'
                   PROVE  \/ f # w.file /\ LiveWith(f, c)
                          \/ f = w.file /\ HasRow(f) /\ c = w.content
                          \/ ~ HasRow(w.file) /\ LiveWith(f, c)
        OBVIOUS
      <4>1. CASE ~ HasRow(w.file)
        BY <3>1, <4>1 DEF LiveWith
      <4>2. CASE HasRow(w.file) /\ f = w.file
        <5>1. file'[f] = ReplacedRow(w)
          BY <2>1, <3>1, <4>2
        <5> QED
          BY <2>2, <4>2, <5>1 DEF LiveWith
      <4>3. CASE HasRow(w.file) /\ f # w.file
        BY <2>1, <3>1, <4>3 DEF LiveWith
      <4> QED
        BY <4>1, <4>2, <4>3
    <3>3. \A c : Pending(c)' <=> Pending(c)
      BY <3>1 DEF Pending
    <3>4. CASE w.op = "restoreFileVersion"
      <4>1. versions' = [versions EXCEPT ![w.file] = @ \ {w.content}] /\ Done(w)
        BY <2>7, <3>4, ReplaceFacts
      <4>2. w.content \in versions[w.file] /\ w.content \in Contents
        BY <2>1, <2>3, <2>4, <3>4 DEF WriteFine
      <4>3. \A c \in Contents, f \in Files :
               c \in versions'[f] => c \in versions[f] /\ (f # w.file \/ c # w.content)
        BY <2>1, <2>4, <4>1
      <4>4. ASSUME NEW c \in Contents PROVE Fine(c)'
        <5>1. CASE c # w.content
          BY <1>0, <3>1, <3>2, <3>3, <4>3, <5>1, FewerUses
        <5>2. CASE c = w.content
          <6>1. /\ net[c] \in Stored /\ ~ Pending(c)
                /\ \A f \in Files : ~ LiveWith(f, c)
                /\ \A f \in Files : c \in versions[f] => f = w.file
            BY <1>0, <2>1, <4>2, <5>2 DEF Fine, Unused
          <6>2. \A f \in Files : LiveWith(f, c)' => f = w.file
            BY <3>2, <6>1
          <6>3. \A f \in Files : c \notin versions'[f]
            BY <4>3, <5>2, <6>1
          <6>4. Stored \cap {"none", "uploaded"} = {}
            BY DEF Stored
          <6> QED
            BY <3>1, <3>3, <6>1, <6>2, <6>3, <6>4 DEF Fine
        <5> QED
          BY <5>1, <5>2
      <4> QED
        BY <2>1, <4>1, <4>4 DEF Done, ContentsInv
    <3>5. CASE w.op \in {"replaceFile", "replaceKeepingVersion"}
      <4>1. file[w.file].status \in Live /\ HasRow(w.file) /\ w.old = file[w.file].content
        BY <2>1, <2>3, <3>5 DEF LeakInv, AloneInv, WriteFine, HasRow, Live, FileStatus
      <4>2. LiveWith(w.file, w.old)
        BY <4>1 DEF LiveWith
      <4>3. w.content # Empty
               => net[w.content] = "stored" /\ Unused(w.content) /\ ~ Pending(w.content)
        BY <2>3, <3>5 DEF WriteFine
      <4>4. w.old # w.content \/ w.content = Empty
        BY <2>1, <4>2, <4>3 DEF Unused
      <4>5. w.old \in Contents => /\ net[w.old] \in Stored /\ ~ Pending(w.old)
                                  /\ \A f \in Files : LiveWith(f, w.old) => f = w.file
                                  /\ \A f \in Files : w.old \notin versions[f]
        BY <1>0, <2>1, <4>2 DEF Fine, Unused
      <4>6. \A f \in Files : ~ LiveWith(f, w.old)' \/ w.old \notin Contents
        BY <3>2, <4>1, <4>4, <4>5, FileConstants
      <4>7. CASE w.op = "replaceFile"
        <5>1. versions' = versions
          BY <2>7, <4>7, ReplaceFacts
        <5>2. ASSUME NEW c \in Contents PROVE Fine(c)'
          <6>1. CASE c # w.content
            BY <1>0, <3>1, <3>2, <3>3, <5>1, <6>1, FewerUses
          <6>2. CASE c = w.content
            <7>1. net[c] = "stored" /\ Unused(c) /\ ~ Pending(c)
              BY <4>3, <6>2, FileConstants
            <7>2. \A f \in Files : LiveWith(f, c)' => f = w.file
              BY <3>2, <7>1 DEF Unused
            <7> QED
              BY <3>1, <3>3, <5>1, <7>1, <7>2 DEF Fine, Unused, Stored
          <6> QED
            BY <6>1, <6>2
        <5>3. \A v \in inflight' :
                 v.op = "deleteOldContent" /\ v.content = w.old /\ w.old # Empty
          BY <2>1, <2>7, ReplaceFacts DEF Done
        <5>4. w.old # Empty => w.old \in Contents /\ Unused(w.old)'
          BY <2>2, <4>5, <4>6, <5>1 DEF Unused
        <5>5. \A v \in inflight' : WriteFine(v)'
          BY <5>3, <5>4 DEF WriteFine
        <5> QED
          BY <5>2, <5>5 DEF ContentsInv
      <4>8. CASE w.op = "replaceKeepingVersion"
        <5>1. /\ versions' = [versions EXCEPT ![w.file] = @ \cup ({w.old} \ {Empty})]
              /\ Done(w)
          BY <2>7, <4>1, <4>8, ReplaceFacts
        <5>2. \A c \in Contents, f \in Files :
                 c \in versions'[f] => c \in versions[f] \/ (f = w.file /\ c = w.old)
          BY <2>1, <2>4, <5>1
        <5>3. ASSUME NEW c \in Contents PROVE Fine(c)'
          <6>1. CASE c # w.content /\ c # w.old
            BY <1>0, <3>1, <3>2, <3>3, <5>2, <6>1, FewerUses
          <6>2. CASE c = w.content
            <7>1. net[c] = "stored" /\ Unused(c) /\ ~ Pending(c)
              BY <4>3, <6>2, FileConstants
            <7>2. c # w.old
              BY <4>4, <6>2, FileConstants
            <7>3. \A f \in Files : (LiveWith(f, c)' => f = w.file) /\ c \notin versions'[f]
              BY <3>2, <5>2, <7>1, <7>2 DEF Unused
            <7> QED
              BY <3>1, <3>3, <7>1, <7>3 DEF Fine, Stored
          <6>3. CASE c = w.old
            <7>1. \A f \in Files : ~ LiveWith(f, c)' /\ (c \in versions'[f] => f = w.file)
              BY <4>5, <4>6, <5>2, <6>3
            <7>2. net[c] \in Stored /\ ~ Pending(c)
              BY <4>5, <6>3
            <7>3. Stored \cap {"none", "uploaded"} = {}
              BY DEF Stored
            <7> QED
              BY <3>1, <3>3, <7>1, <7>2, <7>3 DEF Fine
          <6> QED
            BY <6>1, <6>2, <6>3
        <5> QED
          BY <2>1, <5>1, <5>3 DEF Done, ContentsInv
      <4> QED
        BY <3>5, <4>7, <4>8
    <3> QED
      BY <2>7, <3>4, <3>5, ReplaceFacts
  <2>8. CASE CallsNetwork(w)
    <3>1. /\ inflight' = {} /\ UNCHANGED <<file, deletedFiles, versions>>
          /\ \/ net' = net
             \/ w.op = "deleteOldContent" /\ net' = [net EXCEPT ![w.content] = "purged"]
             \/ net' = [net EXCEPT ![w.content] = "discarded"]
      BY <2>1, <2>8 DEF CallsNetwork, deleteOldContent, deleteFromNetworkReturns, Done
    <3>2. ASSUME NEW c \in Contents PROVE Fine(c)'
      <4>1. /\ Pending(c)' <=> Pending(c)
            /\ \A f \in Files : LiveWith(f, c)' <=> LiveWith(f, c)
            /\ Unused(c)' <=> Unused(c)
        BY <3>1 DEF Pending, LiveWith, Unused
      <4>2. CASE net'[c] = net[c]
        BY <1>0, <3>1, <4>1, <4>2, FewerUses
      <4>3. CASE net'[c] = "discarded"
        BY <1>0, <3>1, <4>1, <4>3 DEF Fine, Stored
      <4>4. CASE c = w.content /\ w.op = "deleteOldContent" /\ net'[c] = "purged"
        BY <1>0, <2>3, <3>1, <4>1, <4>4 DEF Fine, WriteFine
      <4> QED
        BY <3>1, <4>2, <4>3, <4>4 DEF TypeOK
    <3> QED
      BY <3>1, <3>2 DEF ContentsInv
  <2> QED
    BY <1>3, <2>5, <2>6, <2>7, <2>8 DEF Finishes
<1>4. ASSUME inflight' = {}, UNCHANGED <<net, versions>>,
             \A c \in Contents : Pending(c)' => Pending(c),
             \A c \in Contents, f \in Files : LiveWith(f, c)' => LiveWith(f, c)
      PROVE  ContentsInv'
  BY <1>0, <1>4, FewerUses DEF ContentsInv
<1>5. CASE Deletes
  <2>1. inflight' = {} /\ UNCHANGED <<net, versions>>
    BY <1>5 DEF Deletes, Quiet, Done, LeakInv, AloneInv
  <2>2. \A f \in Files, c \in Contents : LiveWith(f, c)' => LiveWith(f, c)
    BY <1>5 DEF Deletes, LiveWith, Live
  <2>3. ASSUME NEW c \in Contents PROVE Fine(c)'
    <3>1. CASE Pending(c)' => Pending(c)
      BY <1>0, <2>1, <2>2, <3>1, FewerUses
    <3>2. CASE Pending(c)' /\ ~ Pending(c)
      <4>1. PICK f \in Files : deletedFiles'[f].state = "pending" /\ deletedFiles'[f].content = c
        BY <3>2 DEF Pending
      <4>2. deletedFiles'[f] # deletedFiles[f]
        BY <3>2, <4>1 DEF Pending
      <4>3. /\ HasRow(f) /\ file[f].status # "DELETED" /\ file'[f].status = "DELETED"
            /\ deletedFiles'[f] = Entry(f)
        BY <1>5, <4>2 DEF Deletes
      <4>4. LiveWith(f, c) /\ ~ LiveWith(f, c)'
        BY <4>1, <4>3 DEF LiveWith, Live, HasRow, FileStatus, Entry
      <4>5. net[c] \in Stored /\ \A g \in Files : ~ LiveWith(g, c)' /\ c \notin versions[g]
        BY <1>0, <2>2, <4>4 DEF Fine, Unused
      <4> QED
        BY <2>1, <4>5 DEF Fine, Unused, Stored
    <3> QED
      BY <3>1, <3>2
  <2> QED
    BY <2>1, <2>3 DEF ContentsInv
<1>6. CASE Trashes
  <2>1. ASSUME NEW f \in Files, NEW c \in Contents, LiveWith(f, c)' PROVE LiveWith(f, c)
    <3>1. CASE file[f].status = "EXISTS" /\ file'[f] = [file[f] EXCEPT !.status = "TRASHED"]
      <4>1. file'[f].content = file[f].content
        BY <3>1 DEF TypeOK, FileRow
      <4> QED
        BY <2>1, <3>1, <4>1 DEF LiveWith, Live
    <3> QED
      BY <1>6, <2>1, <3>1 DEF Trashes, LiveWith
  <2> QED
    BY <1>4, <1>6, <2>1 DEF Trashes, Quiet, Pending
<1>7. ASSUME NEW S \in SUBSET Files, destroyDeletedFilesByUuids(S) PROVE ContentsInv'
  <2> DEFINE gone(f) == [NullRow("GONE") EXCEPT !.content = file[f].content]
  <2>1. NullRow("GONE") \in FileRow /\ NullRow("GONE").status = "GONE"
    BY NullRowType DEF RowStatus
  <2>2. \A f : gone(f).status = "GONE"
    BY <2>1 DEF FileRow
  <2>3. \A f \in Files : file'[f] = IF f \in S THEN gone(f) ELSE file[f]
    BY <1>7 DEF destroyDeletedFilesByUuids
  <2> HIDE DEF gone
  <2>4. \A c \in Contents, f \in Files : LiveWith(f, c)' => LiveWith(f, c)
    BY <2>2, <2>3 DEF LiveWith, Live
  <2> QED
    BY <1>4, <1>7, <2>4 DEF destroyDeletedFilesByUuids, Atomic, Quiet, Pending
<1>8. ASSUME NEW S \in SUBSET Files, cleanupDeletedFilesTable(S) PROVE ContentsInv'
  BY <1>4, <1>8 DEF cleanupDeletedFilesTable, Atomic, Quiet, Pending, LiveWith
<1>9. CASE Surroundings
  <2>1. inflight' = {}
    BY <1>9 DEF Surroundings, purgeContent, dropVersion, uploadContent, changeFolderStatus, Quiet
  <2>2. ASSUME NEW g \in Files, purgeContent(g), NEW c \in Contents PROVE Fine(c)'
    <3> DEFINE d == deletedFiles[g].content
    <3>1. \A f \in Files : LiveWith(f, c)' <=> LiveWith(f, c)
      BY <2>2 DEF purgeContent, LiveWith
    <3>2. Pending(c)' => Pending(c)
      BY <2>2 DEF purgeContent, Pending, TypeOK, Queued
    <3>3. CASE c # d
      BY <1>0, <2>2, <3>1, <3>2, <3>3, FewerUses DEF purgeContent, TypeOK
    <3>4. CASE c = d
      <4>1. Pending(c) /\ net'[c] = "purged" /\ versions' = versions
        BY <2>2, <3>4 DEF purgeContent, Pending, TypeOK
      <4>2. Unused(c)
        BY <1>0, <4>1 DEF Fine
      <4> QED
        BY <3>1, <4>1, <4>2 DEF Fine, Unused
    <3> QED
      BY <3>3, <3>4
  <2>3. ASSUME NEW g \in Files, NEW d \in Contents, dropVersion(g, d), NEW c \in Contents
        PROVE  Fine(c)'
    <3>1. \A f \in Files : LiveWith(f, c)' <=> LiveWith(f, c)
      BY <2>3 DEF dropVersion, LiveWith
    <3>2. Pending(c)' <=> Pending(c)
      BY <2>3 DEF dropVersion, Pending
    <3>3. \A f \in Files : c \in versions'[f] => c \in versions[f] /\ (f # g \/ c # d)
      BY <2>3 DEF dropVersion, TypeOK
    <3>4. CASE c # d
      BY <1>0, <2>3, <3>1, <3>2, <3>3, <3>4, FewerUses DEF dropVersion, TypeOK
    <3>5. CASE c = d
      <4>1. c \in versions[g] /\ net'[c] = "purged"
        BY <2>3, <3>5 DEF dropVersion, TypeOK
      <4>2. \A f \in Files : ~ LiveWith(f, c) /\ (c \in versions[f] => f = g)
        BY <1>0, <4>1 DEF Fine
      <4> QED
        BY <3>1, <3>2, <3>3, <3>5, <4>1, <4>2 DEF Fine, Unused
    <3> QED
      BY <3>4, <3>5
  <2>4. ASSUME NEW d \in Contents, uploadContent(d), NEW c \in Contents PROVE Fine(c)'
    <3>1. /\ Pending(c)' <=> Pending(c)
          /\ \A f \in Files : LiveWith(f, c)' <=> LiveWith(f, c)
      BY <2>4 DEF uploadContent, Pending, LiveWith
    <3>2. CASE c # d
      BY <1>0, <2>4, <3>1, <3>2, FewerUses DEF uploadContent, TypeOK
    <3>3. CASE c = d
      <4>1. Unused(c) /\ ~ Pending(c)
        BY <1>0, <2>4, <3>3 DEF uploadContent, Fine, Stored
      <4> QED
        BY <2>4, <3>1, <4>1 DEF uploadContent, Fine, Unused
    <3> QED
      BY <3>2, <3>3
  <2>5. ASSUME NEW d \in Folders, NEW s \in FolderStatus, changeFolderStatus(d, s)
        PROVE  ContentsInv'
    BY <1>4, <2>1, <2>5 DEF changeFolderStatus, Pending, LiveWith
  <2> QED
    BY <1>9, <2>1, <2>2, <2>3, <2>4, <2>5 DEF Surroundings, ContentsInv
<1> QED
  BY <1>1, <1>2, <1>3, <1>5, <1>6, <1>7, <1>8, <1>9, StepKinds

\* No sequence of requests that run alone and of jobs purges or queues the
\* content of a file the user can see or restore.
THEOREM SerialLiveContentStored == Spec => []LiveContentStoredAlone
<1>1. Init => ContentsInv
  <2> SUFFICES ASSUME Init PROVE ContentsInv
    OBVIOUS
  <2>1. NullRow("NONE").status = "NONE"
    BY NullRowType DEF RowStatus
  <2>2. \A c : Unused(c) /\ ~ Pending(c)
    BY <2>1 DEF Init, Unused, LiveWith, Live, Pending
  <2> QED
    BY <2>2 DEF Init, ContentsInv, Fine, Unused
<1>2. TypeOK /\ LeakInv /\ ContentsInv /\ [Next]_vars => ContentsInv'
  <2> SUFFICES ASSUME TypeOK, LeakInv, ContentsInv, [Next]_vars PROVE ContentsInv'
    OBVIOUS
  <2>1. alone' = alone
    BY StepKinds DEF vars
  <2>2. CASE ~ alone
    BY <2>1, <2>2 DEF ContentsInv
  <2> QED
    BY <2>2, ContentsStep
<1>3. TypeOK /\ ContentsInv => LiveContentStoredAlone
  <2> SUFFICES ASSUME TypeOK, ContentsInv, alone, NEW f \in Files,
                      file[f].status \in Live, file[f].content # Empty
               PROVE  /\ net[file[f].content] \in Stored
                      /\ \A g \in Files : deletedFiles[g] # Entry(f)
    BY DEF LiveContentStoredAlone, LiveContentStored
  <2> DEFINE c == file[f].content
  <2>1. c \in Contents /\ LiveWith(f, c)
    BY DEF TypeOK, FileRow, LiveWith
  <2>2. net[c] \in Stored /\ ~ Pending(c)
    BY <2>1 DEF ContentsInv, Fine, Unused
  <2> QED
    BY <2>2 DEF Pending, Entry
<1> QED
  BY <1>1, <1>2, <1>3, TypeCorrect, LeakInvariant, PTL DEF Spec

=============================================================================
