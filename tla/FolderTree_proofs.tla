-------------------------- MODULE FolderTree_proofs --------------------------
(***************************************************************************)
(* Proofs about FolderTree, for any numbers of folders, names and          *)
(* requests: its types, and what a race can do to a name, to a removed     *)
(* folder and to a request that had found its name free.                   *)
(*                                                                         *)
(* Whatever goes wrong in a write is due to a row that has changed since   *)
(* its check: SeenInv says that of the rows that have not, every write in  *)
(* flight still knows what its check saw.  The index, checked whenever a   *)
(* row could show up, adds that no two visible rows collide already.       *)
(***************************************************************************)
EXTENDS FolderTree, TLAPS

----------------------------------------------------------------------------
(* What a step does.                                                       *)

\* An UPDATE of the rows of a set leaves the tree alone, sets flags and clears
\* none: a row that is both deleted and removed stays as it is.
LEMMA UpdatedRows ==
    ASSUME TypeOK, NEW S, NEW d \in BOOLEAN, NEW r \in BOOLEAN,
           UpdateAll(S, d, r)
    PROVE  /\ folder' \in [Folders -> Row] /\ inflight' = inflight
           /\ \A f \in Folders :
                /\ f \notin S \/ (folder[f].deleted /\ folder[f].removed)
                     => folder'[f] = folder[f]
                /\ folder'[f].known = folder[f].known
                /\ folder'[f].parent = folder[f].parent
                /\ folder'[f].name = folder[f].name
                /\ folder'[f].salt = folder[f].salt
                /\ folder[f].deleted \/ (d /\ f \in S) => folder'[f].deleted
                /\ folder[f].removed => folder'[f].removed
<1> DEFINE Upd(f) == [folder[f] EXCEPT !.deleted = folder[f].deleted \/ d,
                                       !.removed = folder[f].removed \/ r]
           New(f) == IF f \in S THEN Upd(f) ELSE folder[f]
<1>1. folder' = [f \in Folders |-> New(f)] /\ inflight' = inflight
  BY DEF UpdateAll
<1>2. ASSUME NEW f \in Folders
      PROVE  /\ New(f) \in Row
             /\ f \notin S \/ (folder[f].deleted /\ folder[f].removed)
                     => New(f) = folder[f]
             /\ New(f).known = folder[f].known
             /\ New(f).parent = folder[f].parent
             /\ New(f).name = folder[f].name
             /\ New(f).salt = folder[f].salt
             /\ folder[f].deleted \/ (d /\ f \in S) => New(f).deleted
             /\ folder[f].removed => New(f).removed
  <2>1. folder[f] \in Row
    BY DEF TypeOK
  <2>2. PICK e \in BOOLEAN, q \in BOOLEAN :
           /\ e = (folder[f].deleted \/ d) /\ q = (folder[f].removed \/ r)
    OBVIOUS
  <2>3. Upd(f) = [folder[f] EXCEPT !.deleted = e, !.removed = q]
    BY <2>2
  <2>4. Upd(f) \in Row
    BY <2>1, <2>3 DEF Row
  <2>5. /\ Upd(f).known = folder[f].known /\ Upd(f).parent = folder[f].parent
        /\ Upd(f).name = folder[f].name /\ Upd(f).salt = folder[f].salt
        /\ Upd(f).deleted = e /\ Upd(f).removed = q
    BY <2>1, <2>3 DEF Row
  <2>6. ASSUME folder[f].deleted, folder[f].removed PROVE Upd(f) = folder[f]
    <3>1. e = folder[f].deleted /\ q = folder[f].removed
      BY <2>1, <2>2, <2>6 DEF Row
    <3> QED BY <2>1, <2>3, <3>1 DEF Row
  <2> HIDE DEF Upd
  <2>7. CASE f \in S
    BY <2>2, <2>4, <2>5, <2>6, <2>7
  <2>8. CASE f \notin S
    BY <2>1, <2>8
  <2> QED BY <2>7, <2>8
<1> HIDE DEF New
<1> QED BY <1>1, <1>2

\* The four updates of a set are UpdateAll.
LEMMA UpdatesAll ==
    ASSUME OneUpdate
    PROVE  \E S \in SUBSET Known : \E d, r \in BOOLEAN : UpdateAll(S, d, r)
  BY DEF OneUpdate, moveFoldersToTrash, deleteByUser, deleteTrashedFoldersBatch,
         markChildFoldersAsRemoved, Deleted

\* What the check of a write has just seen.
Checking(v) ==
    /\ v \in Write
    /\ \A f \in DOMAIN v.names :
          IF v.op = "create" THEN f \notin Known
          ELSE /\ f \in Known \ Removed
               /\ v.op = "rename" => folder[f].parent = v.parent
    /\ v.op # "rename" =>
          /\ \A f, g \in DOMAIN v.names : f # g => v.names[f] # v.names[g]
          /\ \A g \in Folders, f \in DOMAIN v.names :
                Indexed(folder[g]) /\ folder[g].parent = v.parent => folder[g].name # v.names[f]

\* A check puts a well-formed write in flight and touches no row.
LEMMA CheckedWrite ==
    ASSUME NEW op \in Ops, NEW p \in Parents, NEW S \in SUBSET Folders,
           NEW names \in [S -> Names \cup {Blank}], Checked(op, p, names)
    PROVE  /\ folder' = folder
           /\ \E v \in Write : /\ inflight' = inflight \cup {v}
                               /\ v.op = op /\ v.parent = p /\ v.names = names
<1>1. PICK r \in Requests :
         inflight' = inflight \cup {[request |-> r, op |-> op, parent |-> p, names |-> names]}
  BY DEF Checked
<1> DEFINE v == [request |-> r, op |-> op, parent |-> p, names |-> names]
<1>2. names \in UNION {[T -> Names \cup {Blank}] : T \in SUBSET Folders}
  OBVIOUS
<1>3. v \in Write /\ v.op = op /\ v.parent = p /\ v.names = names
  BY <1>2 DEF Write
<1>4. inflight' = inflight \cup {v}
  BY <1>1
<1>5. folder' = folder
  BY DEF Checked
<1> HIDE DEF v
<1> QED BY <1>3, <1>4, <1>5

\* Every check puts a write in flight that knows what there is.
LEMMA CheckStep ==
    ASSUME TypeOK, Check
    PROVE  folder' = folder /\ \E v : inflight' = inflight \cup {v} /\ Checking(v)
<1> DEFINE Goal == folder' = folder /\ \E v : inflight' = inflight \cup {v} /\ Checking(v)
<1> USE FolderConstants
<1>1. ASSUME NEW p, NEW n, ~ NameInUse(p, n), NEW g \in Folders,
             Indexed(folder[g]), folder[g].parent = p
      PROVE  folder[g].name # n
  BY <1>1 DEF NameInUse, Indexed, Known, Deleted
<1>2. ASSUME NEW f \in Folders, NEW p \in Parents, NEW n \in Names, createFolder(f, p, n)
      PROVE  Goal
  <2>1. [g \in {f} |-> n] \in [{f} -> Names \cup {Blank}] /\ "create" \in Ops
    BY DEF Ops
  <2>2. PICK v \in Write : /\ folder' = folder /\ inflight' = inflight \cup {v}
                           /\ v.op = "create" /\ v.parent = p /\ v.names = [g \in {f} |-> n]
    BY <1>2, <2>1, CheckedWrite DEF createFolder
  <2>3. f \notin Known /\ ~ NameInUse(p, n)
    BY <1>2 DEF createFolder, Unused
  <2> QED BY <1>1, <2>2, <2>3 DEF Checking
<1>3. ASSUME NEW f \in Folders, NEW n \in Names, updateFolderMetaData(f, n) \/ renameFolder(f, n)
      PROVE  Goal
  <2>1. /\ [g \in {f} |-> n] \in [{f} -> Names \cup {Blank}] /\ "rename" \in Ops
        /\ folder[f].parent \in Parents /\ f \in Known \ Removed
    BY <1>3 DEF Ops, TypeOK, Row, updateFolderMetaData, renameFolder
  <2>2. PICK v \in Write : /\ folder' = folder /\ inflight' = inflight \cup {v}
                           /\ v.op = "rename" /\ v.parent = folder[f].parent
                           /\ v.names = [g \in {f} |-> n]
    BY <1>3, <2>1, CheckedWrite DEF updateFolderMetaData, renameFolder
  <2> QED BY <2>1, <2>2 DEF Checking
<1>4. ASSUME NEW f \in Folders, NEW p \in Parents, NEW n \in Names \cup {Keep}, moveFolder(f, p, n)
      PROVE  Goal
  <2> DEFINE name == IF n = Keep THEN decryptName(f) ELSE n
  <2>1. name \in Names \cup {Blank}
    BY DEF TypeOK, Row, decryptName
  <2>2. Checked("move", p, [g \in {f} |-> name]) /\ ~ NameInUse(p, name) /\ f \in Known \ Removed
    BY <1>4 DEF moveFolder
  <2> HIDE DEF name
  <2>3. [g \in {f} |-> name] \in [{f} -> Names \cup {Blank}] /\ "move" \in Ops
    BY <2>1 DEF Ops
  <2>4. PICK v \in Write : /\ folder' = folder /\ inflight' = inflight \cup {v}
                           /\ v.op = "move" /\ v.parent = p /\ v.names = [g \in {f} |-> name]
    BY <2>2, <2>3, CheckedWrite
  <2> QED BY <1>1, <2>2, <2>4 DEF Checking
<1>5. ASSUME NEW S \in SUBSET Folders, NEW names \in [S -> Names], NEW p \in Parents,
             createBulkFolders(names, p)
      PROVE  Goal
  <2>1. names \in [S -> Names \cup {Blank}] /\ "create" \in Ops
    BY DEF Ops
  <2>2. PICK v \in Write : /\ folder' = folder /\ inflight' = inflight \cup {v}
                           /\ v.op = "create" /\ v.parent = p /\ v.names = names
    BY <1>5, <2>1, CheckedWrite DEF createBulkFolders
  <2>3. /\ DOMAIN names \cap Known = {}
        /\ \A f, g \in DOMAIN names : f # g => names[f] # names[g]
        /\ \A f \in DOMAIN names : \A g \in Known :
              Indexed(folder[g]) /\ folder[g].parent = p => folder[g].name # names[f]
    BY <1>5 DEF createBulkFolders, Unused
  <2>4. \A g \in Folders : Indexed(folder[g]) => g \in Known
    BY DEF Indexed, Known
  <2> QED BY <2>2, <2>3, <2>4 DEF Checking
<1> HIDE DEF Goal
<1> QED BY <1>2, <1>3, <1>4, <1>5 DEF Check, Goal

\* The names of a write in flight.
LEMMA WriteType ==
    ASSUME TypeOK, NEW w \in inflight
    PROVE  /\ w.op \in Ops /\ w.parent \in Parents /\ w.request \in Requests
           /\ DOMAIN w.names \subseteq Folders
           /\ \A f \in DOMAIN w.names : w.names[f] \in Names \cup {Blank}
<1>1. w \in Write
  BY DEF TypeOK
<1>2. PICK S \in SUBSET Folders : w.names \in [S -> Names \cup {Blank}]
  BY <1>1 DEF Write
<1> QED BY <1>1, <1>2 DEF Write

\* What each of the writes saves: rows of the table, those of its folders under
\* the parent and with the names it has brought along.
LEMMA SavedRows ==
    ASSUME TypeOK, NEW w \in inflight
    PROVE  /\ Rows(w) \in [Folders -> Row]
           /\ \A f \in Folders \ DOMAIN w.names : Rows(w)[f] = folder[f]
           /\ \A f \in DOMAIN w.names :
                 /\ Rows(w)[f].name = w.names[f] /\ Rows(w)[f].salt = w.parent
                 /\ Rows(w)[f].parent = IF w.op = "rename" THEN folder[f].parent ELSE w.parent
<1>1. /\ w.op \in {"create", "rename", "move"} /\ w.parent \in Parents
      /\ DOMAIN w.names \subseteq Folders
      /\ \A g \in DOMAIN w.names : w.names[g] \in Names \cup {Blank}
  BY WriteType DEF Ops
<1>2. \A f \in Folders : folder[f] \in Row
  BY DEF TypeOK
<1>3. CASE w.op = "create"
  <2>1. Rows(w) = insertedRows(w)
    BY <1>3 DEF Rows
  <2>2. ASSUME NEW f \in DOMAIN w.names
        PROVE  /\ insertedRows(w)[f] \in Row /\ insertedRows(w)[f].name = w.names[f]
               /\ insertedRows(w)[f].salt = w.parent /\ insertedRows(w)[f].parent = w.parent
    BY <1>1 DEF insertedRows, Row
  <2>3. \A f \in Folders \ DOMAIN w.names : insertedRows(w)[f] = folder[f]
    BY DEF insertedRows
  <2>4. insertedRows(w) \in [Folders -> Row]
    BY <1>1, <1>2, <2>2, <2>3 DEF insertedRows
  <2> QED BY <1>3, <2>1, <2>2, <2>3, <2>4
<1>4. CASE w.op = "rename"
  <2>1. Rows(w) = renamedRows(w)
    BY <1>4 DEF Rows
  <2>2. ASSUME NEW f \in DOMAIN w.names
        PROVE  /\ renamedRows(w)[f] \in Row /\ renamedRows(w)[f].name = w.names[f]
               /\ renamedRows(w)[f].salt = w.parent
               /\ renamedRows(w)[f].parent = folder[f].parent
    <3>1. f \in Folders /\ folder[f] \in Row
      BY <1>1, <1>2
    <3>2. PICK row : row = [folder[f] EXCEPT !.name = w.names[f], !.salt = w.parent]
      OBVIOUS
    <3>3. row \in Row /\ row.name = w.names[f] /\ row.salt = w.parent /\ row.parent = folder[f].parent
      BY <1>1, <3>1, <3>2 DEF Row
    <3>4. renamedRows(w)[f] = row
      BY <3>1, <3>2 DEF renamedRows
    <3> QED BY <3>3, <3>4
  <2>3. \A f \in Folders \ DOMAIN w.names : renamedRows(w)[f] = folder[f]
    BY DEF renamedRows
  <2>4. renamedRows(w) \in [Folders -> Row]
    BY <1>1, <1>2, <2>2, <2>3 DEF renamedRows
  <2> QED BY <1>4, <2>1, <2>2, <2>3, <2>4
<1>5. CASE w.op = "move"
  <2>1. Rows(w) = movedRows(w)
    BY <1>5 DEF Rows
  <2>2. ASSUME NEW f \in DOMAIN w.names
        PROVE  /\ movedRows(w)[f] \in Row /\ movedRows(w)[f].name = w.names[f]
               /\ movedRows(w)[f].salt = w.parent /\ movedRows(w)[f].parent = w.parent
    <3>1. f \in Folders /\ folder[f] \in Row
      BY <1>1, <1>2
    <3>2. PICK row : row = [folder[f] EXCEPT !.parent = w.parent, !.salt = w.parent,
                                             !.name = w.names[f], !.deleted = FALSE]
      OBVIOUS
    <3>3. row \in Row /\ row.name = w.names[f] /\ row.salt = w.parent /\ row.parent = w.parent
      BY <1>1, <3>1, <3>2 DEF Row
    <3>4. movedRows(w)[f] = row
      BY <3>1, <3>2 DEF movedRows
    <3> QED BY <3>3, <3>4
  <2>3. \A f \in Folders \ DOMAIN w.names : movedRows(w)[f] = folder[f]
    BY DEF movedRows
  <2>4. movedRows(w) \in [Folders -> Row]
    BY <1>1, <1>2, <2>2, <2>3 DEF movedRows
  <2> QED BY <1>5, <2>1, <2>2, <2>3, <2>4
<1> QED BY <1>1, <1>3, <1>4, <1>5

\* Every write saves its rows, or leaves the table where the index rejects them.
LEMMA WriteStep ==
    ASSUME TypeOK, FinishWrite
    PROVE  \E w \in inflight : /\ inflight' = inflight \ {w}
                              /\ (folder' = folder \/ (folder' = Rows(w) /\ UniqueIndex(folder')))
  BY DEF FinishWrite, insertFolders, renameWrite, moveFolderWrite, Save, Done, Rows

----------------------------------------------------------------------------
(* Types.                                                                  *)

\* Whatever is done, rows stay rows.
LEMMA NextRows ==
    ASSUME TypeOK, Next
    PROVE  folder' \in [Folders -> Row] /\ inflight' \subseteq Write
<1>1. ASSUME Check PROVE folder' \in [Folders -> Row] /\ inflight' \subseteq Write
  BY <1>1, CheckStep DEF Checking, TypeOK
<1>2. ASSUME FinishWrite PROVE folder' \in [Folders -> Row] /\ inflight' \subseteq Write
  BY <1>2, WriteStep, SavedRows DEF TypeOK
<1>3. ASSUME OneUpdate PROVE folder' \in [Folders -> Row] /\ inflight' \subseteq Write
  BY <1>3, UpdatesAll, UpdatedRows DEF TypeOK
<1> QED BY <1>1, <1>2, <1>3 DEF Next

\* No request puts a folder under something that is not one.
THEOREM TypeCorrect == Spec => []TypeOK
<1>1. Init => TypeOK
  <2> SUFFICES ASSUME Init PROVE TypeOK
    OBVIOUS
  <2>1. [known |-> FALSE, parent |-> Root, name |-> Blank, salt |-> Root,
         deleted |-> FALSE, removed |-> FALSE] \in Row
    BY DEF Row, Parents
  <2> QED BY <2>1 DEF Init, TypeOK
<1>2. TypeOK /\ [Next]_vars => TypeOK'
  <2> SUFFICES ASSUME TypeOK, [Next]_vars PROVE TypeOK'
    OBVIOUS
  <2>1. ASSUME Remember PROVE changed' \in [Requests -> SUBSET Folders]
    BY <2>1 DEF TypeOK, Remember
  <2>2. CASE UNCHANGED vars
    BY <2>2 DEF TypeOK, vars
  <2> QED BY <2>1, <2>2, NextRows DEF Next, TypeOK
<1> QED BY <1>1, <1>2, PTL DEF Spec

----------------------------------------------------------------------------
(* What a write still knows.                                               *)

\* Of the rows that have not changed, what the check of the write saw holds.
Seen(w) ==
    /\ \A f \in DOMAIN w.names \ changed[w.request] :
          IF w.op = "create" THEN f \notin Known
          ELSE /\ f \in Known \ Removed
               /\ w.op = "rename" => folder[f].parent = w.parent
    /\ w.op # "rename" =>
          /\ \A f, g \in DOMAIN w.names : f # g => w.names[f] # w.names[g]
          /\ \A g \in Folders \ changed[w.request], f \in DOMAIN w.names :
                Indexed(folder[g]) /\ folder[g].parent = w.parent => folder[g].name # w.names[f]

SeenInv == UniqueIndex(folder) /\ \A w \in inflight : Seen(w)

\* What a write that stays in flight has not seen is remembered.
LEMMA SeenStays ==
    ASSUME TypeOK, Remember, NEW w \in inflight, w \in inflight', Seen(w) PROVE Seen(w)'
<1>1. w.request \in Requests /\ DOMAIN w.names \subseteq Folders
  BY WriteType
<1>2. changed'[w.request] = changed[w.request] \cup {f \in Folders : folder'[f] # folder[f]}
  BY <1>1 DEF Remember
<1>3. \A f \in Folders \ changed'[w.request] : f \notin changed[w.request] /\ folder'[f] = folder[f]
  BY <1>2
<1>4. \A f \in DOMAIN w.names \ changed'[w.request] :
        IF w.op = "create" THEN f \notin Known'
        ELSE /\ f \in Known' \ Removed'
             /\ w.op = "rename" => folder'[f].parent = w.parent
  BY <1>1, <1>3 DEF Seen, Known, Removed
<1>5. \A g \in Folders \ changed'[w.request], f \in DOMAIN w.names :
        w.op # "rename" /\ Indexed(folder'[g]) /\ folder'[g].parent = w.parent
        => folder'[g].name # w.names[f]
  BY <1>3 DEF Seen
<1> QED BY <1>4, <1>5 DEF Seen

LEMMA SeenStep == ASSUME TypeOK, SeenInv, [Next]_vars PROVE SeenInv'
<1>1. CASE UNCHANGED vars
  BY <1>1 DEF vars, SeenInv, Seen, Known, Removed, UniqueIndex
<1>2. CASE Next
  <2>1. CASE Check
    <3>1. PICK v : folder' = folder /\ inflight' = inflight \cup {v} /\ Checking(v)
      BY <2>1, CheckStep
    <3>2. Seen(v)'
      BY <3>1 DEF Checking, Seen, Known, Removed
    <3>3. \A w \in inflight : Seen(w)'
      BY <1>2, <3>1, SeenStays DEF Next, SeenInv
    <3>4. UniqueIndex(folder')
      BY <3>1 DEF SeenInv
    <3> QED BY <3>1, <3>2, <3>3, <3>4 DEF SeenInv
  <2>2. CASE FinishWrite
    <3>1. PICK w \in inflight : /\ inflight' = inflight \ {w}
                              /\ (folder' = folder \/ UniqueIndex(folder'))
      BY <2>2, WriteStep
    <3> QED BY <1>2, <3>1, SeenStays DEF Next, SeenInv
  <2>3. CASE OneUpdate
    <3>1. PICK S \in SUBSET Known, d \in BOOLEAN, r \in BOOLEAN : UpdateAll(S, d, r)
      BY <2>3, UpdatesAll
    <3>2. ASSUME NEW f \in Folders
          PROVE  /\ folder'[f].parent = folder[f].parent /\ folder'[f].name = folder[f].name
                 /\ Indexed(folder'[f]) => Indexed(folder[f])
      <4>1. /\ folder'[f].parent = folder[f].parent /\ folder'[f].name = folder[f].name
            /\ folder'[f].known = folder[f].known
            /\ folder[f].deleted => folder'[f].deleted
            /\ folder[f].removed => folder'[f].removed
        BY <3>1, UpdatedRows
      <4> QED BY <4>1 DEF Indexed
    <3>3. UniqueIndex(folder')
      BY <3>2 DEF SeenInv, UniqueIndex
    <3>4. inflight' = inflight
      BY <3>1 DEF UpdateAll
    <3> QED BY <1>2, <3>3, <3>4, SeenStays DEF Next, SeenInv
  <2> QED BY <1>2, <2>1, <2>2, <2>3 DEF Next
<1> QED BY <1>1, <1>2

\* Every write in flight knows, at any time, what it was checked for.
LEMMA SeenInvariant == Spec => [](TypeOK /\ SeenInv)
<1>1. Init => SeenInv
  BY DEF Init, SeenInv, UniqueIndex, Indexed
<1>2. TypeOK /\ SeenInv /\ [Next]_vars => SeenInv'
  BY SeenStep
<1> QED BY <1>1, <1>2, TypeCorrect, PTL DEF Spec

\* How a step comes to change a row.
LEMMA RowChange ==
    ASSUME TypeOK, Next, NEW f \in Folders, folder'[f] # folder[f]
    PROVE  \/ \E w \in inflight : /\ Ended(w) /\ f \in DOMAIN w.names /\ folder'[f] = Rows(w)[f]
           \/ /\ folder'[f].known = folder[f].known /\ folder'[f].parent = folder[f].parent
              /\ folder'[f].name = folder[f].name /\ folder'[f].salt = folder[f].salt
              /\ folder[f].removed => folder'[f].removed
<1>1. ~ Check
  BY CheckStep
<1>2. CASE FinishWrite
  <2>1. PICK w \in inflight : inflight' = inflight \ {w} /\ folder' = Rows(w)
    BY <1>2, WriteStep
  <2>2. f \in DOMAIN w.names
    BY <2>1, SavedRows
  <2> QED BY <2>1, <2>2 DEF Ended
<1>3. CASE OneUpdate
  BY <1>3, UpdatesAll, UpdatedRows
<1> QED BY <1>1, <1>2, <1>3 DEF Next

----------------------------------------------------------------------------
(* What races can do.                                                      *)

\* The encrypted name of every folder can be read back, unless a rename was
\* overtaken by another change to the folder.
THEOREM NamesCanBeRead == Spec => NamesReadable
<1>1. ASSUME TypeOK, SeenInv, Next, NEW f \in Folders,
             folder'[f].known, ~ Readable(folder'[f]), f \in Known => Readable(folder[f])
      PROVE  \E w \in inflight : /\ Ended(w) /\ w.op = "rename"
                                /\ f \in DOMAIN w.names \cap changed[w.request]
  <2>1. folder'[f] # folder[f]
    BY <1>1 DEF Known
  <2>2. PICK w \in inflight : Ended(w) /\ f \in DOMAIN w.names /\ folder'[f] = Rows(w)[f]
    BY <1>1, <2>1, RowChange DEF Known, Readable
  <2>3. w.op = "rename" /\ folder[f].parent # w.parent
    BY <1>1, <2>2, SavedRows DEF Readable
  <2>4. f \in changed[w.request]
    BY <1>1, <2>2, <2>3 DEF SeenInv, Seen
  <2> QED BY <2>2, <2>3, <2>4
<1>2. TypeOK /\ SeenInv /\ [Next]_vars =>
        [\A f \in Folders :
            /\ folder'[f].known /\ ~ Readable(folder'[f])
            /\ f \in Known => Readable(folder[f])
            => \E w \in inflight : /\ Ended(w) /\ w.op = "rename"
                                   /\ f \in DOMAIN w.names \cap changed[w.request]]_vars
  BY <1>1
<1> QED BY <1>2, SeenInvariant, PTL DEF Spec, NamesReadable

\* A removed folder stays as it is, but for requests that had looked before.
THEOREM RemovedStaysRemoved == Spec => RemovedIsFinal
<1>1. ASSUME TypeOK, SeenInv, Next, NEW f \in Removed, Placed(folder'[f]) # Placed(folder[f])
      PROVE  \E w \in inflight : Ended(w) /\ f \in DOMAIN w.names \cap changed[w.request]
  <2>1. f \in Folders /\ f \in Known /\ folder'[f] # folder[f] /\ folder[f].removed = TRUE
    BY <1>1 DEF Removed, Known, TypeOK, Row
  <2>2. CASE \E w \in inflight : Ended(w) /\ f \in DOMAIN w.names
    <3>1. PICK w \in inflight : Ended(w) /\ f \in DOMAIN w.names
      BY <2>2
    <3>2. f \in changed[w.request]
      BY <1>1, <2>1, <3>1 DEF SeenInv, Seen
    <3> QED BY <3>1, <3>2
  <2>3. CASE ~ \E w \in inflight : Ended(w) /\ f \in DOMAIN w.names
    <3>1. /\ folder'[f].parent = folder[f].parent /\ folder'[f].name = folder[f].name
          /\ folder'[f].salt = folder[f].salt /\ folder'[f].removed
      BY <1>1, <2>1, <2>3, RowChange
    <3>2. folder'[f].removed \in BOOLEAN
      BY <2>1, <1>1, NextRows DEF Row
    <3> QED BY <1>1, <2>1, <3>1, <3>2 DEF Placed
  <2> QED BY <2>2, <2>3
<1>2. TypeOK /\ SeenInv /\ [Next]_vars =>
        [\A f \in Removed :
            Placed(folder'[f]) # Placed(folder[f])
            => \E w \in inflight : Ended(w) /\ f \in DOMAIN w.names \cap changed[w.request]]_vars
  BY <1>1
<1> QED BY <1>2, SeenInvariant, PTL DEF Spec, RemovedIsFinal

\* Two visible rows of one name that a write would bring about: one of them is
\* the write's, the other is not.
LEMMA Collision ==
    ASSUME TypeOK, SeenInv, NEW w \in inflight, w.op # "rename", ~ UniqueIndex(Rows(w))
    PROVE  \E f \in DOMAIN w.names, g \in Folders :
              /\ Indexed(folder[g]) /\ folder[g].parent = w.parent
              /\ folder[g].name = w.names[f]
<1>1. PICK f \in Folders, g \in Folders :
         /\ f # g /\ Indexed(Rows(w)[f]) /\ Indexed(Rows(w)[g])
         /\ Rows(w)[f].parent = Rows(w)[g].parent /\ Rows(w)[f].name = Rows(w)[g].name
  BY DEF UniqueIndex
<1>2. \A h \in Folders \ DOMAIN w.names : Rows(w)[h] = folder[h]
  BY SavedRows
<1>3. \A h \in DOMAIN w.names : Rows(w)[h].name = w.names[h] /\ Rows(w)[h].parent = w.parent
  BY SavedRows
<1>4. ~ (f \in DOMAIN w.names /\ g \in DOMAIN w.names)
  BY <1>1, <1>3 DEF SeenInv, Seen
<1>5. ~ (f \notin DOMAIN w.names /\ g \notin DOMAIN w.names)
  BY <1>1, <1>2 DEF SeenInv, UniqueIndex
<1> QED BY <1>1, <1>2, <1>3, <1>4, <1>5

\* The index rejects a creation, a move or a restore only where the name was
\* taken after the request had found it free.
THEOREM RejectionsAreRaces == Spec => RejectedOnlyByARace
<1>1. ASSUME TypeOK, SeenInv, NEW w \in inflight, w.op # "rename", ~ UniqueIndex(Rows(w))
      PROVE  \E g \in changed[w.request], f \in DOMAIN w.names :
                Indexed(folder[g]) /\ folder[g].parent = w.parent
                /\ folder[g].name = w.names[f]
  <2>1. PICK f \in DOMAIN w.names, g \in Folders :
              /\ Indexed(folder[g]) /\ folder[g].parent = w.parent
              /\ folder[g].name = w.names[f]
    BY <1>1, Collision
  <2>2. g \in changed[w.request]
    BY <1>1, <2>1 DEF SeenInv, Seen
  <2> QED BY <2>1, <2>2
<1>2. TypeOK /\ SeenInv /\ [Next]_vars =>
        [\A w \in inflight :
            Ended(w) /\ w.op # "rename" /\ ~ UniqueIndex(Rows(w))
            => \E g \in changed[w.request], f \in DOMAIN w.names :
                  Indexed(folder[g]) /\ folder[g].parent = w.parent
                  /\ folder[g].name = w.names[f]]_vars
  BY <1>1
<1> QED BY <1>2, SeenInvariant, PTL DEF Spec, RejectedOnlyByARace

============================================================================
