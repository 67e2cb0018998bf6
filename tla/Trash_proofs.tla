------------------------------ MODULE Trash_proofs ------------------------------
(***************************************************************************)
(* Proofs about what takes items away for good: EmptyTrash, when the user  *)
(* asks for it, TrashExpiry, when the plan says so, and                    *)
(* DeletedItemsCleanup, when the folder they were in was removed.          *)
(*                                                                         *)
(* EmptyTrash, for any finite trash, any number of requests and batches of *)
(* any size.  A loop goes by two numbers, so that what it leaves is a      *)
(* matter of counting: everything that was in the trash at any time since  *)
(* it counted was counted or came late, and what it deleted is gone and is *)
(* deleted once.  CountedInv says so with the set it counted and the set   *)
(* it deleted, of which the loop only knows the sizes.                     *)
(*                                                                         *)
(* TrashExpiry, for any items, users, tiers and limits, and any number of  *)
(* workers.  A worker decides what is old enough when it starts, and       *)
(* deletes it several steps later.  ExpiryInv says that what it decided    *)
(* stays true.                                                             *)
(*                                                                         *)
(* DeletedItemsCleanup, for any folders and files and any bounds: its      *)
(* types, that it does only what FolderRemoval allows, failures, retries   *)
(* and late jobs included, and that jobs which are on time and do not fail *)
(* leave nothing behind.                                                   *)
(***************************************************************************)
EXTENDS EmptyTrash, DeletedItemsCleanup, TLAPS, SequenceTheorems, FiniteSetTheorems

CONSTANTS Users, user, Tiers, retention, Workers, batchSize, Tries, maxStalledCount, Every,
    MaxTroubles, MaxMoves

VARIABLES place, since, tier, deployed, time, queue, jobOf, worker, troubles, moves

Expiry == INSTANCE TrashExpiry WITH
    Files <- UserFiles, Folders <- UserFolders, Attempts <- Tries, Period <- Every,
    where <- place, age <- since, clock <- time, job <- jobOf

----------------------------------------------------------------------------
(* Types.                                                                  *)

\* Counting needs finite sets.
LEMMA FiniteItems ==
    ASSUME NEW S \in SUBSET UserItems
    PROVE  IsFiniteSet(S) /\ Cardinality(S) \in Nat
<1>1. IsFiniteSet(UserItems)
  BY EmptyTrashAssumption, FS_Union DEF EmptyTrashAssumption, UserItems
<1> QED BY <1>1, FS_Subset, FS_CardinalityType

LEMMA TrashIsItems ==
    ASSUME NEW k \in Kinds
    PROVE  Trash(k) \subseteq UserItems /\ ItemsOf(k) \subseteq UserItems
  BY DEF Trash, ItemsOf, UserItems

\* Every step is the user's, the lock's or a request's.
LEMMA StepKinds ==
    ASSUME [TrashNext]_trashVars
    PROVE  \/ UNCHANGED trashVars
           \/ \E i \in UserItems : moveItemToTrash(i) \/ restoreItem(i)
           \/ \E r \in Requests : emptyTrash(r) \/ handleEmptyTrashRequested(r)
                                  \/ handleLocked(r) \/ finish(r)
           \/ lockExpires
           \/ \E r \in Requests, k \in Kinds :
                 deleteBatch(r, k) \/ endLoop(r, k) \/ failLoop(r, k)
  BY DEF TrashNext, User, Server

LoopStates == [Kinds -> {"off", "on", "done", "failed"}]

\* Starting the loops of a request starts no other's.
LEMMA StartType ==
    ASSUME TrashTypeOK, NEW r \in Requests, StartLoops(r)
    PROVE  /\ loop' \in [Requests -> LoopStates]
           /\ \A s \in Requests, k \in Kinds :
                 loop'[s][k] = IF s = r THEN "on" ELSE loop[s][k]
<1>1. [k \in Kinds |-> "on"] \in LoopStates
  BY DEF LoopStates
<1>2. loop' = [loop EXCEPT ![r] = [k \in Kinds |-> "on"]]
  BY DEF StartLoops
<1>3. loop \in [Requests -> LoopStates]
  BY DEF TrashTypeOK, LoopStates
<1> QED BY <1>1, <1>2, <1>3

\* Nor does a loop that ends, in whatever way, touch another.
LEMMA LoopEnds ==
    ASSUME TrashTypeOK, NEW r \in Requests, NEW k \in Kinds, NEW end \in {"done", "failed"},
           loop' = [loop EXCEPT ![r][k] = end]
    PROVE  /\ loop' \in [Requests -> LoopStates]
           /\ \A s \in Requests, l \in Kinds :
                 loop'[s][l] = IF s = r /\ l = k THEN end ELSE loop[s][l]
<1>1. loop \in [Requests -> LoopStates]
  BY DEF TrashTypeOK, LoopStates
<1>2. [loop[r] EXCEPT ![k] = end] \in LoopStates
  BY <1>1 DEF LoopStates
<1>3. loop' = [loop EXCEPT ![r] = [loop[r] EXCEPT ![k] = end]]
  OBVIOUS
<1> QED BY <1>1, <1>2, <1>3 DEF LoopStates

\* Items, requests, loops and the lock keep their types.
THEOREM EmptyingTypeCorrect == TrashSpec => []TrashTypeOK
<1>1. TrashInit => TrashTypeOK
  BY DEF TrashInit, TrashTypeOK, Kinds, States
<1>2. TrashTypeOK /\ [TrashNext]_trashVars => TrashTypeOK'
  <2> SUFFICES ASSUME TrashTypeOK, [TrashNext]_trashVars PROVE TrashTypeOK'
    OBVIOUS
  <2> USE DEF TrashTypeOK, run
  <2>1. CASE UNCHANGED trashVars
    BY <2>1 DEF trashVars
  <2>2. ASSUME NEW i \in UserItems, moveItemToTrash(i) \/ restoreItem(i) PROVE TrashTypeOK'
    <3>1. where' \in [UserItems -> {"drive", "trash", "gone"}]
      BY <2>2 DEF moveItemToTrash, restoreItem
    <3>2. late' \in [Requests -> SUBSET UserItems]
      <4>1. CASE moveItemToTrash(i)
        <5>1. \A r \in Requests : late[r] \cup {i} \in SUBSET UserItems /\ late[r] \in SUBSET UserItems
          OBVIOUS
        <5> QED BY <4>1, <5>1 DEF moveItemToTrash
      <4>2. CASE restoreItem(i)
        BY <4>2 DEF restoreItem
      <4> QED BY <2>2, <4>1, <4>2
    <3> QED BY <2>2, <3>1, <3>2 DEF moveItemToTrash, restoreItem
  <2>3. ASSUME NEW r \in Requests, emptyTrash(r) PROVE TrashTypeOK'
    <3>1. \A k \in Kinds : Cardinality(Trash(k)) \in Nat
      BY TrashIsItems, FiniteItems
    <3>2. [k \in Kinds |-> Cardinality(Trash(k))] \in [Kinds -> Nat]
      BY <3>1
    <3>3. count' \in [Requests -> [Kinds -> Nat]]
      BY <2>3, <3>2 DEF emptyTrash
    <3>4. state' \in [Requests -> States] /\ loop' \in [Requests -> LoopStates]
      BY <2>3, StartType DEF emptyTrash, States, LoopStates
    <3>5. UNCHANGED <<where, processed, chunk, lock, late>>
      BY <2>3 DEF emptyTrash
    <3> QED BY <3>3, <3>4, <3>5 DEF LoopStates
  <2>4. ASSUME NEW r \in Requests,
               handleEmptyTrashRequested(r) \/ handleLocked(r) \/ finish(r)
        PROVE  TrashTypeOK'
    <3>1. state' \in [Requests -> States]
      BY <2>4 DEF handleEmptyTrashRequested, handleLocked, finish, States
    <3>2. loop' \in [Requests -> LoopStates]
      BY <2>4, StartType DEF handleEmptyTrashRequested, handleLocked, finish, LoopStates
    <3>3. chunk' \in [Requests -> {SyncChunk, AsyncChunk}]
      BY <2>4 DEF handleEmptyTrashRequested, handleLocked, finish, HandlerChunk
    <3>4. lock' \in Requests \cup {Free}
      BY <2>4 DEF handleEmptyTrashRequested, handleLocked, finish
    <3>5. UNCHANGED <<where, count, processed, late>>
      BY <2>4 DEF handleEmptyTrashRequested, handleLocked, finish
    <3> QED BY <3>1, <3>2, <3>3, <3>4, <3>5 DEF LoopStates
  <2>5. CASE lockExpires
    BY <2>5 DEF lockExpires
  <2>6. ASSUME NEW r \in Requests, NEW k \in Kinds, deleteBatch(r, k) PROVE TrashTypeOK'
    <3>1. PICK batch \in SUBSET Trash(k) :
            /\ where' = [i \in UserItems |-> IF i \in batch THEN "gone" ELSE where[i]]
            /\ processed' = [processed EXCEPT ![r][k] = @ + Cardinality(batch)]
      BY <2>6 DEF deleteBatch
    <3>2. Cardinality(batch) \in Nat
      BY TrashIsItems, FiniteItems
    <3>3. processed[r][k] + Cardinality(batch) \in Nat
      BY <3>2
    <3>4. processed' \in [Requests -> [Kinds -> Nat]]
      BY <3>1, <3>3
    <3>5. where' \in [UserItems -> {"drive", "trash", "gone"}]
      BY <3>1
    <3> QED BY <2>6, <3>4, <3>5 DEF deleteBatch
  <2>7. ASSUME NEW r \in Requests, NEW k \in Kinds, endLoop(r, k) \/ failLoop(r, k)
        PROVE  TrashTypeOK'
    <3>1. loop' \in {[loop EXCEPT ![r][k] = "done"], [loop EXCEPT ![r][k] = "failed"]}
      BY <2>7 DEF endLoop, failLoop
    <3>2. loop' \in [Requests -> LoopStates]
      BY <3>1, LoopEnds
    <3>3. UNCHANGED <<where, state, count, processed, chunk, lock, late>>
      BY <2>7 DEF endLoop, failLoop
    <3> QED BY <3>2, <3>3 DEF LoopStates
  <2> QED BY <2>1, <2>2, <2>3, <2>4, <2>5, <2>6, <2>7, StepKinds
<1> QED BY <1>1, <1>2, PTL DEF TrashSpec

----------------------------------------------------------------------------
(* What a loop leaves.                                                     *)

\* C was in the trash when r counted, D is what r has deleted.
Counted(r, k, C, D) ==
    /\ C \in SUBSET ItemsOf(k) /\ D \in SUBSET ItemsOf(k)
    /\ Cardinality(C) = count[r][k]
    /\ Cardinality(D) = processed[r][k]
    /\ \A i \in D : where[i] = "gone"
    /\ Trash(k) \cup D \subseteq C \cup late[r]

CountedInv ==
    \A r \in Requests, k \in Kinds :
        IF Started(r) THEN \E C, D : Counted(r, k, C, D)
        ELSE loop[r][k] = "off" /\ processed[r][k] = 0

\* Steps by which nothing comes into the trash but late, nothing comes back
\* that is gone, and no batch is deleted.
LEMMA OthersCount ==
    ASSUME TrashTypeOK, NEW r \in Requests, NEW k \in Kinds, NEW C, NEW D, Counted(r, k, C, D),
           UNCHANGED <<count, processed>>,
           late[r] \subseteq late'[r],
           \A i \in UserItems : where[i] = "gone" => where'[i] = "gone",
           \A i \in UserItems : where'[i] = "trash" => where[i] = "trash" \/ i \in late'[r]
    PROVE  Counted(r, k, C, D)'
  BY TrashIsItems DEF Counted, Trash, ItemsOf, UserItems

\* A batch that r deletes adds as many to what it has deleted as it counts.
LEMMA BatchCounts ==
    ASSUME TrashTypeOK, NEW r \in Requests, NEW k \in Kinds, NEW C, NEW D, Counted(r, k, C, D),
           NEW batch \in SUBSET Trash(k),
           where' = [i \in UserItems |-> IF i \in batch THEN "gone" ELSE where[i]],
           processed' = [processed EXCEPT ![r][k] = @ + Cardinality(batch)],
           UNCHANGED <<count, late>>
    PROVE  Counted(r, k, C, D \cup batch)'
<1>1. /\ C \subseteq ItemsOf(k) /\ D \subseteq ItemsOf(k) /\ batch \subseteq ItemsOf(k)
      /\ ItemsOf(k) \subseteq UserItems
  BY TrashIsItems DEF Counted, Trash
<1>2. D \cap batch = {}
  BY DEF Counted, Trash
<1>3. Cardinality(D \cup batch) = Cardinality(D) + Cardinality(batch)
  <2>1. IsFiniteSet(D) /\ IsFiniteSet(batch) /\ Cardinality(D) \in Nat /\ Cardinality(batch) \in Nat
    BY <1>1, FiniteItems
  <2>2. Cardinality(D \cap batch) = 0
    BY <1>2, FS_EmptySet
  <2>3. Cardinality(D \cup batch) = Cardinality(D) + Cardinality(batch) - Cardinality(D \cap batch)
    BY <2>1, FS_Union
  <2> QED BY <2>1, <2>2, <2>3
<1>4. processed'[r][k] = processed[r][k] + Cardinality(batch)
  BY DEF TrashTypeOK
<1>5. \A i \in D \cup batch : where'[i] = "gone"
  BY <1>1 DEF Counted
<1>6. Trash(k)' \subseteq Trash(k)
  BY <1>1 DEF Trash
<1>7. Trash(k)' \cup (D \cup batch) \subseteq C \cup late'[r]
  BY <1>6 DEF Counted
<1> QED BY <1>1, <1>3, <1>4, <1>5, <1>7 DEF Counted

LEMMA CountedStep ==
    ASSUME TrashTypeOK, CountedInv, [TrashNext]_trashVars
    PROVE  CountedInv'
<1> SUFFICES ASSUME NEW r \in Requests, NEW k \in Kinds
             PROVE  IF Started(r)' THEN \E C, D : Counted(r, k, C, D)'
                    ELSE loop'[r][k] = "off" /\ processed'[r][k] = 0
  BY DEF CountedInv
<1>1. CASE UNCHANGED trashVars
  BY <1>1 DEF trashVars, run, CountedInv, Started, Counted, Trash
<1>2. ASSUME NEW i \in UserItems, moveItemToTrash(i) \/ restoreItem(i)
      PROVE  IF Started(r)' THEN \E C, D : Counted(r, k, C, D)'
             ELSE loop'[r][k] = "off" /\ processed'[r][k] = 0
  <2>1. UNCHANGED run
    BY <1>2 DEF moveItemToTrash, restoreItem
  <2>2. CASE ~ Started(r)
    BY <2>1, <2>2 DEF run, CountedInv, Started
  <2>3. CASE Started(r)
    <3>1. PICK C, D : Counted(r, k, C, D)
      BY <2>3 DEF CountedInv
    <3>2. /\ late[r] \subseteq late'[r]
          /\ \A j \in UserItems : where[j] = "gone" => where'[j] = "gone"
          /\ \A j \in UserItems : where'[j] = "trash" => where[j] = "trash" \/ j \in late'[r]
      BY <1>2, <2>3 DEF moveItemToTrash, restoreItem, TrashTypeOK
    <3>3. Counted(r, k, C, D)'
      BY <2>1, <3>1, <3>2, OthersCount DEF run
    <3> QED BY <2>1, <2>3, <3>3 DEF run, Started
  <2> QED BY <2>2, <2>3
<1>3. ASSUME NEW s \in Requests, emptyTrash(s)
      PROVE  IF Started(r)' THEN \E C, D : Counted(r, k, C, D)'
             ELSE loop'[r][k] = "off" /\ processed'[r][k] = 0
  <2>1. CASE r = s
    <3>1. ~ Started(r) /\ processed[r][k] = 0
      BY <1>3, <2>1 DEF emptyTrash, Started, CountedInv
    <3>2. Started(r)'
      BY <1>3, <2>1 DEF emptyTrash, Started, TrashTypeOK
    <3>3. count'[r][k] = Cardinality(Trash(k)) /\ processed' = processed /\ where' = where
      BY <1>3, <2>1 DEF emptyTrash, TrashTypeOK
    <3>4. Counted(r, k, Trash(k), {})'
      BY <3>1, <3>3, FS_EmptySet DEF Counted, Trash
    <3> QED BY <3>2, <3>4
  <2>2. CASE r # s
    <3>1. /\ count'[r] = count[r] /\ loop'[r] = loop[r] /\ state'[r] = state[r]
          /\ UNCHANGED <<where, processed, late>>
      BY <1>3, <2>2 DEF emptyTrash, StartLoops, TrashTypeOK
    <3> QED BY <3>1 DEF CountedInv, Started, Counted, Trash
  <2> QED BY <2>1, <2>2
<1>4. ASSUME NEW s \in Requests,
             handleEmptyTrashRequested(s) \/ handleLocked(s) \/ finish(s) \/ lockExpires
      PROVE  IF Started(r)' THEN \E C, D : Counted(r, k, C, D)'
             ELSE loop'[r][k] = "off" /\ processed'[r][k] = 0
  <2>1. UNCHANGED <<where, count, processed, late>>
    BY <1>4 DEF handleEmptyTrashRequested, handleLocked, finish, lockExpires, run
  <2>2. /\ Started(r)' <=> Started(r)
        /\ ~ Started(r) => loop'[r] = loop[r]
    BY <1>4 DEF handleEmptyTrashRequested, handleLocked, finish, lockExpires, run,
                Started, StartLoops, TrashTypeOK
  <2> QED BY <2>1, <2>2 DEF CountedInv, Counted, Trash
<1>5. ASSUME NEW s \in Requests, NEW l \in Kinds, deleteBatch(s, l)
      PROVE  IF Started(r)' THEN \E C, D : Counted(r, k, C, D)'
             ELSE loop'[r][k] = "off" /\ processed'[r][k] = 0
  <2>1. PICK batch \in SUBSET Trash(l) :
          /\ where' = [i \in UserItems |-> IF i \in batch THEN "gone" ELSE where[i]]
          /\ processed' = [processed EXCEPT ![s][l] = @ + Cardinality(batch)]
    BY <1>5 DEF deleteBatch
  <2>2. UNCHANGED <<state, count, loop, late>> /\ loop[s][l] = "on"
    BY <1>5 DEF deleteBatch
  <2>3. CASE ~ Started(r)
    <3>1. r # s
      BY <2>2, <2>3 DEF CountedInv
    <3> QED BY <2>1, <2>2, <2>3, <3>1 DEF CountedInv, Started, TrashTypeOK
  <2>4. CASE Started(r) /\ r = s /\ k = l
    <3>1. PICK C, D : Counted(r, k, C, D)
      BY <2>4 DEF CountedInv
    <3>2. Counted(r, k, C, D \cup batch)'
      BY <2>1, <2>2, <2>4, <3>1, BatchCounts
    <3> QED BY <2>2, <2>4, <3>2 DEF Started
  <2>5. CASE Started(r) /\ ~ (r = s /\ k = l)
    <3>1. PICK C, D : Counted(r, k, C, D)
      BY <2>5 DEF CountedInv
    <3>2. processed'[r][k] = processed[r][k]
      BY <2>1, <2>5 DEF TrashTypeOK
    <3>3. /\ \A i \in UserItems : where[i] = "gone" => where'[i] = "gone"
          /\ Trash(k)' \subseteq Trash(k)
      BY <2>1, TrashIsItems DEF Trash
    <3>4. \A i \in D : where'[i] = "gone"
      BY <3>1, <3>3, TrashIsItems DEF Counted
    <3>5. Counted(r, k, C, D)'
      BY <2>2, <3>1, <3>2, <3>3, <3>4 DEF Counted
    <3> QED BY <2>2, <2>5, <3>5 DEF Started
  <2> QED BY <2>3, <2>4, <2>5
<1>6. ASSUME NEW s \in Requests, NEW l \in Kinds, endLoop(s, l) \/ failLoop(s, l)
      PROVE  IF Started(r)' THEN \E C, D : Counted(r, k, C, D)'
             ELSE loop'[r][k] = "off" /\ processed'[r][k] = 0
  <2>1. UNCHANGED <<where, state, count, processed, late>> /\ loop[s][l] = "on"
    BY <1>6 DEF endLoop, failLoop
  <2>2. ~ Started(r) => r # s
    BY <2>1 DEF CountedInv
  <2>3. r # s => loop'[r] = loop[r]
    BY <1>6 DEF endLoop, failLoop, TrashTypeOK
  <2> QED BY <2>1, <2>2, <2>3 DEF CountedInv, Counted, Trash, Started
<1>7. CASE lockExpires
  BY <1>4, <1>7
<1> QED BY <1>1, <1>2, <1>3, <1>4, <1>5, <1>6, <1>7, StepKinds

\* A loop that has deleted as many as it counted leaves no more than came late.
LEMMA EndedLeaves ==
    ASSUME TrashTypeOK, NEW r \in Requests, NEW k \in Kinds, NEW C, NEW D, Counted(r, k, C, D),
           Ended(r, k)
    PROVE  Cardinality(Trash(k)) <= Cardinality(late[r] \cap ItemsOf(k))
<1> DEFINE L == late[r] \cap ItemsOf(k)
           T == Trash(k)
<1>1. /\ C \subseteq UserItems /\ D \subseteq UserItems /\ L \subseteq UserItems /\ T \subseteq UserItems
      /\ T \subseteq ItemsOf(k)
  BY TrashIsItems DEF Counted, Trash
<1>2. /\ IsFiniteSet(C) /\ IsFiniteSet(D) /\ IsFiniteSet(L) /\ IsFiniteSet(T)
      /\ Cardinality(C) \in Nat /\ Cardinality(D) \in Nat
      /\ Cardinality(L) \in Nat /\ Cardinality(T) \in Nat
  BY <1>1, FiniteItems
<1>3. T \cap D = {} /\ T \cup D \subseteq C \cup L
  BY <1>1 DEF Counted, Trash
<1>4. Cardinality(T \cup D) = Cardinality(T) + Cardinality(D)
  <2>1. Cardinality(T \cap D) = 0
    BY <1>3, FS_EmptySet
  <2>2. Cardinality(T \cup D) = Cardinality(T) + Cardinality(D) - Cardinality(T \cap D)
    BY <1>2, FS_Union
  <2> QED BY <1>2, <2>1, <2>2
<1>5. Cardinality(C \cup L) <= Cardinality(C) + Cardinality(L) /\ IsFiniteSet(C \cup L)
  <2>1. Cardinality(C \cup L) = Cardinality(C) + Cardinality(L) - Cardinality(C \cap L)
        /\ IsFiniteSet(C \cup L)
    BY <1>2, FS_Union
  <2>2. Cardinality(C \cap L) \in Nat
    BY <1>1, FiniteItems
  <2> QED BY <1>2, <2>1, <2>2
<1>6. Cardinality(T \cup D) <= Cardinality(C \cup L)
  BY <1>3, <1>5, FS_Subset
<1>7. Cardinality(D) >= Cardinality(C)
  BY DEF Ended, Counted
<1>8. Cardinality(C \cup L) \in Nat
  BY <1>5, FS_CardinalityType
<1> HIDE DEF L, T
<1>9. Cardinality(T) <= Cardinality(L)
  BY <1>2, <1>4, <1>5, <1>6, <1>7, <1>8
<1> QED BY <1>9 DEF L, T

\* However many requests, handlers without the lock and user actions race, a
\* loop that ends leaves no more items in the trash than were put there since
\* it was counted.
THEOREM LoopsLeaveWhatWasAdded == TrashSpec => LeavesOnlyAsManyAsAdded
<1>1. TrashInit => CountedInv
  BY DEF TrashInit, CountedInv, Started
<1>2. TrashTypeOK /\ CountedInv /\ [TrashNext]_trashVars => CountedInv'
  BY CountedStep
<1>3. TrashTypeOK /\ CountedInv /\ [TrashNext]_trashVars =>
        [\A r \in Requests, k \in Kinds :
           loop[r][k] = "on" /\ loop'[r][k] = "done" =>
             Cardinality(Trash(k)) <= Cardinality(late[r] \cap ItemsOf(k))]_trashVars
  <2> SUFFICES ASSUME TrashTypeOK, CountedInv, [TrashNext]_trashVars,
                      NEW r \in Requests, NEW k \in Kinds,
                      loop[r][k] = "on", loop'[r][k] = "done"
               PROVE  Cardinality(Trash(k)) <= Cardinality(late[r] \cap ItemsOf(k))
    OBVIOUS
  <2>1. endLoop(r, k)
    <3>1. CASE UNCHANGED trashVars
      BY <3>1 DEF trashVars, run
    <3>2. CASE \E i \in UserItems : moveItemToTrash(i) \/ restoreItem(i)
      BY <3>2 DEF moveItemToTrash, restoreItem, run
    <3>3. CASE \E s \in Requests : emptyTrash(s) \/ handleEmptyTrashRequested(s)
                                   \/ handleLocked(s) \/ finish(s)
      <4>1. PICK s \in Requests : emptyTrash(s) \/ handleEmptyTrashRequested(s)
                                   \/ handleLocked(s) \/ finish(s)
        BY <3>3
      <4>2. UNCHANGED loop \/ StartLoops(s)
        BY <4>1 DEF emptyTrash, handleEmptyTrashRequested, handleLocked, finish
      <4>3. loop'[r][k] \in {loop[r][k], "on"}
        BY <4>2, StartType
      <4> QED BY <4>3
    <3>4. CASE lockExpires
      BY <3>4 DEF lockExpires, run
    <3>5. ASSUME NEW s \in Requests, NEW l \in Kinds, deleteBatch(s, l) \/ failLoop(s, l)
          PROVE  FALSE
      <4>1. loop' = loop \/ loop' = [loop EXCEPT ![s][l] = "failed"]
        BY <3>5 DEF deleteBatch, failLoop
      <4>2. loop'[r][k] \in {loop[r][k], "failed"}
        BY <4>1, LoopEnds
      <4> QED BY <4>2
    <3>6. ASSUME NEW s \in Requests, NEW l \in Kinds, endLoop(s, l)
          PROVE  s = r /\ l = k
      BY <3>6 DEF endLoop, TrashTypeOK
    <3> QED BY <3>1, <3>2, <3>3, <3>4, <3>5, <3>6, StepKinds
  <2>2. Started(r)
    BY DEF CountedInv
  <2>3. PICK C, D : Counted(r, k, C, D)
    BY <2>2 DEF CountedInv
  <2>4. CASE Ended(r, k)
    BY <2>3, <2>4, EndedLeaves
  <2>5. CASE NothingLeft(k)
    <3>1. Cardinality(Trash(k)) = 0
      BY <2>5, FS_EmptySet DEF NothingLeft
    <3>2. Cardinality(late[r] \cap ItemsOf(k)) \in Nat
      BY TrashIsItems, FiniteItems
    <3> QED BY <3>1, <3>2
  <2> QED BY <2>1, <2>4, <2>5 DEF endLoop
<1> QED BY <1>1, <1>2, <1>3, EmptyingTypeCorrect, PTL DEF TrashSpec, LeavesOnlyAsManyAsAdded


----------------------------------------------------------------------------
(* Types.                                                                  *)

ExpirySteps == {"idle", "files", "folders", "done"}

\* No batch has the uuid that is watched.
Run == [tier : Tiers \cup {Expiry!NoTier}, step : ExpirySteps, holds : BOOLEAN, expired : SUBSET Expiry!Items,
        due : SUBSET Expiry!Items, previous : SUBSET Expiry!Items, again : {0}]

TypeInv ==
    /\ place \in [Expiry!Items -> {"drive", "trash", "gone"}]
    /\ since \in [Expiry!Items -> Nat]
    /\ tier \in [Users -> Tiers]
    /\ deployed \in Nat
    /\ queue \in Seq(Expiry!Limited)
    /\ worker \in [Workers -> Run]

\* What a worker has set out to take is in the trash, and has been for as long as the tier says; so long
\* is it since the job was deployed.
Decided(w) ==
    /\ worker[w].tier \in Expiry!Limited
    /\ deployed >= retention[worker[w].tier]
    /\ \A i \in worker[w].expired : Expiry!Trashed(i) /\ since[i] >= retention[worker[w].tier]

\* What it is to take before the run is completed is among that, and of users of the tier; there is none
\* of a kind whose batches are over.
StillDue(w) ==
    /\ worker[w].due \subseteq Expiry!OfTier(w)
    /\ worker[w].step \in {"folders", "done"} => worker[w].due \cap UserFiles = {}
    /\ worker[w].step = "done" => worker[w].due = {}

\* The uuid that is watched is of an item that is gone.
Watched(w) == \A i \in worker[w].previous : place[i] = "gone"

ExpiryInv ==
    /\ TypeInv
    /\ \A w \in Workers : Expiry!Working(w) => Decided(w) /\ StillDue(w) /\ Watched(w)

\* TrashExpiry's finite sets and their sizes are those of this module.
LEMMA SameCardinality == \A S : Expiry!Cardinality(S) = Cardinality(S)
BY Zenon DEF Expiry!Cardinality, Cardinality

LEMMA FiniteTiers == Expiry!ExpiryConstants => IsFiniteSet(Tiers)
BY DEF Expiry!ExpiryConstants, Expiry!IsFiniteSet, IsFiniteSet

LEMMA OldIsNat == Expiry!ExpiryConstants => Expiry!Old \in Nat
<1> SUFFICES ASSUME Expiry!ExpiryConstants PROVE Expiry!Old \in Nat
  OBVIOUS
<1> DEFINE limits == {retention[t] : t \in Expiry!Limited}
<1>1. limits \subseteq Nat
  BY DEF Expiry!ExpiryConstants, Expiry!Limited
<1>2. \E n \in limits : \A t \in Expiry!Limited : retention[t] <= n
  BY DEF Expiry!ExpiryConstants
<1> DEFINE longest == CHOOSE n \in limits : \A t \in Expiry!Limited : retention[t] <= n
<1>3. longest \in limits
  BY <1>2
<1>4. Expiry!Old = 1 + longest
  BY Zenon DEF Expiry!Old
<1> HIDE DEF limits, longest
<1> QED
  BY <1>1, <1>3, <1>4

LEMMA OlderIsNoYounger ==
    ASSUME NEW n \in Nat
    PROVE  Expiry!Older(n) \in Nat /\ Expiry!Older(n) >= n
BY DEF Expiry!Older

LEMMA UnoccupiedType == Expiry!Unoccupied \in Run /\ Expiry!Unoccupied.step = "idle"
BY DEF Expiry!Unoccupied, Run, ExpirySteps

LEMMA InitExpiry == Expiry!ExpiryConstants /\ Expiry!Init => ExpiryInv
<1> SUFFICES ASSUME Expiry!ExpiryConstants, Expiry!Init PROVE ExpiryInv
  OBVIOUS
<1>1. TypeInv
  BY OldIsNat, UnoccupiedType, EmptySeq DEF Expiry!Init, TypeInv
<1>2. \A w \in Workers : worker[w] = Expiry!Unoccupied /\ ~ Expiry!Working(w)
  BY UnoccupiedType DEF Expiry!Init, Expiry!Working
<1> QED
  BY <1>1, <1>2 DEF ExpiryInv

----------------------------------------------------------------------------
(* Users, and time.                                                        *)

\* A write to an item takes it away from every worker, and the item is not deleted by it.
LEMMA PutExpiry ==
    ASSUME Expiry!ExpiryConstants, ExpiryInv, NEW i \in Expiry!Items, NEW to \in {"drive", "trash"},
           place[i] # "gone", Expiry!Put(i, to)
    PROVE  ExpiryInv'
<1>1. TypeInv'
  <2>1. place' \in [Expiry!Items -> {"drive", "trash", "gone"}] /\ since' \in [Expiry!Items -> Nat]
    BY DEF ExpiryInv, TypeInv, Expiry!Put
  <2>2. worker' \in [Workers -> Run]
    <3> SUFFICES ASSUME NEW w \in Workers
                 PROVE  [worker[w] EXCEPT !.expired = @ \ {i}, !.due = @ \ {i}] \in Run
      BY DEF Expiry!Put, Expiry!Touched
    <3>1. worker[w] \in Run
      BY DEF ExpiryInv, TypeInv
    <3> QED
      BY <3>1 DEF Run
  <2> QED
    BY <2>1, <2>2 DEF ExpiryInv, TypeInv, Expiry!Put, Expiry!jobs
<1>2. ASSUME NEW w \in Workers
      PROVE  /\ worker'[w].expired = worker[w].expired \ {i}
             /\ worker'[w].due = worker[w].due \ {i}
             /\ worker'[w].tier = worker[w].tier /\ worker'[w].step = worker[w].step
             /\ worker'[w].previous = worker[w].previous /\ worker'[w].again = worker[w].again
             /\ worker'[w].holds = worker[w].holds
  <2>1. worker[w] \in Run
    BY DEF ExpiryInv, TypeInv
  <2>2. worker'[w] = [worker[w] EXCEPT !.expired = @ \ {i}, !.due = @ \ {i}]
    BY DEF Expiry!Put, Expiry!Touched
  <2> QED
    BY <2>1, <2>2 DEF Run
<1>3. \A k \in Expiry!Items \ {i} : place'[k] = place[k] /\ since'[k] = since[k]
  BY DEF Expiry!Put, ExpiryInv, TypeInv
<1>4. UNCHANGED <<tier, deployed>>
  BY DEF Expiry!Put
<1>5. ASSUME NEW w \in Workers, Expiry!Working(w)'
      PROVE  Decided(w)' /\ StillDue(w)' /\ Watched(w)'
  <2>1. Decided(w) /\ StillDue(w) /\ Watched(w)
    BY <1>2, <1>5 DEF Expiry!Working, ExpiryInv
  <2>2. worker[w] \in Run
    BY DEF ExpiryInv, TypeInv
  <2>3. Decided(w)'
    BY <1>2, <1>3, <1>4, <2>1, <2>2 DEF Decided, Expiry!Trashed, Run
  <2>4. StillDue(w)'
    BY <1>2, <1>4, <2>1 DEF StillDue, Expiry!OfTier
  <2>5. Watched(w)'
    BY <1>2, <1>3, <2>1, <2>2 DEF Watched, Run
  <2> QED
    BY <2>3, <2>4, <2>5
<1> QED
  BY <1>1, <1>5 DEF ExpiryInv

\* What is due to a job is of users of its tier, also when some leave it.
LEMMA TierExpiry ==
    ASSUME Expiry!ExpiryConstants, ExpiryInv, NEW u \in Users, NEW t \in Tiers, Expiry!updateUserTier(u, t)
    PROVE  ExpiryInv'
<1>1. ASSUME NEW w \in Workers
      PROVE  /\ worker'[w] \in Run
             /\ worker'[w].expired = worker[w].expired
             /\ worker'[w].due = {i \in worker[w].due : user[i] # u}
             /\ worker'[w].tier = worker[w].tier /\ worker'[w].step = worker[w].step
             /\ worker'[w].previous = worker[w].previous /\ worker'[w].again = worker[w].again
  <2>1. worker[w] \in Run
    BY DEF ExpiryInv, TypeInv
  <2>2. worker'[w] = [worker[w] EXCEPT !.due = {i \in @ : user[i] # u}]
    BY DEF Expiry!updateUserTier
  <2> QED
    BY <2>1, <2>2 DEF Run
<1>2. TypeInv'
  <2>1. tier' \in [Users -> Tiers]
    BY DEF ExpiryInv, TypeInv, Expiry!updateUserTier
  <2>2. worker' \in [Workers -> Run]
    BY <1>1 DEF Expiry!updateUserTier
  <2> QED
    BY <2>1, <2>2 DEF ExpiryInv, TypeInv, Expiry!updateUserTier, Expiry!jobs
<1>3. \A v \in Users \ {u} : tier'[v] = tier[v]
  BY DEF Expiry!updateUserTier, ExpiryInv, TypeInv
<1>4. UNCHANGED <<place, since, deployed>>
  BY DEF Expiry!updateUserTier
<1>5. ASSUME NEW w \in Workers, Expiry!Working(w)'
      PROVE  Decided(w)' /\ StillDue(w)' /\ Watched(w)'
  <2>1. Decided(w) /\ StillDue(w) /\ Watched(w)
    BY <1>1, <1>5 DEF Expiry!Working, ExpiryInv
  <2>2. worker[w] \in Run
    BY DEF ExpiryInv, TypeInv
  <2>3. Decided(w)'
    BY <1>1, <1>4, <2>1 DEF Decided, Expiry!Trashed
  <2>4. \A i \in worker[w].due : i \in Expiry!Items /\ user[i] \in Users
    BY <2>2 DEF Run, Expiry!ExpiryConstants
  <2>5. StillDue(w)'
    BY <1>1, <1>3, <2>1, <2>4 DEF StillDue, Expiry!OfTier
  <2>6. Watched(w)'
    BY <1>1, <1>4, <2>1 DEF Watched
  <2> QED
    BY <2>3, <2>5, <2>6
<1> QED
  BY <1>2, <1>5 DEF ExpiryInv

\* An order of some tiers is a sequence of them.
LEMMA OrderIsSeq ==
    ASSUME Expiry!ExpiryConstants, NEW added \in SUBSET Expiry!Limited, NEW order \in [1 .. Cardinality(added) -> added]
    PROVE  order \in Seq(Expiry!Limited)
<1>1. IsFiniteSet(added)
  <2>1. added \subseteq Tiers
    BY DEF Expiry!Limited
  <2> QED
    BY <2>1, FiniteTiers, FS_Subset
<1>2. Cardinality(added) \in Nat
  BY <1>1, FS_CardinalityType
<1>3. order \in [1 .. Cardinality(added) -> Expiry!Limited]
  OBVIOUS
<1>4. order \in Seq(Expiry!Limited)
  BY <1>2, <1>3, SeqDef
<1> QED
  BY <1>4

\* Items get older, and those that were old enough stay so.
LEMMA TickExpiry ==
    ASSUME Expiry!ExpiryConstants, ExpiryInv, Expiry!Tick
    PROVE  ExpiryInv'
<1>1. queue' \in Seq(Expiry!Limited)
  <2>1. CASE UNCHANGED queue
    BY <2>1 DEF ExpiryInv, TypeInv
  <2>2. CASE \E added \in SUBSET Expiry!NewJobs : \E order \in [1 .. Cardinality(added) -> added] :
                queue' = queue \o order
    <3>1. PICK added \in SUBSET Expiry!NewJobs : \E order \in [1 .. Cardinality(added) -> added] :
                queue' = queue \o order
      BY <2>2
    <3>2. PICK order \in [1 .. Cardinality(added) -> added] : queue' = queue \o order
      BY <3>1
    <3>3. added \in SUBSET Expiry!Limited
      BY DEF Expiry!NewJobs
    <3>4. order \in Seq(Expiry!Limited)
      BY <3>3, OrderIsSeq
    <3> QED
      BY <3>2, <3>4, ConcatProperties DEF ExpiryInv, TypeInv
  <2> QED
    BY <2>1, <2>2, SameCardinality DEF Expiry!Tick, Expiry!scheduleCleanup, Expiry!jobs
<1>2. \A i \in Expiry!Items : since'[i] \in Nat /\ since'[i] >= since[i]
  <2> SUFFICES ASSUME NEW i \in Expiry!Items PROVE since'[i] \in Nat /\ since'[i] >= since[i]
    OBVIOUS
  <2>1. since[i] \in Nat /\ since'[i] = IF Expiry!Trashed(i) THEN Expiry!Older(since[i]) ELSE since[i]
    BY DEF Expiry!Tick, ExpiryInv, TypeInv
  <2> QED
    BY <2>1, OlderIsNoYounger
<1>3. deployed' \in Nat /\ deployed' >= deployed
  BY OlderIsNoYounger DEF Expiry!Tick, ExpiryInv, TypeInv
<1>4. TypeInv'
  <2>1. since' \in [Expiry!Items -> Nat]
    BY <1>2 DEF Expiry!Tick
  <2> QED
    BY <1>1, <1>3, <2>1 DEF ExpiryInv, TypeInv, Expiry!Tick
<1>5. UNCHANGED <<place, tier, worker>>
  BY DEF Expiry!Tick
<1>6. ASSUME NEW w \in Workers, Decided(w), StillDue(w), Watched(w)
      PROVE  Decided(w)' /\ StillDue(w)' /\ Watched(w)'
  <2>1. retention[worker[w].tier] \in Nat
    BY <1>6 DEF Decided, Expiry!ExpiryConstants, Expiry!Limited
  <2>2. worker[w].expired \subseteq Expiry!Items
    BY DEF ExpiryInv, TypeInv, Run
  <2>3. Decided(w)'
    <3>1. deployed' >= retention[worker[w].tier]
      BY <1>3, <1>6, <2>1 DEF Decided, ExpiryInv, TypeInv
    <3>2. ASSUME NEW i \in worker[w].expired
          PROVE  since'[i] >= retention[worker[w].tier]
      <4>1. since[i] \in Nat /\ since[i] >= retention[worker[w].tier]
        BY <1>6, <2>2 DEF Decided, ExpiryInv, TypeInv
      <4> QED
        BY <1>2, <2>1, <2>2, <4>1
    <3> QED
      BY <1>5, <1>6, <3>1, <3>2 DEF Decided, Expiry!Trashed
  <2>4. StillDue(w)' /\ Watched(w)'
    BY <1>5, <1>6 DEF StillDue, Expiry!OfTier, Watched
  <2> QED
    BY <2>3, <2>4
<1> QED
  BY <1>4, <1>5, <1>6 DEF ExpiryInv, Expiry!Working

----------------------------------------------------------------------------
(* Workers.                                                                *)

\* A worker sets out with what is old enough.
LEMMA StartExpiry ==
    ASSUME Expiry!ExpiryConstants, ExpiryInv, NEW w \in Workers, Expiry!startJob(w)
    PROVE  ExpiryInv'
<1> DEFINE t == Head(queue)
<1>1. t \in Expiry!Limited /\ Tail(queue) \in Seq(Expiry!Limited)
  BY HeadTailProperties DEF Expiry!startJob, ExpiryInv, TypeInv
<1>2. UNCHANGED <<place, since, tier, deployed>> /\ queue' = Tail(queue)
  BY DEF Expiry!startJob
<1>3. CASE Expiry!skipped(t)
  <2>1. UNCHANGED worker
    BY <1>3 DEF Expiry!startJob
  <2>2. TypeInv'
    BY <1>1, <1>2, <2>1 DEF ExpiryInv, TypeInv
  <2> QED
    BY <1>2, <2>1, <2>2 DEF ExpiryInv, Expiry!Working, Decided, StillDue, Watched, Expiry!OfTier, Expiry!Trashed
<1>4. CASE ~ Expiry!skipped(t)
  <2> DEFINE result == [tier |-> t, step |-> "files", holds |-> TRUE, expired |-> {i \in Expiry!Items : Expiry!Expired(i, t)},
                     due |-> {i \in Expiry!Items : Expiry!Due(i, t)}, previous |-> {}, again |-> 0]
  <2>1. worker' = [worker EXCEPT ![w] = result]
    BY <1>4 DEF Expiry!startJob, Expiry!Unoccupied
  <2>2. result \in Run
    BY <1>1 DEF Run, ExpirySteps, Expiry!Limited
  <2>3. TypeInv'
    BY <1>1, <1>2, <2>1, <2>2 DEF ExpiryInv, TypeInv
  <2>4. worker'[w] = result /\ \A v \in Workers \ {w} : worker'[v] = worker[v]
    BY <2>1 DEF ExpiryInv, TypeInv
  <2>5. deployed >= retention[t]
    <3>1. retention[t] \in Nat /\ deployed \in Nat
      BY <1>1 DEF Expiry!Limited, Expiry!ExpiryConstants, ExpiryInv, TypeInv
    <3> QED
      BY <1>4, <3>1 DEF Expiry!skipped
  <2>6. Decided(w)'
    BY <1>1, <1>2, <2>4, <2>5 DEF Decided, Expiry!Expired, Expiry!Trashed
  <2>7. StillDue(w)'
    BY <1>2, <2>4 DEF StillDue, Expiry!OfTier, Expiry!Due
  <2>8. Watched(w)'
    BY <2>4 DEF Watched
  <2>9. ASSUME NEW v \in Workers \ {w}, Expiry!Working(v)'
        PROVE  Decided(v)' /\ StillDue(v)' /\ Watched(v)'
    <3>1. Decided(v) /\ StillDue(v) /\ Watched(v)
      BY <2>4, <2>9 DEF Expiry!Working, ExpiryInv
    <3> QED
      BY <1>2, <2>4, <3>1 DEF Decided, StillDue, Watched, Expiry!OfTier, Expiry!Trashed
  <2> QED
    BY <2>3, <2>6, <2>7, <2>8, <2>9 DEF ExpiryInv
<1> QED
  BY <1>3, <1>4

\* What a batch takes is old enough, and of users of the tier by now.
LEMMA BatchIsDue ==
    ASSUME Expiry!ExpiryConstants, ExpiryInv, NEW w \in Workers, worker[w].step \in {"files", "folders"},
           NEW i \in Expiry!Candidates(w)
    PROVE  /\ i \in Expiry!Items /\ Expiry!Due(i, tier[user[i]])
           /\ deployed >= retention[tier[user[i]]]
<1>1. worker[w] \in Run /\ Expiry!Working(w)
  BY DEF ExpiryInv, TypeInv, Expiry!Working
<1>2. Decided(w)
  BY <1>1 DEF ExpiryInv
<1>3. i \in worker[w].expired /\ i \in Expiry!Items /\ tier[user[i]] = worker[w].tier
  BY <1>1 DEF Expiry!Candidates, Expiry!OfTier, Run
<1> QED
  BY <1>2, <1>3 DEF Decided, Expiry!Due, Expiry!Expired, Expiry!Limited

\* A batch that is not full is all there was of its kind; what is watched is gone.
LEMMA DeleteExpiry ==
    ASSUME Expiry!ExpiryConstants, ExpiryInv, NEW w \in Workers, Expiry!deleteExpiredItems(w)
    PROVE  ExpiryInv'
<1>1. PICK batch \in SUBSET Expiry!Candidates(w) :
          /\ Cardinality(batch) = batchSize \/ (batch = Expiry!Candidates(w) /\ Cardinality(batch) < batchSize)
          /\ Expiry!Deletes(batch)
          /\ \E result \in Expiry!After(worker[w], batch, Expiry!StepAfter(w, batch)) :
                worker' = [v \in Workers |-> LET r == IF v = w THEN result ELSE worker[v]
                                             IN  [r EXCEPT !.expired = {i \in @ : place'[i] = "trash"},
                                                           !.due = {i \in @ : place'[i] = "trash"}]]
  BY SameCardinality DEF Expiry!deleteExpiredItems
<1>2. PICK result \in Expiry!After(worker[w], batch, Expiry!StepAfter(w, batch)) :
                worker' = [v \in Workers |-> LET r == IF v = w THEN result ELSE worker[v]
                                             IN  [r EXCEPT !.expired = {i \in @ : place'[i] = "trash"},
                                                           !.due = {i \in @ : place'[i] = "trash"}]]
  BY <1>1
<1> DEFINE old == worker[w]
<1>3. /\ old \in Run /\ Expiry!Working(w) /\ old.step \in {"files", "folders"}
      /\ Decided(w) /\ StillDue(w) /\ Watched(w)
  BY DEF Expiry!deleteExpiredItems, ExpiryInv, TypeInv, Expiry!Working
<1>4. batch \subseteq Expiry!Items /\ batch \subseteq old.expired /\ \A i \in batch : place[i] = "trash"
  BY <1>3 DEF Expiry!Candidates, Expiry!OfTier, Run, Decided, Expiry!Trashed
<1>5. UNCHANGED <<tier, deployed, queue>>
  BY DEF Expiry!deleteExpiredItems, Expiry!jobs
<1>6. \A i \in Expiry!Items : /\ place'[i] = IF i \in batch THEN "gone" ELSE place[i]
                       /\ since'[i] = IF i \in batch THEN 0 ELSE since[i]
  BY <1>1 DEF Expiry!Deletes
<1>7. /\ result \in Run
      /\ result.tier = old.tier /\ result.expired = old.expired /\ result.due = old.due /\ result.again = 0
      /\ result.step = Expiry!StepAfter(w, batch)
      /\ result.previous \subseteq batch
  <2>1. old.previous \cap batch = {}
    BY <1>3, <1>4 DEF Watched
  <2>2. Expiry!StepAfter(w, batch) \in ExpirySteps
    BY <1>3 DEF Expiry!StepAfter, Expiry!NextStep, ExpirySteps
  <2>3. CASE Expiry!StepAfter(w, batch) = old.step
    <3>1. PICK first \in batch : result = [old EXCEPT !.again = 0, !.previous = {first}]
      BY <1>2, <2>1, <2>3 DEF Expiry!After, Expiry!Watches
    <3>2. {first} \subseteq batch /\ {first} \subseteq Expiry!Items
      BY <1>4
    <3>3. /\ result.tier = old.tier /\ result.step = old.step /\ result.holds = old.holds
          /\ result.expired = old.expired /\ result.due = old.due
          /\ result.previous = {first} /\ result.again = 0
      BY <1>3, <3>1 DEF Run
    <3>4. result \in Run
      BY <1>3, <3>1, <3>2 DEF Run
    <3> QED
      BY <2>3, <3>2, <3>3, <3>4
  <2>4. CASE Expiry!StepAfter(w, batch) # old.step
    <3>1. result = [old EXCEPT !.step = Expiry!StepAfter(w, batch), !.previous = {}, !.again = 0]
      BY <1>2, <2>4 DEF Expiry!After
    <3> QED
      BY <1>3, <2>2, <3>1 DEF Run
  <2> QED
    BY <2>3, <2>4
<1>8. ASSUME NEW v \in Workers
      PROVE  LET r == IF v = w THEN result ELSE worker[v]
             IN  /\ r \in Run
                 /\ worker'[v] = [r EXCEPT !.expired = {i \in r.expired : place'[i] = "trash"},
                                           !.due = {i \in r.due : place'[i] = "trash"}]
  BY <1>2, <1>7 DEF ExpiryInv, TypeInv
<1>9. ASSUME NEW v \in Workers
      PROVE  LET r == IF v = w THEN result ELSE worker[v]
             IN  /\ worker'[v] \in Run
                 /\ worker'[v].expired = {i \in r.expired : place'[i] = "trash"}
                 /\ worker'[v].due = {i \in r.due : place'[i] = "trash"}
                 /\ worker'[v].tier = r.tier /\ worker'[v].step = r.step
                 /\ worker'[v].previous = r.previous /\ worker'[v].again = r.again
  <2> DEFINE r == IF v = w THEN result ELSE worker[v]
             E == {i \in r.expired : place'[i] = "trash"}
             D == {i \in r.due : place'[i] = "trash"}
  <2>1. r \in Run /\ worker'[v] = [r EXCEPT !.expired = E, !.due = D]
    BY <1>8
  <2>2. E \subseteq Expiry!Items /\ D \subseteq Expiry!Items
    BY <2>1 DEF Run
  <2> HIDE DEF r, E, D
  <2>3. /\ worker'[v] \in Run /\ worker'[v].expired = E /\ worker'[v].due = D
        /\ worker'[v].tier = r.tier /\ worker'[v].step = r.step
        /\ worker'[v].previous = r.previous /\ worker'[v].again = r.again
    BY <2>1, <2>2 DEF Run
  <2> QED
    BY <2>3 DEF r, E, D
<1>10. TypeInv'
  <2>1. place' \in [Expiry!Items -> {"drive", "trash", "gone"}] /\ since' \in [Expiry!Items -> Nat]
    BY <1>1 DEF Expiry!Deletes, ExpiryInv, TypeInv
  <2>2. worker' \in [Workers -> Run]
    BY <1>2, <1>9
  <2> QED
    BY <1>5, <2>1, <2>2 DEF ExpiryInv, TypeInv
<1>11. Expiry!Working(w)' => Decided(w)' /\ StillDue(w)' /\ Watched(w)'
  <2>1. Decided(w)'
    BY <1>3, <1>4, <1>5, <1>6, <1>7, <1>9 DEF Decided, Expiry!Trashed, Run
  <2>2. worker[w].due \subseteq Expiry!OfTier(w) /\ Expiry!OfTier(w) \subseteq Expiry!Items
    BY <1>3 DEF StillDue, Expiry!OfTier, Run
  <2>3. worker'[w].due \subseteq Expiry!OfTier(w)'
    BY <1>5, <1>7, <1>9, <2>2 DEF Expiry!OfTier
  <2>4. CASE result.step = old.step
    <3>1. worker'[w].step = old.step /\ worker'[w].due \subseteq old.due
      BY <1>7, <1>9, <2>4
    <3> QED
      BY <1>3, <1>6, <1>7, <1>9, <1>4, <2>1, <2>3, <3>1 DEF StillDue, Watched
  <2>5. CASE result.step # old.step
    <3>1. batch = Expiry!Candidates(w) /\ result.step = Expiry!NextStep(old.step)
      BY <1>1, <1>7, <2>5, SameCardinality DEF Expiry!StepAfter
    <3>2. \A i \in Expiry!OfTier(w) \cap Expiry!OfStep(old.step) : place'[i] = "gone"
      BY <1>6, <2>2, <3>1 DEF Expiry!Candidates
    <3>3. worker'[w].due \cap Expiry!OfStep(old.step) = {}
      BY <1>7, <1>9, <2>2, <3>2
    <3>4. worker'[w].step = Expiry!NextStep(old.step) /\ worker'[w].due \subseteq old.due
      BY <1>7, <1>9, <3>1
    <3>5. ASSUME old.step = "files" PROVE StillDue(w)'
      <4>1. worker'[w].step = "folders" /\ worker'[w].due \cap UserFiles = {}
        BY <3>3, <3>4, <3>5 DEF Expiry!NextStep, Expiry!OfStep
      <4> QED
        BY <2>3, <4>1 DEF StillDue
    <3>6. ASSUME old.step = "folders" PROVE StillDue(w)'
      <4>1. worker'[w].due \cap UserFiles = {} /\ worker'[w].due \cap UserFolders = {}
        BY <1>3, <3>3, <3>4, <3>6 DEF StillDue, Expiry!OfStep
      <4>2. worker'[w].due = {}
        BY <2>2, <3>4, <4>1 DEF Expiry!Items
      <4> QED
        BY <2>3, <4>2 DEF StillDue
    <3>7. StillDue(w)'
      BY <1>3, <3>5, <3>6
    <3>8. Watched(w)'
      BY <1>4, <1>6, <1>7, <1>9 DEF Watched
    <3> QED
      BY <2>1, <3>7, <3>8
  <2> QED
    BY <2>4, <2>5
<1>12. ASSUME NEW v \in Workers \ {w}, Expiry!Working(v)'
       PROVE  Decided(v)' /\ StillDue(v)' /\ Watched(v)'
  <2>1. /\ worker[v] \in Run
        /\ worker'[v].expired = {i \in worker[v].expired : place'[i] = "trash"}
        /\ worker'[v].due = {i \in worker[v].due : place'[i] = "trash"}
        /\ worker'[v].tier = worker[v].tier /\ worker'[v].step = worker[v].step
        /\ worker'[v].previous = worker[v].previous /\ worker'[v].again = worker[v].again
    BY <1>8, <1>9
  <2>2. Decided(v) /\ StillDue(v) /\ Watched(v)
    BY <1>12, <2>1 DEF Expiry!Working, ExpiryInv
  <2>3. Decided(v)'
    BY <1>5, <1>6, <2>1, <2>2 DEF Decided, Expiry!Trashed, Run
  <2>4. StillDue(v)'
    BY <1>5, <2>1, <2>2 DEF StillDue, Expiry!OfTier
  <2>5. Watched(v)'
    BY <1>6, <2>1, <2>2 DEF Watched, Run
  <2> QED
    BY <2>3, <2>4, <2>5
<1> QED
  BY <1>10, <1>11, <1>12 DEF ExpiryInv

\* A worker that is done, or whose hold lapses, decides nothing; its tier may wait again.
LEMMA LeaveExpiry ==
    ASSUME Expiry!ExpiryConstants, ExpiryInv, NEW w \in Workers,
           Expiry!markAsCompleted(w) \/ Expiry!markAsFailed(w) \/ Expiry!stalled(w)
    PROVE  ExpiryInv'
<1>1. Expiry!Working(w) /\ Decided(w)
  BY DEF Expiry!markAsCompleted, Expiry!markAsFailed, Expiry!stalled, Expiry!Working, ExpiryInv
<1>2. UNCHANGED <<place, since, tier, deployed>>
  BY DEF Expiry!markAsCompleted, Expiry!markAsFailed, Expiry!stalled
<1>3. queue' \in Seq(Expiry!Limited)
  <2>1. queue \in Seq(Expiry!Limited)
    BY DEF ExpiryInv, TypeInv
  <2>2. Append(queue, worker[w].tier) \in Seq(Expiry!Limited)
    BY <1>1, <2>1, AppendProperties DEF Decided
  <2>3. queue' = queue \/ queue' = Append(queue, worker[w].tier)
    BY DEF Expiry!markAsCompleted, Expiry!markAsFailed, Expiry!stalled, Expiry!Removes, Expiry!Throws, Expiry!Waits, Expiry!jobs
  <2> QED
    BY <2>1, <2>2, <2>3
<1>4. worker' = [worker EXCEPT ![w] = Expiry!Unoccupied] \/ worker' = [worker EXCEPT ![w].holds = FALSE]
  BY DEF Expiry!markAsCompleted, Expiry!markAsFailed, Expiry!stalled
<1>5. /\ worker' \in [Workers -> Run]
      /\ \A v \in Workers \ {w} : worker'[v] = worker[v]
      /\ \/ worker'[w] = Expiry!Unoccupied
         \/ worker'[w] = [worker[w] EXCEPT !.holds = FALSE]
  <2>1. worker[w] \in Run /\ worker \in [Workers -> Run]
    BY DEF ExpiryInv, TypeInv
  <2>2. [worker[w] EXCEPT !.holds = FALSE] \in Run
    BY <2>1 DEF Run
  <2> QED
    BY <1>4, <2>1, <2>2, UnoccupiedType
<1>6. TypeInv'
  BY <1>2, <1>3, <1>5 DEF ExpiryInv, TypeInv
<1>7. ASSUME NEW v \in Workers, Expiry!Working(v)'
      PROVE  Decided(v)' /\ StillDue(v)' /\ Watched(v)'
  <2>1. /\ worker'[v].tier = worker[v].tier /\ worker'[v].step = worker[v].step
        /\ worker'[v].expired = worker[v].expired /\ worker'[v].due = worker[v].due
        /\ worker'[v].previous = worker[v].previous /\ worker'[v].again = worker[v].again
    BY <1>5, <1>7, UnoccupiedType DEF Expiry!Working, ExpiryInv, TypeInv, Run
  <2>2. Decided(v) /\ StillDue(v) /\ Watched(v)
    BY <1>7, <2>1 DEF Expiry!Working, ExpiryInv
  <2> QED
    BY <1>2, <2>1, <2>2 DEF Decided, StillDue, Watched, Expiry!OfTier, Expiry!Trashed
<1> QED
  BY <1>6, <1>7 DEF ExpiryInv

----------------------------------------------------------------------------
(* Steps.                                                                  *)

LEMMA ExpiryStep == Expiry!ExpiryConstants /\ ExpiryInv /\ [Expiry!Next]_(Expiry!expiryVars) => ExpiryInv'
<1> SUFFICES ASSUME Expiry!ExpiryConstants, ExpiryInv, [Expiry!Next]_(Expiry!expiryVars) PROVE ExpiryInv'
  OBVIOUS
<1>1. CASE Expiry!User
  <2>1. ASSUME NEW i \in Expiry!Items, Expiry!moveItemToTrash(i) PROVE ExpiryInv'
    BY <2>1, PutExpiry DEF Expiry!moveItemToTrash
  <2>2. ASSUME NEW i \in Expiry!Items, Expiry!restoreItem(i) PROVE ExpiryInv'
    BY <2>2, PutExpiry DEF Expiry!restoreItem, Expiry!Trashed
  <2>3. ASSUME NEW i \in Expiry!Items, Expiry!updateItem(i) PROVE ExpiryInv'
    BY <2>3, PutExpiry DEF Expiry!updateItem, Expiry!Trashed
  <2>4. ASSUME NEW u \in Users, NEW t \in Tiers, Expiry!updateUserTier(u, t) PROVE ExpiryInv'
    BY <2>4, TierExpiry
  <2> QED
    BY <1>1, <2>1, <2>2, <2>3, <2>4 DEF Expiry!User
<1>2. CASE Expiry!Tick
  BY <1>2, TickExpiry
<1>3. ASSUME NEW w \in Workers, Expiry!WorkerStep(w) \/ Expiry!markAsFailed(w) \/ Expiry!stalled(w) PROVE ExpiryInv'
  BY <1>3, StartExpiry, DeleteExpiry, LeaveExpiry DEF Expiry!WorkerStep
<1>4. CASE UNCHANGED Expiry!expiryVars
  BY <1>4 DEF Expiry!expiryVars, ExpiryInv, TypeInv, Expiry!Working, Decided, StillDue, Watched, Expiry!OfTier, Expiry!Trashed
<1> QED
  BY <1>1, <1>2, <1>3, <1>4 DEF Expiry!Next

LEMMA ExpiryInvariant == Expiry!ExpiryConstants => (Expiry!Spec => [](Expiry!ExpiryConstants /\ ExpiryInv))
<1>1. Expiry!ExpiryConstants /\ Expiry!Init => ExpiryInv
  BY InitExpiry
<1>2. Expiry!ExpiryConstants /\ ExpiryInv /\ [Expiry!Next]_(Expiry!expiryVars) => (Expiry!ExpiryConstants /\ ExpiryInv)'
  BY ExpiryStep DEF Expiry!ExpiryConstants, Expiry!Items, Expiry!Limited, Expiry!None
<1> QED
  BY <1>1, <1>2, PTL DEF Expiry!Spec

\* A step that takes an item takes it in a batch.
LEMMA TakenInBatch ==
    ASSUME Expiry!ExpiryConstants, ExpiryInv, [Expiry!Next]_(Expiry!expiryVars), NEW i \in Expiry!Items, Expiry!Trashed(i), place'[i] = "gone"
    PROVE  \E w \in Workers : worker[w].step \in {"files", "folders"} /\ i \in Expiry!Candidates(w)
<1>1. ~ Expiry!Tick /\ ~ UNCHANGED place
  BY DEF Expiry!Tick, Expiry!Trashed
<1>2. ASSUME NEW k \in Expiry!Items, NEW to \in {"drive", "trash"}, Expiry!Put(k, to) PROVE FALSE
  BY <1>2 DEF Expiry!Put, Expiry!Trashed, ExpiryInv, TypeInv
<1>3. ~ Expiry!User
  BY <1>1, <1>2 DEF Expiry!User, Expiry!moveItemToTrash, Expiry!restoreItem, Expiry!updateItem, Expiry!updateUserTier
<1>4. PICK w \in Workers : Expiry!deleteExpiredItems(w)
  BY <1>1, <1>3 DEF Expiry!Next, Expiry!WorkerStep, Expiry!startJob, Expiry!markAsCompleted, Expiry!markAsFailed, Expiry!stalled, Expiry!expiryVars
<1>5. PICK batch \in SUBSET Expiry!Candidates(w) : Expiry!Deletes(batch)
  BY <1>4 DEF Expiry!deleteExpiredItems
<1>6. i \in batch
  BY <1>5 DEF Expiry!Deletes, Expiry!Trashed
<1> QED
  BY <1>4, <1>6 DEF Expiry!deleteExpiredItems

\* Whatever is trashed, restored and written, whoever changes the tier, and whatever jobs fail, are lost or
\* done twice: nothing is taken from the trash before it has been there for as long as the tier says that
\* its user has by then, nor for as long since the job was deployed (trash-cleanup.processor.ts, the
\* queries of file.repository.ts and folder.repository.ts).
THEOREM NothingIsTakenEarly == Expiry!ExpiryConstants => (Expiry!Spec => [][Expiry!NothingTakenEarly]_(Expiry!expiryVars))
<1>1. Expiry!ExpiryConstants /\ ExpiryInv /\ [Expiry!Next]_(Expiry!expiryVars) => Expiry!NothingTakenEarly
  <2> SUFFICES ASSUME Expiry!ExpiryConstants, ExpiryInv, [Expiry!Next]_(Expiry!expiryVars), NEW i \in Expiry!Items, Expiry!Trashed(i), place'[i] = "gone"
               PROVE  Expiry!Due(i, tier[user[i]]) /\ deployed >= retention[tier[user[i]]]
    BY DEF Expiry!NothingTakenEarly
  <2>1. PICK w \in Workers : worker[w].step \in {"files", "folders"} /\ i \in Expiry!Candidates(w)
    BY TakenInBatch
  <2> QED
    BY <2>1, BatchIsDue
<1> QED
  BY <1>1, ExpiryInvariant, PTL DEF Expiry!Spec

\* Where a run for a tier is recorded as completed, everything that had expired when it began, and whose
\* user still has the tier, is gone from the trash: however many workers share the job, and however large
\* the batches are.  No uuid comes in two batches one after the other, so that no worker gives up.
THEOREM RunsAreComplete == Expiry!ExpiryConstants => (Expiry!Spec => [](Expiry!CompletedMeansEmptied /\ Expiry!SameUuidNeverRepeats))
<1>1. ExpiryInv => Expiry!CompletedMeansEmptied
  BY DEF ExpiryInv, Expiry!CompletedMeansEmptied, Expiry!Working, StillDue
<1>2. ExpiryInv => Expiry!SameUuidNeverRepeats
  BY DEF ExpiryInv, TypeInv, Run, Expiry!SameUuidNeverRepeats
<1> QED
  BY <1>1, <1>2, ExpiryInvariant, PTL

----------------------------------------------------------------------------
(* The jobs of the tiers.                                                  *)

\* Jobs wait in some order, and t's is one of them.
Once(q) == \A k, l \in DOMAIN q : q[k] = q[l] => k = l

InQueue(q, t) == \E k \in DOMAIN q : q[k] = t

Holds(w, t) == Expiry!Working(w) /\ worker[w].holds /\ worker[w].tier = t

\* The queue knows of the job of a tier when it waits or a worker holds it, and it does not do so twice.
HeldOf(t) ==
    /\ Expiry!Known(t) => jobOf[t].attempt > 0
    /\ \A w, v \in Workers : Holds(w, t) /\ Holds(v, t) => w = v
    /\ \A w \in Workers : Holds(w, t) => ~ InQueue(queue, t)
    /\ Expiry!Known(t) <=> InQueue(queue, t) \/ \E w \in Workers : Holds(w, t)

HeldInv ==
    /\ jobOf \in [Tiers -> [attempt : Nat, stalled : Nat]]
    /\ Once(queue)
    /\ \A t \in Tiers : HeldOf(t)

\* Of a tier that a step does not touch.
LEMMA SameHeld ==
    ASSUME NEW t, HeldOf(t), jobOf'[t] = jobOf[t], InQueue(queue', t) <=> InQueue(queue, t),
           \A w \in Workers : Holds(w, t)' <=> Holds(w, t)
    PROVE  HeldOf(t)'
BY DEF HeldOf, Expiry!Known

LEMMA AppendOnce ==
    ASSUME NEW S, NEW q \in Seq(S), NEW t \in S, Once(q), ~ InQueue(q, t)
    PROVE  /\ Once(Append(q, t))
           /\ \A u : InQueue(Append(q, t), u) <=> InQueue(q, u) \/ u = t
<1> DEFINE a == Append(q, t)
<1>1. /\ Len(q) \in Nat /\ DOMAIN q = 1 .. Len(q)
      /\ DOMAIN a = 1 .. (Len(q) + 1)
      /\ \A k \in 1 .. Len(q) : a[k] = q[k]
      /\ a[Len(q) + 1] = t
  BY LenProperties, AppendProperties
<1> HIDE DEF a
<1>2. \A k \in DOMAIN a : k \in DOMAIN q \/ k = Len(q) + 1
  BY <1>1
<1>3. Once(a)
  BY <1>1, <1>2 DEF Once, InQueue
<1>4. \A u : InQueue(a, u) <=> InQueue(q, u) \/ u = t
  <2>1. Len(q) + 1 \in DOMAIN a /\ DOMAIN q \subseteq DOMAIN a
    BY <1>1
  <2> QED BY <1>1, <1>2, <2>1 DEF InQueue
<1> QED BY <1>3, <1>4 DEF a

LEMMA TailOnce ==
    ASSUME NEW S, NEW q \in Seq(S), q # <<>>, Once(q)
    PROVE  /\ Once(Tail(q)) /\ Head(q) \in S /\ InQueue(q, Head(q))
           /\ \A u : InQueue(Tail(q), u) <=> InQueue(q, u) /\ u # Head(q)
<1> DEFINE r == Tail(q)
<1>1. /\ Len(q) \in Nat /\ DOMAIN q = 1 .. Len(q) /\ Len(q) > 0
      /\ r \in Seq(S) /\ Len(r) = Len(q) - 1 /\ DOMAIN r = 1 .. (Len(q) - 1)
      /\ \A k \in 1 .. (Len(q) - 1) : r[k] = q[k + 1]
      /\ Head(q) \in S /\ Head(q) = q[1]
  <2>1. Len(q) \in Nat /\ DOMAIN q = 1 .. Len(q)
    BY LenProperties
  <2>2. Len(q) > 0
    BY <2>1, EmptySeq
  <2>3. /\ r \in Seq(S) /\ Len(r) = Len(q) - 1 /\ Head(q) \in S
        /\ \A k \in 1 .. Len(r) : r[k] = q[k + 1]
    BY HeadTailProperties
  <2>4. DOMAIN r = 1 .. Len(r)
    BY <2>3, LenProperties
  <2> QED BY <2>1, <2>2, <2>3, <2>4
<1> HIDE DEF r
<1>2. \A k \in DOMAIN r : k + 1 \in DOMAIN q /\ k + 1 # 1 /\ r[k] = q[k + 1]
  BY <1>1
<1>3. 1 \in DOMAIN q /\ \A k \in DOMAIN q : k # 1 => k - 1 \in DOMAIN r /\ r[k - 1] = q[k]
  <2>1. ASSUME NEW k \in DOMAIN q, k # 1 PROVE k - 1 \in 1 .. (Len(q) - 1) /\ (k - 1) + 1 = k
    BY <1>1, <2>1
  <2>2. 1 \in DOMAIN q
    BY <1>1
  <2> QED BY <1>1, <2>1, <2>2
<1>4. Once(r)
  <2> SUFFICES ASSUME NEW k \in DOMAIN r, NEW l \in DOMAIN r, r[k] = r[l] PROVE k = l
    BY DEF Once
  <2>1. k + 1 = l + 1
    BY <1>2 DEF Once
  <2>2. k \in Nat /\ l \in Nat
    BY <1>1
  <2> QED BY <2>1, <2>2
<1>5. ASSUME NEW u PROVE InQueue(r, u) <=> InQueue(q, u) /\ u # Head(q)
  <2>1. ASSUME InQueue(r, u) PROVE InQueue(q, u) /\ u # Head(q)
    <3>1. PICK k \in DOMAIN r : r[k] = u
      BY <2>1 DEF InQueue
    <3>2. k + 1 \in DOMAIN q /\ q[k + 1] = u /\ k + 1 # 1
      BY <1>2, <3>1
    <3>3. q[k + 1] # q[1]
      BY <1>3, <3>2 DEF Once
    <3> QED BY <1>1, <3>2, <3>3 DEF InQueue
  <2>2. ASSUME InQueue(q, u), u # Head(q) PROVE InQueue(r, u)
    <3>1. PICK k \in DOMAIN q : q[k] = u
      BY <2>2 DEF InQueue
    <3>2. k - 1 \in DOMAIN r /\ r[k - 1] = u
      BY <1>1, <1>3, <2>2, <3>1
    <3> QED BY <3>2 DEF InQueue
  <2> QED BY <2>1, <2>2
<1>6. InQueue(q, Head(q))
  BY <1>1, <1>3 DEF InQueue
<1> QED BY <1>1, <1>4, <1>5, <1>6 DEF r

\* The order in which jobs are added has each of them: as many places as jobs, and no job in two.
LEMMA OrderIsComplete ==
    ASSUME NEW A, IsFiniteSet(A), NEW o \in [1 .. Cardinality(A) -> A],
           \A p, q \in DOMAIN o : o[p] = o[q] => p = q
    PROVE  o \in Seq(A) /\ Len(o) = Cardinality(A) /\ \A t \in A : InQueue(o, t)
<1>1. Cardinality(A) \in Nat
  BY FS_CardinalityType
<1>2. o \in Seq(A) /\ Len(o) = Cardinality(A) /\ DOMAIN o = 1 .. Cardinality(A)
  BY <1>1
<1>3. IsFiniteSet(1 .. Cardinality(A)) /\ Cardinality(1 .. Cardinality(A)) = Cardinality(A)
  BY <1>1, FS_Interval
<1>4. o \in Injection(1 .. Cardinality(A), A)
  BY DEF Injection, IsInjective
<1>5. o \in Surjection(1 .. Cardinality(A), A)
  BY <1>3, <1>4, FS_Injection
<1> QED BY <1>2, <1>5 DEF InQueue, Surjection

LEMMA ConcatOnce ==
    ASSUME NEW S, NEW q \in Seq(S), NEW o \in Seq(S), Once(q), Once(o),
           \A u : ~ (InQueue(q, u) /\ InQueue(o, u))
    PROVE  Once(q \o o) /\ \A u : InQueue(q \o o, u) <=> InQueue(q, u) \/ InQueue(o, u)
<1> DEFINE c == q \o o
<1>1. /\ Len(q) \in Nat /\ DOMAIN q = 1 .. Len(q) /\ Len(o) \in Nat /\ DOMAIN o = 1 .. Len(o)
      /\ DOMAIN c = 1 .. (Len(q) + Len(o))
      /\ \A k \in 1 .. (Len(q) + Len(o)) : c[k] = IF k <= Len(q) THEN q[k] ELSE o[k - Len(q)]
  BY LenProperties, ConcatProperties
<1> HIDE DEF c
<1>2. \A k \in DOMAIN c : \/ k \in DOMAIN q /\ c[k] = q[k]
                          \/ k - Len(q) \in DOMAIN o /\ c[k] = o[k - Len(q)]
  BY <1>1
<1>3. /\ \A k \in DOMAIN q : k \in DOMAIN c /\ c[k] = q[k]
      /\ \A k \in DOMAIN o : k + Len(q) \in DOMAIN c /\ c[k + Len(q)] = o[k]
  BY <1>1
<1>4. Once(c)
  <2> SUFFICES ASSUME NEW k \in DOMAIN c, NEW l \in DOMAIN c, c[k] = c[l] PROVE k = l
    BY DEF Once
  <2>1. ~ (k \in DOMAIN q /\ c[k] = q[k] /\ l - Len(q) \in DOMAIN o /\ c[l] = o[l - Len(q)])
    BY DEF InQueue
  <2>2. ~ (l \in DOMAIN q /\ c[l] = q[l] /\ k - Len(q) \in DOMAIN o /\ c[k] = o[k - Len(q)])
    BY DEF InQueue
  <2>3. CASE k \in DOMAIN q /\ c[k] = q[k] /\ l \in DOMAIN q /\ c[l] = q[l]
    BY <2>3 DEF Once
  <2>4. CASE /\ k - Len(q) \in DOMAIN o /\ c[k] = o[k - Len(q)]
             /\ l - Len(q) \in DOMAIN o /\ c[l] = o[l - Len(q)]
    <3>1. k - Len(q) = l - Len(q)
      BY <2>4 DEF Once
    <3>2. k \in Int /\ l \in Int
      BY <1>1
    <3> QED BY <1>1, <3>1, <3>2
  <2> QED BY <1>2, <2>1, <2>2, <2>3, <2>4
<1>5. \A u : InQueue(c, u) <=> InQueue(q, u) \/ InQueue(o, u)
  BY <1>2, <1>3 DEF InQueue
<1> QED BY <1>4, <1>5 DEF c

\* Steps that leave the jobs, and let every worker keep what it holds.
LEMMA KeepHeld ==
    ASSUME HeldInv, UNCHANGED Expiry!jobs, \A t \in Tiers, w \in Workers : Holds(w, t)' <=> Holds(w, t)
    PROVE  HeldInv'
BY SameHeld DEF HeldInv, Expiry!jobs

\* A batch takes items away from workers, and no job; nobody's run ends with it.
LEMMA BatchLeavesRuns ==
    ASSUME ExpiryInv, NEW v \in Workers, Expiry!deleteExpiredItems(v), NEW w \in Workers
    PROVE  /\ worker'[w].holds = worker[w].holds /\ worker'[w].tier = worker[w].tier
           /\ Expiry!Working(w)' <=> Expiry!Working(w)
<1>0. \A x \in Workers : worker[x] \in Run
  BY DEF ExpiryInv, TypeInv
<1>1. PICK batch : \E result \in Expiry!After(worker[v], batch, Expiry!StepAfter(v, batch)) :
         worker' = [x \in Workers |-> LET r == IF x = v THEN result ELSE worker[x]
                                      IN  [r EXCEPT !.expired = {i \in @ : place'[i] = "trash"},
                                                    !.due = {i \in @ : place'[i] = "trash"}]]
  BY DEF Expiry!deleteExpiredItems
<1>2. PICK result \in Expiry!After(worker[v], batch, Expiry!StepAfter(v, batch)) :
         worker' = [x \in Workers |-> LET r == IF x = v THEN result ELSE worker[x]
                                      IN  [r EXCEPT !.expired = {i \in @ : place'[i] = "trash"},
                                                    !.due = {i \in @ : place'[i] = "trash"}]]
  BY <1>1
<1>3. Expiry!StepAfter(v, batch) \in {"files", "folders", "done"} /\ worker[v].step \in {"files", "folders"}
  BY DEF Expiry!StepAfter, Expiry!NextStep, Expiry!deleteExpiredItems
<1>4. /\ result.holds = worker[v].holds /\ result.tier = worker[v].tier
      /\ result.step \in {"files", "folders", "done"}
      /\ {"holds", "tier", "step"} \subseteq DOMAIN result
  <2> DEFINE old == worker[v]
  <2>1. old \in Run
    BY <1>0
  <2>2. CASE Expiry!StepAfter(v, batch) = old.step
    <3>1. \/ result = [old EXCEPT !.again = @ + 1]
          \/ \E first \in batch : result = [old EXCEPT !.again = 0, !.previous = {first}]
      BY <1>2, <2>2 DEF Expiry!After, Expiry!Watches
    <3>2. CASE result = [old EXCEPT !.again = @ + 1]
      BY <1>3, <2>1, <3>2 DEF Run
    <3>3. CASE \E first \in batch : result = [old EXCEPT !.again = 0, !.previous = {first}]
      <4>1. PICK first : result = [old EXCEPT !.again = 0, !.previous = {first}]
        BY <3>3
      <4> QED BY <1>3, <2>1, <4>1 DEF Run
    <3> QED BY <3>1, <3>2, <3>3
  <2>3. CASE Expiry!StepAfter(v, batch) # old.step
    <3>1. result = [old EXCEPT !.step = Expiry!StepAfter(v, batch), !.previous = {}, !.again = 0]
      BY <1>2, <2>3 DEF Expiry!After
    <3> QED BY <1>3, <2>1, <3>1 DEF Run
  <2> QED BY <2>2, <2>3
<1>5. PICK r, E, D : /\ r = IF w = v THEN result ELSE worker[w]
                     /\ worker'[w] = [r EXCEPT !.expired = E, !.due = D]
  BY <1>2
<1>6. worker'[w].holds = r.holds /\ worker'[w].tier = r.tier /\ worker'[w].step = r.step
  BY <1>0, <1>4, <1>5 DEF Run
<1> QED BY <1>0, <1>3, <1>4, <1>5, <1>6 DEF Expiry!Working

\* Users and batches take items away from workers, not jobs.
LEMMA ItemsHeld ==
    ASSUME ExpiryInv, HeldInv, Expiry!User \/ (\E w \in Workers : Expiry!deleteExpiredItems(w))
    PROVE  HeldInv'
<1>1. UNCHANGED Expiry!jobs
  BY DEF Expiry!User, Expiry!moveItemToTrash, Expiry!restoreItem, Expiry!updateItem, Expiry!Put, Expiry!updateUserTier, Expiry!deleteExpiredItems, Expiry!jobs
<1>2. \A w \in Workers : worker[w] \in Run
  BY DEF ExpiryInv, TypeInv
<1>3. ASSUME Expiry!User, NEW t \in Tiers, NEW w \in Workers PROVE Holds(w, t)' <=> Holds(w, t)
  <2>1. \/ \E i : worker'[w] = [worker[w] EXCEPT !.expired = @ \ {i}, !.due = @ \ {i}]
        \/ \E D : worker'[w] = [worker[w] EXCEPT !.due = D]
    <3>1. ASSUME NEW i \in Expiry!Items, NEW to, Expiry!Put(i, to)
          PROVE  worker'[w] = [worker[w] EXCEPT !.expired = @ \ {i}, !.due = @ \ {i}]
      BY <3>1 DEF Expiry!Put, Expiry!Touched
    <3>2. ASSUME NEW u \in Users, NEW s \in Tiers, Expiry!updateUserTier(u, s)
          PROVE  worker'[w] = [worker[w] EXCEPT !.due = {i \in @ : user[i] # u}]
      BY <3>2 DEF Expiry!updateUserTier
    <3> QED BY <1>3, <3>1, <3>2 DEF Expiry!User, Expiry!moveItemToTrash, Expiry!restoreItem, Expiry!updateItem
  <2>2. /\ worker'[w].holds = worker[w].holds /\ worker'[w].tier = worker[w].tier
        /\ worker'[w].step = worker[w].step
    BY <1>2, <2>1 DEF Run
  <2> QED BY <2>2 DEF Holds, Expiry!Working
<1>4. ASSUME NEW v \in Workers, Expiry!deleteExpiredItems(v), NEW t \in Tiers, NEW w \in Workers
      PROVE  Holds(w, t)' <=> Holds(w, t)
  BY <1>4, BatchLeavesRuns DEF Holds
<1> QED BY <1>1, <1>3, <1>4, KeepHeld

\* What becomes of the job of a worker's tier: it waits again or is forgotten.
LEMMA LeaveHeld ==
    ASSUME ExpiryInv, HeldInv, NEW w \in Workers,
           Expiry!markAsCompleted(w) \/ Expiry!markAsFailed(w) \/ Expiry!stalled(w)
    PROVE  HeldInv'
<1> PICK t : t = worker[w].tier
  OBVIOUS
<1>1. Expiry!Working(w) /\ t \in Expiry!Limited /\ t \in Tiers /\ worker[w] \in Run /\ queue \in Seq(Expiry!Limited)
  BY DEF Expiry!markAsCompleted, Expiry!markAsFailed, Expiry!stalled, Expiry!Working, ExpiryInv, Decided, Expiry!Limited, TypeInv
<1>2. \A v \in Workers \ {w}, s \in Tiers : Holds(v, s)' <=> Holds(v, s)
  BY DEF Expiry!markAsCompleted, Expiry!markAsFailed, Expiry!stalled, Holds, Expiry!Working, ExpiryInv, TypeInv
<1>3. \A s \in Tiers : ~ Holds(w, s)'
  <2>1. worker'[w] = Expiry!Unoccupied \/ worker'[w] = [worker[w] EXCEPT !.holds = FALSE]
    BY DEF Expiry!markAsCompleted, Expiry!markAsFailed, Expiry!stalled, ExpiryInv, TypeInv
  <2> QED BY <1>1, <2>1 DEF Holds, Expiry!Working, Expiry!Unoccupied, Run
<1>4. CASE ~ worker[w].holds
  <2>1. UNCHANGED Expiry!jobs
    BY <1>4 DEF Expiry!markAsCompleted, Expiry!markAsFailed, Expiry!stalled
  <2>2. \A s \in Tiers : ~ Holds(w, s)
    BY <1>4 DEF Holds
  <2> QED BY <1>2, <1>3, <2>1, <2>2, KeepHeld
<1>5. CASE worker[w].holds
  <2>1. Holds(w, t) /\ Expiry!Known(t) /\ ~ InQueue(queue, t) /\ jobOf[t] \in [attempt : Nat, stalled : Nat]
    <3>1. Holds(w, t) /\ HeldOf(t)
      BY <1>1, <1>5 DEF Holds, HeldInv
    <3>2. jobOf[t] \in [attempt : Nat, stalled : Nat]
      BY <1>1 DEF HeldInv
    <3> QED BY <3>1, <3>2 DEF HeldOf
  <2>2. \A v \in Workers : ~ Holds(v, t)'
    BY <1>1, <1>2, <1>3, <2>1 DEF HeldInv, HeldOf
  <2>3. \A s \in Tiers \ {t}, v \in Workers : Holds(v, s)' <=> Holds(v, s)
    BY <1>2, <1>3 DEF Holds
  <2>4. \/ Expiry!Removes(t, "completed") \/ Expiry!Removes(t, "failed")
        \/ \E j : Expiry!Waits(t, j) /\ j \in [attempt : Nat, stalled : Nat] /\ j.attempt > 0
    <3>1. jobOf[t].attempt > 0
      BY <1>1, <2>1 DEF HeldInv, HeldOf
    <3>2. PICK j1, j2 : /\ j1 = [jobOf[t] EXCEPT !.attempt = @ + 1]
                        /\ j2 = [jobOf[t] EXCEPT !.stalled = @ + 1]
      OBVIOUS
    <3>3. /\ j1 \in [attempt : Nat, stalled : Nat] /\ j1.attempt > 0
          /\ j2 \in [attempt : Nat, stalled : Nat] /\ j2.attempt > 0
      BY <2>1, <3>1, <3>2
    <3>4. Expiry!Removes(t, "completed") \/ Expiry!Removes(t, "failed") \/ Expiry!Waits(t, j1) \/ Expiry!Waits(t, j2)
      BY <1>5, <3>2 DEF Expiry!markAsCompleted, Expiry!markAsFailed, Expiry!stalled, Expiry!Throws
    <3> QED BY <3>3, <3>4
  <2>5. CASE Expiry!Removes(t, "completed") \/ Expiry!Removes(t, "failed")
    <3>1. queue' = queue /\ jobOf' = [jobOf EXCEPT ![t] = Expiry!NoJob]
      BY <2>5 DEF Expiry!Removes
    <3>2. Expiry!NoJob \in [attempt : Nat, stalled : Nat] /\ jobOf \in [Tiers -> [attempt : Nat, stalled : Nat]]
      BY DEF Expiry!NoJob, HeldInv
    <3>3. jobOf' \in [Tiers -> [attempt : Nat, stalled : Nat]] /\ jobOf'[t] = Expiry!NoJob
          /\ \A s \in Tiers \ {t} : jobOf'[s] = jobOf[s]
      BY <1>1, <3>1, <3>2
    <3>4. HeldOf(t)'
      BY <2>1, <2>2, <3>1, <3>3 DEF HeldOf, Expiry!Known
    <3>5. \A s \in Tiers \ {t} : HeldOf(s)'
      BY <2>3, <3>1, <3>3, SameHeld DEF HeldInv
    <3> QED BY <3>1, <3>3, <3>4, <3>5 DEF HeldInv
  <2>6. CASE \E j : Expiry!Waits(t, j) /\ j \in [attempt : Nat, stalled : Nat] /\ j.attempt > 0
    <3>1. PICK j : Expiry!Waits(t, j) /\ j \in [attempt : Nat, stalled : Nat] /\ j.attempt > 0
      BY <2>6
    <3>2. queue' = Append(queue, t) /\ jobOf' = [jobOf EXCEPT ![t] = j]
      BY <3>1 DEF Expiry!Waits
    <3>3. jobOf' \in [Tiers -> [attempt : Nat, stalled : Nat]] /\ jobOf'[t] = j
          /\ \A s \in Tiers \ {t} : jobOf'[s] = jobOf[s]
      BY <1>1, <3>1, <3>2 DEF HeldInv
    <3>4. Once(queue') /\ \A u : InQueue(queue', u) <=> InQueue(queue, u) \/ u = t
      BY <1>1, <2>1, <3>2, AppendOnce DEF HeldInv
    <3>5. j # Expiry!NoJob
      BY <3>1 DEF Expiry!NoJob
    <3>6. HeldOf(t)'
      BY <2>2, <3>1, <3>3, <3>4, <3>5 DEF HeldOf, Expiry!Known
    <3>7. \A s \in Tiers \ {t} : HeldOf(s)'
      BY <2>3, <3>3, <3>4, SameHeld DEF HeldInv
    <3> QED BY <3>3, <3>4, <3>6, <3>7 DEF HeldInv
  <2> QED BY <2>4, <2>5, <2>6
<1> QED BY <1>4, <1>5

\* The job at the head of the queue is the worker's from then on, or is skipped.
LEMMA StartHeld ==
    ASSUME ExpiryInv, HeldInv, NEW w \in Workers, Expiry!startJob(w) PROVE HeldInv'
<1> PICK t : t = Head(queue)
  OBVIOUS
<1>1. ~ Expiry!Working(w) /\ queue # <<>> /\ queue' = Tail(queue) /\ queue \in Seq(Expiry!Limited)
  BY DEF Expiry!startJob, ExpiryInv, TypeInv
<1>2. /\ t \in Expiry!Limited /\ t \in Tiers /\ InQueue(queue, t) /\ Once(queue')
      /\ \A u : InQueue(queue', u) <=> InQueue(queue, u) /\ u # t
  BY <1>1, TailOnce DEF HeldInv, Expiry!Limited
<1>3. /\ Expiry!Known(t) /\ \A v \in Workers : ~ Holds(v, t)
      /\ \A s \in Tiers : ~ Holds(w, s)
  <2>1. HeldOf(t)
    BY <1>2 DEF HeldInv
  <2>2. \A s \in Tiers : ~ Holds(w, s)
    BY <1>1 DEF Holds
  <2> QED BY <1>2, <2>1, <2>2 DEF HeldOf
<1>4. CASE Expiry!skipped(t)
  <2>1. jobOf' = [jobOf EXCEPT ![t] = Expiry!NoJob] /\ UNCHANGED worker
    BY <1>4 DEF Expiry!startJob
  <2>2. Expiry!NoJob \in [attempt : Nat, stalled : Nat] /\ jobOf \in [Tiers -> [attempt : Nat, stalled : Nat]]
    BY DEF Expiry!NoJob, HeldInv
  <2>3. jobOf' \in [Tiers -> [attempt : Nat, stalled : Nat]] /\ jobOf'[t] = Expiry!NoJob
        /\ \A s \in Tiers \ {t} : jobOf'[s] = jobOf[s]
    BY <1>2, <2>1, <2>2
  <2>4. \A v \in Workers, s \in Tiers : Holds(v, s)' <=> Holds(v, s)
    BY <2>1 DEF Holds, Expiry!Working
  <2>5. HeldOf(t)'
    BY <1>2, <1>3, <2>3, <2>4 DEF HeldOf, Expiry!Known
  <2>6. \A s \in Tiers \ {t} : HeldOf(s)'
    BY <1>2, <2>3, <2>4, SameHeld DEF HeldInv
  <2> QED BY <1>2, <2>3, <2>5, <2>6 DEF HeldInv
<1>5. CASE ~ Expiry!skipped(t)
  <2>1. PICK r : /\ worker' = [worker EXCEPT ![w] = r] /\ r.tier = t /\ r.step = "files" /\ r.holds
    <3>1. PICK r, E, D : /\ r = [Expiry!Unoccupied EXCEPT !.tier = t, !.step = "files", !.holds = TRUE, !.expired = E, !.due = D]
                         /\ worker' = [worker EXCEPT ![w] = r]
      BY <1>5 DEF Expiry!startJob
    <3>2. r.tier = t /\ r.step = "files" /\ r.holds
      BY <3>1 DEF Expiry!Unoccupied
    <3> QED BY <3>1, <3>2
  <2>2. UNCHANGED jobOf /\ worker \in [Workers -> Run]
    BY <1>5 DEF Expiry!startJob, ExpiryInv, TypeInv
  <2>3. worker'[w] = r /\ \A v \in Workers \ {w} : worker'[v] = worker[v]
    BY <2>1, <2>2
  <2>4. Holds(w, t)' /\ \A s \in Tiers \ {t} : ~ Holds(w, s)'
    BY <2>1, <2>3 DEF Holds, Expiry!Working
  <2>5. \A v \in Workers \ {w}, s \in Tiers : Holds(v, s)' <=> Holds(v, s)
    BY <2>3 DEF Holds, Expiry!Working
  <2>6. \A v \in Workers : Holds(v, t)' <=> v = w
    BY <1>2, <1>3, <2>4, <2>5
  <2>7. HeldOf(t)
    BY <1>2 DEF HeldInv
  <2>8. HeldOf(t)'
    BY <1>2, <1>3, <2>2, <2>6, <2>7 DEF HeldOf, Expiry!Known
  <2>9. \A s \in Tiers \ {t} : HeldOf(s)'
    BY <1>2, <1>3, <2>2, <2>4, <2>5, SameHeld DEF HeldInv
  <2> QED BY <1>2, <2>2, <2>8, <2>9 DEF HeldInv
<1> QED BY <1>4, <1>5

\* The cron adds jobs of tiers the queue knows nothing of, once each.
LEMMA TickHeld ==
    ASSUME Expiry!ExpiryConstants, ExpiryInv, HeldInv, Expiry!Tick PROVE HeldInv'
<1>1. \A v \in Workers, s \in Tiers : Holds(v, s)' <=> Holds(v, s)
  BY DEF Expiry!Tick, Holds, Expiry!Working
<1>2. CASE UNCHANGED Expiry!jobs
  BY <1>1, <1>2, KeepHeld
<1>3. CASE ~ UNCHANGED Expiry!jobs
  <2>1. PICK added \in SUBSET Expiry!NewJobs :
           \E order \in {s \in [1 .. Cardinality(added) -> added] : \A p, q \in DOMAIN s : s[p] = s[q] => p = q} :
              Expiry!scheduleCleanup(added, order)
    BY <1>3, SameCardinality DEF Expiry!Tick
  <2>2. PICK order \in [1 .. Cardinality(added) -> added] :
           (\A p, q \in DOMAIN order : order[p] = order[q] => p = q) /\ Expiry!scheduleCleanup(added, order)
    BY <2>1
  <2>3. IsFiniteSet(added) /\ added \subseteq Expiry!Limited /\ added \subseteq Tiers
    <3>1. added \subseteq Tiers /\ added \subseteq Expiry!Limited /\ IsFiniteSet(Tiers)
      BY FiniteTiers DEF Expiry!NewJobs, Expiry!Limited
    <3> QED BY <3>1, FS_Subset
  <2>4. order \in Seq(added) /\ Len(order) = Cardinality(added) /\ \A t \in added : InQueue(order, t)
    BY <2>2, <2>3, OrderIsComplete
  <2>5. /\ order \in Seq(Expiry!Limited) /\ queue \in Seq(Expiry!Limited) /\ Once(order)
        /\ \A t : InQueue(order, t) <=> t \in added
    <3>1. order \in Seq(Expiry!Limited)
      BY <2>3, <2>4
    <3>2. Once(order)
      BY <2>2 DEF Once
    <3>3. \A t : InQueue(order, t) => t \in added
      BY <2>2 DEF InQueue
    <3> QED BY <2>4, <3>1, <3>2, <3>3 DEF ExpiryInv, TypeInv
  <2>6. \A t \in added : t \in Tiers /\ ~ Expiry!Known(t)
    BY <2>3 DEF Expiry!NewJobs
  <2>7. \A t : ~ (InQueue(queue, t) /\ InQueue(order, t))
    BY <2>5, <2>6 DEF HeldInv, HeldOf
  <2>8. Once(queue) /\ queue' = queue \o order
    BY <2>2 DEF HeldInv, Expiry!scheduleCleanup
  <2>9. Once(queue') /\ \A t : InQueue(queue', t) <=> InQueue(queue, t) \/ t \in added
    BY <2>5, <2>7, <2>8, ConcatOnce
  <2>10. PICK first : first = [Expiry!NoJob EXCEPT !.attempt = 1]
    OBVIOUS
  <2>11. first \in [attempt : Nat, stalled : Nat] /\ first.attempt > 0 /\ first # Expiry!NoJob
    BY <2>10 DEF Expiry!NoJob
  <2>12. /\ jobOf' \in [Tiers -> [attempt : Nat, stalled : Nat]]
         /\ \A t \in Tiers : jobOf'[t] = IF t \in added THEN first ELSE jobOf[t]
    BY <2>2, <2>10, <2>11 DEF Expiry!scheduleCleanup, HeldInv
  <2>13. ASSUME NEW t \in added PROVE HeldOf(t)'
    <3>1. HeldOf(t) /\ ~ Expiry!Known(t) /\ t \in Tiers
      BY <2>6 DEF HeldInv
    <3>2. \A v \in Workers : ~ Holds(v, t)'
      BY <1>1, <3>1 DEF HeldOf
    <3> QED BY <2>9, <2>11, <2>12, <3>1, <3>2 DEF HeldOf, Expiry!Known
  <2>14. \A t \in Tiers \ added : HeldOf(t)'
    BY <1>1, <2>9, <2>12, SameHeld DEF HeldInv
  <2> QED BY <2>9, <2>12, <2>13, <2>14 DEF HeldInv
<1> QED BY <1>2, <1>3

LEMMA HeldStep ==
    ASSUME Expiry!ExpiryConstants, ExpiryInv, HeldInv, [Expiry!Next]_(Expiry!expiryVars) PROVE HeldInv'
<1>1. CASE UNCHANGED Expiry!expiryVars
  <2>1. UNCHANGED Expiry!jobs /\ \A t \in Tiers, w \in Workers : Holds(w, t)' <=> Holds(w, t)
    BY <1>1 DEF Expiry!expiryVars, Expiry!jobs, Holds, Expiry!Working
  <2> QED BY <2>1, KeepHeld
<1>2. CASE Expiry!Next
  BY <1>2, ItemsHeld, LeaveHeld, StartHeld, TickHeld DEF Expiry!Next, Expiry!WorkerStep
<1> QED BY <1>1, <1>2

----------------------------------------------------------------------------
(* A job waits once, or one worker holds it.                               *)

\* A worker without a job has nothing to take.
IdleInv == \A w \in Workers : ~ Expiry!Working(w) => worker[w].expired = {} /\ worker[w].due = {}

AgeInv == since \in [Expiry!Items -> 0 .. Expiry!Old]

LEMMA AgeStep ==
    ASSUME Expiry!ExpiryConstants, AgeInv, [Expiry!Next]_(Expiry!expiryVars) PROVE AgeInv'
<1>1. Expiry!Old \in Nat /\ 0 \in 0 .. Expiry!Old
  <2>1. Expiry!Old \in Nat
    BY OldIsNat
  <2> QED BY <2>1
<1> HIDE DEF Expiry!Old
<1>2. CASE since' = since
  BY <1>2 DEF AgeInv
<1>3. CASE \E i \in Expiry!Items : since' = [since EXCEPT ![i] = 0]
  BY <1>1, <1>3 DEF AgeInv
<1>4. CASE since' = [i \in Expiry!Items |-> IF Expiry!Trashed(i) THEN Expiry!Older(since[i]) ELSE since[i]]
  <2>1. \A n \in 0 .. Expiry!Old : Expiry!Older(n) \in 0 .. Expiry!Old
    BY <1>1 DEF Expiry!Older
  <2> QED BY <1>4, <2>1 DEF AgeInv
<1>5. CASE \E S : since' = [i \in Expiry!Items |-> IF i \in S THEN 0 ELSE since[i]]
  BY <1>1, <1>5 DEF AgeInv
<1>6. Expiry!User => (\E i \in Expiry!Items : since' = [since EXCEPT ![i] = 0]) \/ since' = since
  BY DEF Expiry!User, Expiry!moveItemToTrash, Expiry!restoreItem, Expiry!updateItem, Expiry!Put, Expiry!updateUserTier
<1>7. ASSUME NEW w \in Workers, Expiry!WorkerStep(w) \/ Expiry!markAsFailed(w) \/ Expiry!stalled(w)
      PROVE  since' = since \/ \E S : since' = [i \in Expiry!Items |-> IF i \in S THEN 0 ELSE since[i]]
  <2>1. CASE Expiry!deleteExpiredItems(w)
    <3>1. PICK batch : Expiry!Deletes(batch)
      BY <2>1 DEF Expiry!deleteExpiredItems
    <3> QED BY <3>1 DEF Expiry!Deletes
  <2> QED BY <1>7, <2>1 DEF Expiry!WorkerStep, Expiry!startJob, Expiry!markAsCompleted, Expiry!markAsFailed, Expiry!stalled
<1>8. CASE Expiry!Tick
  BY <1>4, <1>8 DEF Expiry!Tick
<1>9. CASE UNCHANGED Expiry!expiryVars
  BY <1>2, <1>9 DEF Expiry!expiryVars
<1> QED BY <1>2, <1>3, <1>5, <1>6, <1>7, <1>8, <1>9 DEF Expiry!Next

LEMMA IdleStep ==
    ASSUME ExpiryInv, IdleInv, [Expiry!Next]_(Expiry!expiryVars) PROVE IdleInv'
<1> SUFFICES ASSUME NEW w \in Workers, ~ Expiry!Working(w)' PROVE worker'[w].expired = {} /\ worker'[w].due = {}
  BY DEF IdleInv, Expiry!Working
<1>1. worker[w] \in Run /\ worker \in [Workers -> Run] /\ (~ Expiry!Working(w) => worker[w].expired = {} /\ worker[w].due = {})
  BY DEF ExpiryInv, TypeInv, IdleInv
<1>2. CASE UNCHANGED worker
  BY <1>1, <1>2 DEF Expiry!Working
<1>3. CASE \E E, D : worker'[w] = [worker[w] EXCEPT !.expired = @ \cap E, !.due = @ \cap D]
  <2>1. PICK E, D : worker'[w] = [worker[w] EXCEPT !.expired = @ \cap E, !.due = @ \cap D]
    BY <1>3
  <2>2. /\ worker'[w].step = worker[w].step
        /\ worker'[w].expired = worker[w].expired \cap E /\ worker'[w].due = worker[w].due \cap D
    BY <1>1, <2>1 DEF Run
  <2> QED BY <1>1, <2>2 DEF Expiry!Working
<1>4. CASE Expiry!User
  <2>1. ASSUME NEW i \in Expiry!Items, NEW to, Expiry!Put(i, to) PROVE worker'[w].expired = {} /\ worker'[w].due = {}
    <3>1. worker'[w] = [worker[w] EXCEPT !.expired = @ \ {i}, !.due = @ \ {i}]
      BY <2>1 DEF Expiry!Put, Expiry!Touched
    <3>2. /\ worker'[w].step = worker[w].step
          /\ worker'[w].expired = worker[w].expired \ {i} /\ worker'[w].due = worker[w].due \ {i}
      BY <1>1, <3>1 DEF Run
    <3> QED BY <1>1, <3>2 DEF Expiry!Working
  <2>2. ASSUME NEW u \in Users, NEW t \in Tiers, Expiry!updateUserTier(u, t)
        PROVE  worker'[w].expired = {} /\ worker'[w].due = {}
    <3>1. worker'[w] = [worker[w] EXCEPT !.due = {i \in @ : user[i] # u}]
      BY <2>2 DEF Expiry!updateUserTier
    <3>2. /\ worker'[w].step = worker[w].step
          /\ worker'[w].expired = worker[w].expired /\ worker'[w].due \subseteq worker[w].due
      BY <1>1, <3>1 DEF Run
    <3> QED BY <1>1, <3>2 DEF Expiry!Working
  <2> QED BY <1>4, <2>1, <2>2 DEF Expiry!User, Expiry!moveItemToTrash, Expiry!restoreItem, Expiry!updateItem
<1>5. ASSUME NEW v \in Workers, Expiry!startJob(v) \/ Expiry!markAsCompleted(v) \/ Expiry!markAsFailed(v) \/ Expiry!stalled(v)
      PROVE  worker'[w].expired = {} /\ worker'[w].due = {}
  <2>1. CASE v # w
    <3>1. worker'[w] = worker[w]
      BY <1>1, <1>5, <2>1 DEF Expiry!startJob, Expiry!markAsCompleted, Expiry!markAsFailed, Expiry!stalled
    <3> QED BY <1>1, <3>1 DEF Expiry!Working
  <2>2. CASE v = w /\ Expiry!startJob(v)
    <3>1. CASE UNCHANGED worker
      BY <1>1, <3>1 DEF Expiry!Working
    <3>2. CASE ~ UNCHANGED worker
      <4>1. PICK r, t, E, D : /\ r = [Expiry!Unoccupied EXCEPT !.tier = t, !.step = "files", !.holds = TRUE, !.expired = E, !.due = D]
                              /\ worker' = [worker EXCEPT ![w] = r]
        BY <2>2, <3>2 DEF Expiry!startJob
      <4>2. r.step = "files" /\ worker'[w] = r
        BY <1>1, <4>1 DEF Expiry!Unoccupied
      <4> QED BY <4>2 DEF Expiry!Working
    <3> QED BY <3>1, <3>2
  <2>3. CASE v = w /\ ~ Expiry!startJob(v)
    <3>1. Expiry!Working(w) /\ (worker'[w] = Expiry!Unoccupied \/ worker'[w] = [worker[w] EXCEPT !.holds = FALSE])
      BY <1>1, <1>5, <2>3 DEF Expiry!markAsCompleted, Expiry!markAsFailed, Expiry!stalled, Expiry!Working
    <3>2. worker'[w] = Expiry!Unoccupied
      BY <1>1, <3>1 DEF Run, Expiry!Working
    <3> QED BY <3>2 DEF Expiry!Unoccupied
  <2> QED BY <1>5, <2>1, <2>2, <2>3
<1>6. ASSUME NEW v \in Workers, Expiry!deleteExpiredItems(v)
      PROVE  worker'[w].expired = {} /\ worker'[w].due = {}
  <2>1. PICK batch : \E result \in Expiry!After(worker[v], batch, Expiry!StepAfter(v, batch)) :
           worker' = [x \in Workers |-> LET r == IF x = v THEN result ELSE worker[x]
                                        IN  [r EXCEPT !.expired = {i \in @ : place'[i] = "trash"},
                                                      !.due = {i \in @ : place'[i] = "trash"}]]
    BY <1>6 DEF Expiry!deleteExpiredItems
  <2>2. PICK result \in Expiry!After(worker[v], batch, Expiry!StepAfter(v, batch)) :
           worker' = [x \in Workers |-> LET r == IF x = v THEN result ELSE worker[x]
                                        IN  [r EXCEPT !.expired = {i \in @ : place'[i] = "trash"},
                                                      !.due = {i \in @ : place'[i] = "trash"}]]
    BY <2>1
  <2>4. CASE v # w
    <3>1. PICK E, D : /\ E = {i \in worker[w].expired : place'[i] = "trash"}
                      /\ D = {i \in worker[w].due : place'[i] = "trash"}
                      /\ worker'[w] = [worker[w] EXCEPT !.expired = E, !.due = D]
      BY <2>2, <2>4
    <3>2. worker'[w].step = worker[w].step /\ worker'[w].expired = E /\ worker'[w].due = D
      BY <1>1, <3>1 DEF Run
    <3> QED BY <1>1, <3>1, <3>2 DEF Expiry!Working
  <2>5. CASE v = w
    <3>1. Expiry!Working(w)'
      BY <1>6, <2>5, BatchLeavesRuns DEF Expiry!deleteExpiredItems, Expiry!Working
    <3> QED BY <3>1
  <2> QED BY <2>4, <2>5
<1>7. CASE Expiry!Tick
  BY <1>2, <1>7 DEF Expiry!Tick
<1>8. CASE UNCHANGED Expiry!expiryVars
  BY <1>2, <1>8 DEF Expiry!expiryVars
<1> QED BY <1>4, <1>5, <1>6, <1>7, <1>8 DEF Expiry!Next, Expiry!WorkerStep

JobsInv == HeldInv /\ IdleInv /\ AgeInv

LEMMA JobsInit == Expiry!ExpiryConstants /\ Expiry!Init => JobsInv
<1> SUFFICES ASSUME Expiry!ExpiryConstants, Expiry!Init PROVE JobsInv
  OBVIOUS
<1>1. \A w \in Workers : worker[w] = Expiry!Unoccupied
  BY DEF Expiry!Init
<1>2. \A w \in Workers : worker[w].expired = {} /\ worker[w].due = {} /\ ~ Expiry!Working(w)
  BY <1>1 DEF Expiry!Unoccupied, Expiry!Working
<1>3. jobOf \in [Tiers -> [attempt : Nat, stalled : Nat]] /\ \A t \in Tiers : ~ Expiry!Known(t)
  BY DEF Expiry!Init, Expiry!NoJob, Expiry!Known
<1>4. DOMAIN queue = {}
  <2>1. queue = <<>>
    BY DEF Expiry!Init
  <2> QED BY <2>1
<1>5. Once(queue) /\ \A t : ~ InQueue(queue, t)
  BY <1>4 DEF Once, InQueue
<1>6. HeldInv
  BY <1>2, <1>3, <1>5 DEF HeldInv, HeldOf, Holds
<1>7. AgeInv
  <2>1. Expiry!Old \in Nat
    BY OldIsNat
  <2>2. 0 \in 0 .. Expiry!Old /\ Expiry!Old \in 0 .. Expiry!Old
    BY <2>1
  <2> QED BY <2>2 DEF Expiry!Init, AgeInv
<1> QED BY <1>2, <1>6, <1>7 DEF JobsInv, IdleInv

LEMMA JobsInvariant == Expiry!ExpiryConstants => (Expiry!Spec => [](Expiry!ExpiryConstants /\ ExpiryInv /\ JobsInv))
<1>1. Expiry!ExpiryConstants /\ Expiry!Init => ExpiryInv /\ JobsInv
  BY InitExpiry, JobsInit
<1>2. Expiry!ExpiryConstants /\ ExpiryInv /\ JobsInv /\ [Expiry!Next]_(Expiry!expiryVars) => (Expiry!ExpiryConstants /\ ExpiryInv /\ JobsInv)'
  <2> SUFFICES ASSUME Expiry!ExpiryConstants, ExpiryInv, JobsInv, [Expiry!Next]_(Expiry!expiryVars)
               PROVE  (Expiry!ExpiryConstants /\ ExpiryInv /\ JobsInv)'
    OBVIOUS
  <2>1. ExpiryInv' /\ JobsInv'
    BY ExpiryStep, HeldStep, IdleStep, AgeStep DEF JobsInv
  <2>2. Expiry!ExpiryConstants'
    BY DEF Expiry!ExpiryConstants, Expiry!Items, Expiry!Limited, Expiry!None
  <2> QED BY <2>1, <2>2
<1> QED BY <1>1, <1>2, PTL DEF Expiry!Spec

\* Of the workers and the places of the queue, one has the job that the queue knows.
LEMMA JobHasOnePlace ==
    ASSUME HeldInv, NEW t \in Tiers,
           NEW holders, holders = {w \in Workers : Expiry!Working(w) /\ worker[w].holds /\ worker[w].tier = t},
           NEW places, places = {k \in DOMAIN queue : queue[k] = t}
    PROVE  Cardinality(holders) + Cardinality(places) = (IF Expiry!Known(t) THEN 1 ELSE 0)
<1>1. HeldOf(t) /\ Once(queue)
  BY DEF HeldInv
<1>2. \A w : w \in holders <=> w \in Workers /\ Holds(w, t)
  BY DEF Holds
<1>3. (\E k : k \in places) <=> InQueue(queue, t)
  BY DEF InQueue
<1>4. CASE InQueue(queue, t)
  <2>1. Expiry!Known(t) /\ holders = {}
    BY <1>1, <1>2, <1>4 DEF HeldOf
  <2>2. PICK k : k \in places
    BY <1>3, <1>4
  <2>3. places = {k}
    BY <1>1, <2>2 DEF Once
  <2>4. Cardinality(places) = 1 /\ Cardinality(holders) = 0
    BY <2>1, <2>3, FS_EmptySet, FS_Singleton, Zenon
  <2> QED BY <2>1, <2>4
<1>5. CASE ~ InQueue(queue, t) /\ \E w \in Workers : Holds(w, t)
  <2>1. places = {} /\ Expiry!Known(t)
    BY <1>1, <1>3, <1>5 DEF HeldOf
  <2>2. PICK w \in Workers : Holds(w, t)
    BY <1>5
  <2>3. holders = {w}
    BY <1>1, <1>2, <2>2 DEF HeldOf
  <2>4. Cardinality(places) = 0 /\ Cardinality(holders) = 1
    BY <2>1, <2>3, FS_EmptySet, FS_Singleton, Zenon
  <2> QED BY <2>1, <2>4
<1>6. CASE ~ InQueue(queue, t) /\ ~ \E w \in Workers : Holds(w, t)
  <2>1. places = {} /\ holders = {} /\ ~ Expiry!Known(t)
    BY <1>1, <1>2, <1>3, <1>6 DEF HeldOf
  <2> QED BY <2>1, FS_EmptySet
<1> QED BY <1>4, <1>5, <1>6

\* However workers come to share a tier, its job has one place: it waits once, or the one worker holds it
\* that may say how it ended, or the queue knows of none and the cron may add it.  What a worker is to take
\* is in the trash (the queue of trash-cleanup.task.ts and its jobId, trash-cleanup.processor.ts).
THEOREM ExpiryTypeCorrect == Expiry!ExpiryConstants => (Expiry!Spec => []Expiry!TypeOK)
<1>1. ExpiryInv /\ JobsInv => Expiry!TypeOK
  <2> SUFFICES ASSUME ExpiryInv, JobsInv PROVE Expiry!TypeOK
    OBVIOUS
  <2>1. HeldInv /\ IdleInv /\ AgeInv
    BY DEF JobsInv
  <2>2. ASSUME NEW t \in Tiers
        PROVE  LET holders == {w \in Workers : Expiry!Working(w) /\ worker[w].holds /\ worker[w].tier = t}
                   places == {k \in DOMAIN queue : queue[k] = t}
               IN  Cardinality(holders) + Cardinality(places) = (IF Expiry!Known(t) THEN 1 ELSE 0)
    BY <2>1, JobHasOnePlace, SameCardinality
  <2>3. ASSUME NEW w \in Workers
        PROVE  worker[w].due \subseteq worker[w].expired /\ \A i \in worker[w].expired : Expiry!Trashed(i)
    <3>1. CASE Expiry!Working(w)
      <4>1. Decided(w) /\ StillDue(w)
        BY <3>1 DEF ExpiryInv
      <4> QED BY <4>1 DEF Decided, StillDue, Expiry!OfTier
    <3>2. CASE ~ Expiry!Working(w)
      BY <2>1, <3>2 DEF IdleInv
    <3> QED BY <3>1, <3>2
  <2>4. since \in [Expiry!Items -> 0 .. Expiry!Old] /\ place \in [Expiry!Items -> {"drive", "trash", "gone"}]
    BY <2>1 DEF AgeInv, ExpiryInv, TypeInv
  <2> QED BY <2>2, <2>3, <2>4, SameCardinality DEF Expiry!TypeOK
<1> QED BY <1>1, JobsInvariant, PTL

----------------------------------------------------------------------------
(* What was in removed folders.                                            *)

\* The assumptions on the constants, one by one.
LEMMA CleanupConstants ==
  /\ Period \in Nat /\ Period > 0
  /\ Window \in Nat /\ MaxRepeats \in Nat /\ MaxRepeats > 0
  /\ Attempts \in Nat /\ Attempts > 0
  /\ MaxAgain \in Nat /\ MaxDelay \in Nat
  /\ Root \notin Items /\ Nowhere \notin Items /\ Nowhere # Root
  /\ Folders \cap Files = {}
BY CleanupAssumption DEF Items

USE CleanupConstants

\* The clock stays below the period: what % gives.
LEMMA ClockBound ==
  \A c \in 0..(Period - 1) : (c + 1) % Period \in 0..(Period - 1)
BY SMT

\* The cron has just fired when the system starts.
LEMMA InitType == Init => TypeOK
BY DEF Init, TypeOK, WaysTypeOK, FR!Init, FR!Items, Items, Jobs, Idle, Steps, Old, running

\* What a running attempt becomes after a phase is well typed.
LEMMA AfterPhaseType ==
  ASSUME TypeOK, NEW phase \in Phases
  PROVE  /\ AfterPhase(phase) \in Jobs
         /\ AfterPhase(phase).window \cup AfterPhase(phase).batch \subseteq gone
<1>1. CASE phase = "Children"
  <2>1. AfterPhase(phase) =
          [step |-> "findFiles", attempt |-> job.attempt,
           window |-> job.window, batch |-> {},
           first |-> Nowhere, repeats |-> 0]
    BY <1>1 DEF AfterPhase, Idle
  <2>2. job.attempt \in 0..Attempts /\ job.window \in SUBSET Folders
    BY DEF TypeOK, Jobs
  <2>3. job.window \subseteq gone
    BY DEF TypeOK
  <2> QED
    BY <2>1, <2>2, <2>3 DEF Jobs, Steps
<1>2. CASE phase # "Children"
  BY <1>2 DEF TypeOK, AfterPhase, Idle, Jobs, Steps
<1> QED
  BY <1>1, <1>2

\* The same after a batch.
LEMMA AfterBatchType ==
  ASSUME TypeOK, NEW phase \in Phases
  PROVE  /\ AfterBatch(phase) \in Jobs
         /\ AfterBatch(phase).window \cup AfterBatch(phase).batch \subseteq gone
<1>1. CASE Cardinality(job.batch) = Batch
  BY <1>1 DEF TypeOK, AfterBatch, FindStep, Jobs, Steps
<1>2. CASE Cardinality(job.batch) # Batch
  BY <1>2, AfterPhaseType DEF AfterBatch
<1> QED
  BY <1>1, <1>2

\* An attempt is never queued while another one runs.
LEMMA RunningAlone == ASSUME TypeOK, running PROVE waiting = 0
BY DEF TypeOK

\* Where the items do not change, what is under way does not either.
LEMMA UnchangedWays == ASSUME WaysTypeOK, UNCHANGED items PROVE WaysTypeOK'
BY DEF WaysTypeOK, items

\* No request breaks the types.
LEMMA RequestType == TypeOK /\ Request => TypeOK'
<1> SUFFICES ASSUME TypeOK, Request PROVE TypeOK'
  OBVIOUS
<1> USE DEF FR!KnownFolders, FR!LiveFolders, FR!Live, Live, Items, FR!Items
<1>1. ASSUME NEW f \in Folders, deleteFolder(f) PROVE TypeOK'
  <2> USE <1>1 DEF deleteFolder
  <2>1. /\ (parent \in [Items -> Folders \cup {Root, Nowhere}])'
        /\ (gone \in SUBSET Items /\ \A i \in gone : parent[i] # Nowhere)'
    BY DEF TypeOK
  <2>2. /\ (strays \in SUBSET (Items \ gone))'
        /\ (\A g \in strays : parent[g] \in gone)'
        /\ (clock \in 0..(Period - 1))'
        /\ WaysTypeOK'
    BY DEF TypeOK, WaysTypeOK
  <2>3. (age \in [Folders -> 0..Old])' /\ (again \in 0..MaxAgain)'
    BY DEF TypeOK, Old
  <2>4. (waiting \in 0..Attempts)' /\ (waiting # 0 => ~ running)'
    BY DEF TypeOK, running, Jobs
  <2>5. (job \in Jobs)' /\ (job.window \cup job.batch \subseteq gone)'
    BY DEF TypeOK, Jobs
  <2> QED
    BY <2>1, <2>2, <2>3, <2>4, <2>5 DEF TypeOK
<1>2. ASSUME NEW f \in Folders, NEW p \in Folders \cup {Root},
             createFolder(f, p)
      PROVE  TypeOK'
  <2>1. f \notin gone /\ p # Nowhere
    BY <1>2 DEF createFolder, TypeOK
  <2> QED
    BY <1>2, <2>1 DEF TypeOK, createFolder, running, WaysTypeOK
<1>3. ASSUME NEW x \in Files, deleteFile(x) PROVE TypeOK'
  BY <1>3 DEF TypeOK, deleteFile, running, WaysTypeOK
<1>4. ASSUME NEW i \in Items, NEW p \in Folders \cup {Root},
             lookedAt(i, p), i \in Folders => parent[i] # Nowhere
      PROVE  TypeOK'
  <2>1. WaysTypeOK'
    BY <1>4 DEF TypeOK, WaysTypeOK, lookedAt, FR!Way
  <2> QED BY <1>4, <2>1 DEF TypeOK, lookedAt, running
<1>5. ASSUME NEW f \in Folders, NEW p \in Folders \cup {Root}, moveFolder(f, p) PROVE TypeOK'
  BY <1>4, <1>5 DEF moveFolder
<1>6. ASSUME NEW x \in Files, NEW p \in Folders \cup {Root}, createFile(x, p) \/ moveFile(x, p)
      PROVE  TypeOK'
  BY <1>4, <1>6 DEF createFile, moveFile
<1>7. ASSUME NEW i \in Items, NEW p \in Folders \cup {Root}, refused(i, p) PROVE TypeOK'
  BY <1>7 DEF TypeOK, refused, running, WaysTypeOK
<1>8. ASSUME NEW i \in Items, NEW p \in Folders \cup {Root}, arrives(i, p),
             gone' \in {gone, gone \ {i}}, i \in Folders => gone' = gone
      PROVE  /\ (parent \in [Items -> Folders \cup {Root, Nowhere}])'
             /\ (gone \in SUBSET Items /\ \A j \in gone : parent[j] # Nowhere)'
             /\ (strays \in SUBSET (Items \ gone) /\ \A j \in strays : parent[j] \in gone)'
             /\ WaysTypeOK'
  <2>1. p # Nowhere /\ parent' = [parent EXCEPT ![i] = p]
    BY <1>8 DEF arrives
  <2>2. \A j \in Items : parent'[j] = (IF j = i THEN p ELSE parent[j])
    BY <2>1 DEF TypeOK
  <2>3. parent' \in [Items -> Folders \cup {Root, Nowhere}]
    BY <2>1 DEF TypeOK
  <2>4. gone' \in SUBSET Items /\ \A j \in gone' : parent'[j] # Nowhere
    BY <1>8, <2>1, <2>2 DEF TypeOK
  <2>5. strays' \in SUBSET (Items \ gone')
    BY <1>8 DEF arrives, TypeOK
  <2>6. ASSUME NEW j \in strays' PROVE parent'[j] \in gone'
    <3>1. CASE j = i
      <4>1. p \in gone /\ p \in Folders \cup {Root}
        BY <1>8, <2>6, <3>1 DEF arrives
      <4>2. p \in gone'
        BY <1>8, <2>6, <3>1, <4>1 DEF arrives, TypeOK
      <4> QED BY <2>2, <3>1, <4>2
    <3>2. CASE j # i
      <4>1. j \in strays /\ j \in Items
        BY <1>8, <2>6, <3>2 DEF arrives, TypeOK
      <4>2. parent[j] \in gone /\ parent[j] \in Folders
        BY <4>1 DEF TypeOK
      <4>3. parent[j] \in gone'
        BY <1>8, <4>2
      <4> QED BY <2>2, <3>2, <4>1, <4>3
    <3> QED BY <3>1, <3>2
  <2>7. WaysTypeOK'
    BY <1>8, <2>1, <2>2 DEF arrives, TypeOK, WaysTypeOK
  <2> QED BY <2>1, <2>2, <2>3, <2>4, <2>5, <2>6, <2>7 DEF TypeOK
<1>9. ASSUME NEW x \in Files, NEW p \in Folders \cup {Root}, writeFile(x, p) PROVE TypeOK'
  <2>1. /\ arrives(x, p) /\ gone' = gone \ {x} /\ x \notin Folders
        /\ UNCHANGED <<age, job, again, clock, waiting>>
    BY <1>9 DEF writeFile, arrives
  <2>2. (job.window \cup job.batch \subseteq gone)'
    BY <2>1 DEF TypeOK, Jobs
  <2> QED BY <1>8, <2>1, <2>2 DEF TypeOK, running
<1>10. ASSUME NEW f \in Folders, NEW p \in Folders \cup {Root}, writeFolder(f, p) PROVE TypeOK'
  <2>1. arrives(f, p) /\ gone' = gone /\ UNCHANGED <<again, clock, waiting>>
    BY <1>10 DEF writeFolder, arrives
  <2>2. (age \in [Folders -> 0..Old])'
    BY <1>10 DEF writeFolder, TypeOK, Old
  <2>3. job' = [job EXCEPT !.window = @ \ {f}]
    BY <1>10 DEF writeFolder
  <2>4. (job \in Jobs)' /\ (job.window \cup job.batch \subseteq gone)' /\ job'.step = job.step
    BY <2>1, <2>3 DEF TypeOK, Jobs
  <2> QED BY <1>8, <2>1, <2>2, <2>4 DEF TypeOK, running
<1> QED
  BY <1>1, <1>2, <1>3, <1>5, <1>6, <1>7, <1>9, <1>10 DEF Request

\* Nor does time, nor an attempt that fails.
LEMMA QueueType == TypeOK /\ (Tick \/ failJob) => TypeOK'
<1>1. ASSUME TypeOK, Tick PROVE TypeOK'
  <2> USE <1>1 DEF Tick
  <2>1. (clock \in 0..(Period - 1))'
    BY ClockBound DEF TypeOK
  <2>2. (age \in [Folders -> 0..Old])'
    BY DEF TypeOK, Old
  <2>3. (waiting # 0 => ~ running)' /\ (waiting \in 0..Attempts)'
    BY DEF TypeOK, running
  <2> QED
    BY <2>1, <2>2, <2>3 DEF TypeOK, WaysTypeOK, items
<1>2. ASSUME TypeOK, failJob PROVE TypeOK'
  BY <1>2 DEF TypeOK, failJob, failed, Idle, Jobs, Steps, running, WaysTypeOK, items
<1> QED
  BY <1>1, <1>2

\* Nor does a step of the job.
LEMMA JobType == TypeOK /\ JobStep => TypeOK'
<1> SUFFICES ASSUME TypeOK, JobStep PROVE TypeOK'
  OBVIOUS
<1>1. ASSUME startJob PROVE TypeOK'
  <2> DEFINE seen == {f \in Folders : InWindow(f)}
  <2>1. job' = [step |-> "findChildren", attempt |-> waiting,
                window |-> seen, batch |-> {},
                first |-> Nowhere, repeats |-> 0]
    BY <1>1 DEF startJob, Idle
  <2>2. waiting \in 0..Attempts /\ seen \in SUBSET Folders /\ seen \subseteq gone
    BY DEF TypeOK, InWindow
  <2>3. job' \in Jobs
    BY <2>1, <2>2 DEF Jobs, Steps
  <2>4. job'.window \cup job'.batch \subseteq gone
    BY <2>1, <2>2
  <2> HIDE DEF seen
  <2> QED
    BY <1>1, <2>3, <2>4 DEF TypeOK, startJob, running, WaysTypeOK, items
<1>2. ASSUME NEW phase \in Phases, findNone(phase) PROVE TypeOK'
  <2>1. waiting = 0
    BY <1>2, RunningAlone DEF findNone, FindStep, running, Phases
  <2> QED
    BY <1>2, <2>1, AfterPhaseType DEF TypeOK, findNone, running, WaysTypeOK, items
<1>3. ASSUME NEW phase \in Phases, findSome(phase) PROVE TypeOK'
  <2>1. waiting = 0
    BY <1>3, RunningAlone DEF findSome, FindStep, running, Phases
  <2>2. PICK batch \in Batches(phase) \ {{}} :
          \/ /\ job.first \in batch
             /\ job.repeats + 1 < MaxRepeats
             /\ job' = [job EXCEPT !.step = MarkStep(phase), !.batch = batch,
                                   !.repeats = @ + 1]
          \/ /\ job.first \notin batch
             /\ \E first \in batch :
                  job' = [job EXCEPT !.step = MarkStep(phase),
                                     !.batch = batch,
                                     !.first = first, !.repeats = 0]
    BY <1>3 DEF findSome
  <2>3. batch \subseteq job.window
    BY DEF Batches, Candidates
  <2>4. /\ job.window \subseteq gone /\ job.window \in SUBSET Folders
        /\ job \in Jobs
    BY DEF TypeOK, Jobs
  <2>5. /\ job.attempt \in 0..Attempts
        /\ job.first \in Folders \cup {Nowhere}
        /\ job.repeats \in 0..MaxRepeats
    BY <2>4 DEF Jobs
  <2>6. job' \in Jobs /\ job'.window = job.window /\ job'.batch = batch
    <3>1. CASE job.first \in batch
      <4>1. /\ job' = [job EXCEPT !.step = MarkStep(phase), !.batch = batch,
                                  !.repeats = @ + 1]
            /\ job.repeats + 1 < MaxRepeats
        BY <2>2, <3>1
      <4>2. job' = [step |-> MarkStep(phase), attempt |-> job.attempt,
                    window |-> job.window, batch |-> batch,
                    first |-> job.first, repeats |-> job.repeats + 1]
        BY <4>1, <2>4 DEF Jobs
      <4>3. job.repeats + 1 \in 0..MaxRepeats
        BY <4>1, <2>5
      <4> QED
        BY <4>2, <4>3, <2>3, <2>4, <2>5 DEF Jobs, Steps, MarkStep
    <3>2. CASE job.first \notin batch
      <4>1. PICK first \in batch :
              job' = [job EXCEPT !.step = MarkStep(phase), !.batch = batch,
                                 !.first = first, !.repeats = 0]
        BY <2>2, <3>2
      <4>2. job' = [step |-> MarkStep(phase), attempt |-> job.attempt,
                    window |-> job.window, batch |-> batch,
                    first |-> first, repeats |-> 0]
        BY <4>1, <2>4 DEF Jobs
      <4> QED
        BY <4>2, <2>3, <2>4, <2>5 DEF Jobs, Steps, MarkStep
    <3> QED
      BY <3>1, <3>2
  <2> QED
    BY <1>3, <2>1, <2>3, <2>4, <2>6, UnchangedWays DEF TypeOK, findSome, running, items
<1>4. ASSUME NEW phase \in Phases, findStuck(phase) PROVE TypeOK'
  BY <1>4 DEF TypeOK, findStuck, failed, Idle, Jobs, Steps, running, WaysTypeOK, items
<1>5. ASSUME markChildFoldersAsRemoved PROVE TypeOK'
  <2>1. waiting = 0
    BY <1>5, RunningAlone DEF markChildFoldersAsRemoved, running
  <2>2. LiveIn("Children", job.batch) \subseteq Folders
    BY DEF LiveIn
  <2>3. \A i \in LiveIn("Children", job.batch) : parent[i] # Nowhere
    BY DEF LiveIn, Live, FR!Live
  <2> QED
    BY <1>5, <2>1, <2>2, <2>3, AfterBatchType
    DEF TypeOK, markChildFoldersAsRemoved, Items, Phases, Old, WaysTypeOK
<1>6. ASSUME markFilesInFolderAsRemoved PROVE TypeOK'
  <2>1. waiting = 0
    BY <1>6, RunningAlone DEF markFilesInFolderAsRemoved, running
  <2>2. LiveIn("Files", job.batch) \subseteq Files
    BY DEF LiveIn
  <2>3. \A i \in LiveIn("Files", job.batch) : parent[i] # Nowhere
    BY DEF LiveIn, Live, FR!Live
  <2> QED
    BY <1>6, <2>1, <2>2, <2>3, AfterBatchType
    DEF TypeOK, markFilesInFolderAsRemoved, Items, Phases, WaysTypeOK
<1> QED
  BY <1>1, <1>2, <1>3, <1>4, <1>5, <1>6 DEF JobStep

\* The types hold always: among them, that a job only ever looks into removed
\* folders, and that no attempt waits in the queue while another one runs.
THEOREM CleanupTypeCorrect == Spec => []TypeOK
<1>1. Init => TypeOK
  BY InitType
<1>2. TypeOK /\ [Next]_vars => TypeOK'
  <2> SUFFICES ASSUME TypeOK, [Next]_vars PROVE TypeOK'
    OBVIOUS
  <2>1. CASE Request
    BY <2>1, RequestType
  <2>2. CASE Tick \/ failJob
    BY <2>2, QueueType
  <2>3. CASE JobStep
    BY <2>3, JobType
  <2>4. CASE UNCHANGED vars
    BY <2>4 DEF vars, TypeOK, running, WaysTypeOK
  <2> QED
    BY <2>1, <2>2, <2>3, <2>4 DEF Next
<1> QED
  BY <1>1, <1>2, PTL DEF Spec

\* Each request is one the promise knows.
LEMMA RequestRefines == ASSUME TypeOK, Request PROVE FR!Next
<1> USE DEF Live, Items
<1>1. ASSUME NEW f \in Folders, deleteFolder(f) PROVE FR!Remove(f)
  BY <1>1 DEF deleteFolder, FR!Remove
<1>2. ASSUME NEW f \in Folders, NEW p \in Folders \cup {Root},
             createFolder(f, p)
      PROVE  FR!Create(f, p)
  BY <1>2 DEF createFolder, FR!Create
<1>3. ASSUME NEW f \in Folders, NEW p \in Folders \cup {Root},
             moveFolder(f, p)
      PROVE  FR!SetOut(f, p)
  BY <1>3 DEF moveFolder, lookedAt, FR!SetOut
<1>4. ASSUME NEW x \in Files, deleteFile(x) PROVE FR!Remove(x)
  BY <1>4 DEF deleteFile, FR!Live, FR!Remove, TypeOK
<1>5. ASSUME NEW x \in Files, NEW p \in Folders \cup {Root},
             createFile(x, p) \/ moveFile(x, p)
      PROVE  FR!SetOut(x, p)
  BY <1>5 DEF createFile, moveFile, lookedAt, FR!SetOut
<1>6. ASSUME NEW x \in Files, NEW p \in Folders \cup {Root}, writeFile(x, p)
      PROVE  FR!Arrive(x, p)
  BY <1>6 DEF writeFile, arrives, FR!Arrive
<1>7. ASSUME NEW f \in Folders, NEW p \in Folders \cup {Root}, writeFolder(f, p)
      PROVE  FR!Arrive(f, p)
  <2>1. f \notin Files
    OBVIOUS
  <2> QED BY <1>7, <2>1 DEF writeFolder, arrives, FR!Arrive
<1>8. ASSUME NEW i \in Items, NEW p \in Folders \cup {Root}, refused(i, p)
      PROVE  FR!Refuse(i, p)
  BY <1>8 DEF refused, FR!Refuse
<1>9. Items = FR!Items
  BY DEF FR!Items
<1> QED
  BY <1>1, <1>2, <1>3, <1>4, <1>5, <1>6, <1>7, <1>8, <1>9 DEF Request, FR!Next

\* What the job takes follows its folder: the folders of a batch are removed.
LEMMA JobRefines ==
  ASSUME TypeOK, JobStep PROVE FR!Next \/ UNCHANGED items
<1>1. ASSUME markChildFoldersAsRemoved
      PROVE  FR!Cascade(LiveIn("Children", job.batch))
  BY <1>1 DEF markChildFoldersAsRemoved, LiveIn, Live, TypeOK, FR!Cascade
<1>2. ASSUME markFilesInFolderAsRemoved
      PROVE  FR!Cascade(LiveIn("Files", job.batch))
  BY <1>2 DEF markFilesInFolderAsRemoved, LiveIn, Live, TypeOK, FR!Cascade
<1>3. \A phase : LiveIn(phase, job.batch) \in SUBSET FR!Items
  BY DEF LiveIn, FR!Items
<1>4. ASSUME ~ markChildFoldersAsRemoved, ~ markFilesInFolderAsRemoved
      PROVE  UNCHANGED items
  BY <1>4 DEF JobStep, startJob, findNone, findSome, findStuck, items
<1> QED
  BY <1>1, <1>2, <1>3, <1>4 DEF FR!Next

\* Requests, cron and job do only what the promise allows, however late, often
\* interrupted or overtaken by requests the job is.
THEOREM CleanupImplementsRemoval == Spec => RemovalSafe
<1>1. Init => FR!Init
  BY DEF Init
<1>2. TypeOK /\ [Next]_vars => [FR!Next]_(FR!removalVars)
  <2> SUFFICES ASSUME TypeOK, [Next]_vars PROVE FR!Next \/ UNCHANGED items
    BY DEF items, FR!removalVars
  <2>1. CASE Request
    BY <2>1, RequestRefines
  <2>2. CASE Tick \/ failJob
    BY <2>2 DEF Tick, failJob, items
  <2>3. CASE JobStep
    BY <2>3, JobRefines
  <2>4. CASE UNCHANGED vars
    BY <2>4 DEF vars, items
  <2> QED
    BY <2>1, <2>2, <2>3, <2>4 DEF Next
<1> QED
  BY <1>1, <1>2, CleanupTypeCorrect, PTL DEF Spec, RemovalSafe, FR!SafeSpec

----------------------------------------------------------------------------
(* Jobs that come in time and do not fail leave nothing behind.            *)

\* A job starts when the cron fires, and looks back to the last one at least.
Punctual == MaxDelay = 0 /\ Period <= Window

Failure == failJob \/ \E phase \in Phases : findStuck(phase)

\* Is the item about to be taken by the running attempt?  Its folder is in the
\* window, and in the batch if that is the last one of the item's phase, which
\* is still to come.
InReach(i) ==
  /\ running /\ parent[i] \in job.window
  /\ i \in Folders => job.step \in {"findChildren", "markChildren"}
  /\ /\ job.step = IF i \in Folders THEN "markChildren" ELSE "markFiles"
     /\ Cardinality(job.batch) # Batch
     => parent[i] \in job.batch

\* What is to be taken is in a folder that was removed since the last job
\* started, or else the running attempt is going to take it.  When a job is due
\* that was since the cron fired last.
PunctualInv ==
  /\ Punctual
  /\ waiting # 0 => clock = 0
  /\ \A i \in Items : FR!Doomed(i) =>
       IF waiting # 0 THEN age[parent[i]] <= Period
       ELSE age[parent[i]] <= clock \/ InReach(i)

\* What is to be taken is in a folder that is removed.
LEMMA DoomedIn ==
  ASSUME TypeOK, NEW i \in Items, FR!Doomed(i)
  PROVE  /\ parent[i] \in Folders /\ parent[i] \in gone
         /\ age[parent[i]] \in 0..Old
         /\ i \notin gone /\ parent[i] # Nowhere /\ i \notin strays
BY DEF TypeOK, FR!Doomed, FR!Live, Items

\* An item that a request lets be taken is in a folder the request removes.
LEMMA RequestLeavesNothing ==
  ASSUME TypeOK, TypeOK', PunctualInv, Request PROVE PunctualInv'
<1> SUFFICES ASSUME NEW i \in Items, FR!Doomed(i)'
             PROVE  IF waiting' # 0 THEN age'[parent'[i]] <= Period
                    ELSE age'[parent'[i]] <= clock' \/ InReach(i)'
  <2>1. UNCHANGED <<waiting, clock>>
    BY DEF Request, deleteFolder, createFolder, moveFolder, deleteFile, createFile, moveFile,
           lookedAt, refused, writeFile, writeFolder, arrives
  <2> QED BY <2>1 DEF PunctualInv, Punctual
<1>0. /\ parent'[i] \in gone' /\ i \notin gone' /\ parent'[i] # Nowhere /\ i \notin strays'
  BY DEF FR!Doomed, FR!Live
<1>1. ASSUME NEW f \in Folders, deleteFolder(f)
      PROVE  IF waiting' # 0 THEN age'[parent'[i]] <= Period
             ELSE age'[parent'[i]] <= clock' \/ InReach(i)'
  <2>1. CASE parent[i] = f
    <3>1. age'[parent'[i]] = 0
      BY <1>1, <2>1 DEF deleteFolder, TypeOK
    <3>2. clock' \in Nat
      BY DEF TypeOK
    <3> QED BY <3>1, <3>2
  <2>2. CASE parent[i] # f
    <3>1. FR!Doomed(i)
      BY <1>0, <1>1, <2>2 DEF deleteFolder, FR!Doomed, FR!Live
    <3>2. age'[parent'[i]] = age[parent[i]] /\ UNCHANGED <<waiting, clock>>
      BY <1>1, <2>2, <3>1, DoomedIn DEF deleteFolder, TypeOK
    <3>3. InReach(i) => InReach(i)'
      BY <1>1, <2>2 DEF deleteFolder, InReach, running, TypeOK, Jobs
    <3> QED BY <3>1, <3>2, <3>3 DEF PunctualInv
  <2> QED BY <2>1, <2>2
<1>2. ASSUME UNCHANGED <<age, clock, waiting, job>>, FR!Doomed(i), parent'[i] = parent[i]
      PROVE  IF waiting' # 0 THEN age'[parent'[i]] <= Period
             ELSE age'[parent'[i]] <= clock' \/ InReach(i)'
  BY <1>2 DEF PunctualInv, InReach, running
<1>3. ASSUME NEW f \in Folders, NEW p \in Folders \cup {Root}, createFolder(f, p)
      PROVE  FR!Doomed(i) /\ parent'[i] = parent[i]
  BY <1>0, <1>3 DEF createFolder, FR!Doomed, FR!Live, TypeOK, Items
<1>4. ASSUME UNCHANGED <<parent, gone, strays>>
      PROVE  FR!Doomed(i) /\ parent'[i] = parent[i]
  BY <1>4 DEF FR!Doomed, FR!Live
<1>5. ASSUME NEW j \in Items, NEW p \in Folders \cup {Root}, arrives(j, p),
             gone' \in {gone, gone \ {j}}
      PROVE  FR!Doomed(i) /\ parent'[i] = parent[i]
  <2>1. j # i
    <3> SUFFICES ASSUME j = i PROVE FALSE
      OBVIOUS
    <3>1. parent'[i] = p
      BY <1>5 DEF arrives, TypeOK
    <3>2. p \in gone
      BY <1>0, <1>5, <3>1
    <3> QED BY <1>0, <1>5, <3>2 DEF arrives
  <2>2. parent'[i] = parent[i] /\ (i \in strays => i \in strays') /\ (i \in gone => i \in gone')
    BY <1>5, <2>1 DEF arrives, TypeOK
  <2>3. parent[i] \in gone
    BY <1>0, <1>5, <2>2
  <2> QED BY <1>0, <2>2, <2>3 DEF FR!Doomed, FR!Live
<1>6. ASSUME NEW x \in Files, deleteFile(x) PROVE FR!Doomed(i) /\ parent'[i] = parent[i]
  <2>1. x # parent[i]
    BY <1>6 DEF TypeOK, Items
  <2> QED BY <1>0, <1>6, <2>1 DEF deleteFile, FR!Doomed, FR!Live
<1>7. ASSUME NEW f \in Folders, NEW p \in Folders \cup {Root}, writeFolder(f, p)
      PROVE  IF waiting' # 0 THEN age'[parent'[i]] <= Period
             ELSE age'[parent'[i]] <= clock' \/ InReach(i)'
  <2>1. FR!Doomed(i) /\ parent'[i] = parent[i]
    BY <1>5, <1>7 DEF writeFolder, Items
  <2>2. CASE parent[i] = f
    <3>1. age'[parent'[i]] = 0
      BY <1>7, <2>1, <2>2 DEF writeFolder, TypeOK
    <3>2. clock' \in Nat
      BY DEF TypeOK
    <3> QED BY <3>1, <3>2
  <2>3. CASE parent[i] # f
    <3>1. age'[parent'[i]] = age[parent[i]] /\ UNCHANGED <<waiting, clock>>
      BY <1>7, <2>1, <2>3, DoomedIn DEF writeFolder, arrives, TypeOK
    <3>2. InReach(i) => InReach(i)'
      BY <1>7, <2>1, <2>3 DEF writeFolder, InReach, running, TypeOK, Jobs
    <3> QED BY <2>1, <3>1, <3>2 DEF PunctualInv
  <2> QED BY <2>2, <2>3
<1>8. CASE \E f \in Folders : deleteFolder(f)
  BY <1>1, <1>8
<1>9. CASE \E f \in Folders, p \in Folders \cup {Root} : writeFolder(f, p)
  BY <1>7, <1>9
<1>10. CASE \E x \in Files, p \in Folders \cup {Root} : writeFile(x, p)
  <2>1. PICK x \in Files, p \in Folders \cup {Root} : writeFile(x, p)
    BY <1>10
  <2>2. UNCHANGED <<age, clock, waiting, job>>
    BY <2>1 DEF writeFile, arrives
  <2>3. FR!Doomed(i) /\ parent'[i] = parent[i]
    BY <1>5, <2>1 DEF writeFile, Items
  <2> QED BY <1>2, <2>2, <2>3
<1>11. CASE /\ ~ \E f \in Folders : deleteFolder(f)
            /\ ~ \E f \in Folders, p \in Folders \cup {Root} : writeFolder(f, p)
            /\ ~ \E x \in Files, p \in Folders \cup {Root} : writeFile(x, p)
  <2>1. UNCHANGED <<age, clock, waiting, job>>
    BY <1>11 DEF Request, createFolder, moveFolder, deleteFile, createFile, moveFile, lookedAt, refused
  <2>2. \/ \E f \in Folders, p \in Folders \cup {Root} : createFolder(f, p)
        \/ \E x \in Files : deleteFile(x)
        \/ UNCHANGED <<parent, gone, strays>>
    BY <1>11 DEF Request, moveFolder, createFile, moveFile, lookedAt, refused
  <2>3. FR!Doomed(i) /\ parent'[i] = parent[i]
    BY <2>2, <1>3, <1>4, <1>6
  <2> QED BY <1>2, <2>1, <2>3
<1> QED BY <1>8, <1>9, <1>10, <1>11

\* Time: while an attempt runs the cron does not fire.
LEMMA TickLeavesNothing ==
  ASSUME TypeOK, TypeOK', PunctualInv, Tick PROVE PunctualInv'
<1>1. waiting = 0
  BY DEF Tick, PunctualInv, Punctual, TypeOK
<1>2. /\ clock \in 0 .. (Period - 1) /\ clock' = (clock + 1) % Period
      /\ waiting' = (IF clock' = 0 THEN 1 ELSE 0)
      /\ running => clock < Period - 1
      /\ UNCHANGED <<parent, gone, strays, job>>
  BY <1>1 DEF Tick, TypeOK, items
<1>3. IF clock = Period - 1 THEN clock' = 0 ELSE clock' = clock + 1 /\ clock' # 0
  BY <1>2
<1>4. ASSUME NEW i \in Items, FR!Doomed(i)'
      PROVE  IF waiting' # 0 THEN age'[parent'[i]] <= Period
             ELSE age'[parent'[i]] <= clock' \/ InReach(i)'
  <2>1. FR!Doomed(i)
    BY <1>2, <1>4 DEF FR!Doomed, FR!Live
  <2>2. /\ age[parent[i]] \in Nat /\ parent[i] \in Folders
        /\ age[parent[i]] <= clock \/ InReach(i)
    BY <1>1, <2>1, DoomedIn DEF PunctualInv, Old
  <2>3. age'[parent'[i]] <= age[parent[i]] + 1
    BY <1>2, <2>2 DEF Tick
  <2>4. age'[parent'[i]] \in Nat
    BY <1>2, <2>2 DEF Tick
  <2>5. CASE InReach(i)
    <3>1. InReach(i)' /\ waiting' = 0
      BY <1>2, <1>3, <2>5 DEF InReach, running
    <3> QED BY <3>1
  <2>6. CASE age[parent[i]] <= clock
    BY <1>2, <1>3, <2>2, <2>3, <2>4, <2>6
  <2> QED BY <2>2, <2>5, <2>6
<1>5. waiting' # 0 => clock' = 0
  BY <1>2
<1> QED BY <1>4, <1>5 DEF PunctualInv, Punctual

\* The attempt starts with everything there is to take in its window.
LEMMA StartLeavesNothing ==
  ASSUME TypeOK, PunctualInv, startJob PROVE PunctualInv'
<1>1. waiting # 0 /\ clock = 0 /\ waiting' = 0 /\ UNCHANGED <<items, age, clock>>
  BY DEF startJob, PunctualInv, items
<1>2. job'.step = "findChildren" /\ job'.window = {f \in Folders : InWindow(f)}
  BY DEF startJob, Idle
<1>3. ASSUME NEW i \in Items, FR!Doomed(i)'
      PROVE  age'[parent'[i]] <= clock' \/ InReach(i)'
  <2>1. FR!Doomed(i)
    BY <1>1, <1>3 DEF FR!Doomed, FR!Live, items
  <2>2. age[parent[i]] <= Period /\ age[parent[i]] \in Nat /\ Period <= Window
        /\ parent[i] \in Folders /\ parent[i] \in gone
    BY <1>1, <2>1, DoomedIn DEF PunctualInv, Punctual, Old
  <2>3. CASE age[parent[i]] = 0
    BY <1>1, <2>3 DEF items
  <2>4. CASE age[parent[i]] # 0
    <3>1. InWindow(parent[i])
      BY <2>2, <2>4 DEF InWindow
    <3>2. parent'[i] \in job'.window
      BY <1>1, <1>2, <2>2, <3>1 DEF items
    <3> QED BY <1>2, <3>2 DEF InReach, running
  <2> QED BY <2>3, <2>4
<1> QED BY <1>1, <1>3 DEF PunctualInv, Punctual

\* What the attempt reads takes nothing out of its reach: the batch that is not
\* full has all that has something to take.
LEMMA FindLeavesNothing ==
  ASSUME TypeOK, PunctualInv, NEW phase \in Phases, findNone(phase) \/ findSome(phase)
  PROVE  PunctualInv'
<1>1. /\ waiting = 0 /\ UNCHANGED <<items, age, clock, waiting>>
      /\ job.step = FindStep(phase) /\ job \in Jobs
  BY RunningAlone DEF findNone, findSome, FindStep, Phases, running, items, TypeOK
<1>2. ASSUME NEW i \in Items, FR!Doomed(i), InReach(i) PROVE InReach(i)'
  <2>1. parent[i] \in job.window /\ Live(i) /\ i \in Folders \cup Files
    BY <1>2 DEF InReach, FR!Doomed, Live, Items
  <2>2. i \in (IF phase = "Children" THEN Folders ELSE Files) => parent[i] \in Candidates(phase)
    BY <2>1 DEF Candidates, LiveIn
  <2>3. phase = "Files" => i \in Files
    BY <1>1, <1>2, <2>1 DEF InReach, FindStep
  <2>4. CASE findNone(phase)
    <3>1. phase = "Children" /\ i \notin Folders
      BY <2>1, <2>2, <2>3, <2>4 DEF findNone, Phases
    <3>2. job'.step = "findFiles" /\ job'.window = job.window
      BY <2>4, <3>1 DEF findNone, AfterPhase, Idle
    <3> QED BY <1>1, <2>1, <3>1, <3>2 DEF InReach, running, items
  <2>5. CASE findSome(phase)
    <3>1. PICK batch \in Batches(phase) :
             job'.step = MarkStep(phase) /\ job'.window = job.window /\ job'.batch = batch
      BY <1>1, <2>5 DEF findSome, Jobs
    <3>2. Cardinality(batch) # Batch => batch = Candidates(phase)
      BY DEF Batches
    <3>3. parent'[i] \in job'.window
      BY <1>1, <2>1, <3>1 DEF items
    <3>4. phase = "Children" \/ (phase = "Files" /\ i \notin Folders)
      BY <2>3 DEF Phases
    <3> QED BY <1>1, <2>2, <2>3, <3>1, <3>2, <3>3, <3>4
            DEF InReach, running, MarkStep, items
  <2> QED BY <2>4, <2>5
<1>3. \A i : FR!Doomed(i)' <=> FR!Doomed(i)
  BY <1>1 DEF FR!Doomed, FR!Live, items
<1> QED BY <1>1, <1>2, <1>3 DEF PunctualInv, Punctual, items

\* What is in a folder that has just been removed is for the next job.
LEMMA MarkLeavesNothing ==
  ASSUME TypeOK, PunctualInv, markChildFoldersAsRemoved \/ markFilesInFolderAsRemoved
  PROVE  PunctualInv'
<1>1. PICK phase \in Phases :
         /\ job.step = MarkStep(phase) /\ job' = AfterBatch(phase)
         /\ gone' = gone \cup LiveIn(phase, job.batch)
         /\ IF phase = "Children" THEN markChildFoldersAsRemoved
            ELSE markFilesInFolderAsRemoved
  BY DEF markChildFoldersAsRemoved, markFilesInFolderAsRemoved, MarkStep, Phases
<1>2. waiting = 0 /\ UNCHANGED <<parent, clock, waiting>> /\ job \in Jobs
  BY RunningAlone
     DEF markChildFoldersAsRemoved, markFilesInFolderAsRemoved, running, TypeOK
<1>3. strays' = strays \ LiveIn(phase, job.batch)
  BY <1>1 DEF markChildFoldersAsRemoved, markFilesInFolderAsRemoved, Phases, LiveIn
<1>4. age' = [f \in Folders |-> IF phase = "Children" /\ f \in LiveIn(phase, job.batch)
                                THEN 0 ELSE age[f]]
  BY <1>1 DEF markChildFoldersAsRemoved, markFilesInFolderAsRemoved, TypeOK
<1>5. ASSUME NEW i \in Items, FR!Doomed(i)'
      PROVE  age'[parent'[i]] <= clock' \/ InReach(i)'
  <2>1. /\ parent[i] # Nowhere /\ i \notin gone /\ i \notin LiveIn(phase, job.batch)
        /\ i \notin strays /\ parent[i] \in gone \cup LiveIn(phase, job.batch)
    BY <1>1, <1>2, <1>3, <1>5 DEF FR!Doomed, FR!Live
  <2>2. parent[i] \in Folders
    BY <2>1 DEF TypeOK, LiveIn, Items
  <2>3. CASE parent[i] \in LiveIn(phase, job.batch)
    <3>1. phase = "Children"
      BY <2>2, <2>3 DEF LiveIn, Phases
    <3>2. age'[parent'[i]] = 0
      BY <1>2, <1>4, <2>2, <2>3, <3>1
    <3> QED BY <1>2, <3>2 DEF TypeOK
  <2>4. CASE parent[i] \notin LiveIn(phase, job.batch)
    <3>1. FR!Doomed(i)
      BY <2>1, <2>4 DEF FR!Doomed, FR!Live
    <3>2. age'[parent'[i]] = age[parent[i]]
      BY <1>2, <1>4, <2>2, <2>4
    <3>3. age[parent[i]] <= clock \/ InReach(i)
      BY <1>2, <3>1 DEF PunctualInv
    <3>4. ASSUME InReach(i) PROVE InReach(i)'
      <4>1. parent[i] \in job.window /\ Live(i) /\ i \in Folders \cup Files
        BY <3>1, <3>4 DEF InReach, FR!Doomed, Live, Items
      <4>2. phase = "Files" => i \in Files /\ i \notin Folders
        BY <1>1, <3>4, <4>1 DEF InReach, MarkStep
      <4>3. i \in (IF phase = "Children" THEN Folders ELSE Files) => parent[i] \notin job.batch
        BY <2>1, <4>1 DEF LiveIn
      <4>4. CASE Cardinality(job.batch) = Batch
        <5>1. job'.step = FindStep(phase) /\ job'.window = job.window
          BY <1>1, <1>2, <4>4 DEF AfterBatch, Jobs
        <5> QED BY <1>2, <4>1, <4>2, <5>1 DEF InReach, running, FindStep, Phases
      <4>5. CASE Cardinality(job.batch) # Batch
        <5>1. phase = "Children" /\ i \notin Folders
          BY <1>1, <3>4, <4>1, <4>2, <4>3, <4>5 DEF InReach, MarkStep, Phases
        <5>2. job'.step = "findFiles" /\ job'.window = job.window
          BY <1>1, <4>5, <5>1 DEF AfterBatch, AfterPhase, Idle
        <5> QED BY <1>2, <4>1, <5>1, <5>2 DEF InReach, running
      <4> QED BY <4>4, <4>5
    <3> QED BY <1>2, <3>2, <3>3, <3>4
  <2> QED BY <2>3, <2>4
<1> QED BY <1>2, <1>5 DEF PunctualInv, Punctual

LEMMA PunctualStep ==
  ASSUME TypeOK, TypeOK', PunctualInv, [Next]_vars, [~ Failure]_vars
  PROVE  PunctualInv'
<1>1. CASE UNCHANGED vars
  BY <1>1 DEF vars, PunctualInv, Punctual, InReach, running, FR!Doomed, FR!Live
<1>2. CASE Next /\ ~ Failure
  BY <1>2, RequestLeavesNothing, TickLeavesNothing, StartLeavesNothing, FindLeavesNothing,
     MarkLeavesNothing
     DEF Next, JobStep, Failure
<1> QED BY <1>1, <1>2

\* As long as jobs start when the cron fires and none of their attempts fails,
\* each leaves nothing of its half hour behind, for any folders, batches and
\* requests in between: late jobs and retries are what NothingLeftBehind can
\* fail for, and nothing else.
THEOREM PunctualJobsLeaveNothing ==
  Punctual /\ Spec /\ [][~ Failure]_vars => []NothingLeftBehind
<1>1. Punctual /\ Init => PunctualInv
  BY DEF Init, FR!Init, PunctualInv, FR!Doomed, FR!Live
<1>2. TypeOK /\ TypeOK' /\ PunctualInv /\ [Next]_vars /\ [~ Failure]_vars => PunctualInv'
  BY PunctualStep
<1>3. PunctualInv => NothingLeftBehind
  BY DEF PunctualInv, NothingLeftBehind, InReach
<1> QED
  BY <1>1, <1>2, <1>3, CleanupTypeCorrect, PTL DEF Spec

===============================================================================
