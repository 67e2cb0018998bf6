----------------------------- MODULE EmptyTrash -----------------------------
(***************************************************************************)
(* Emptying the trash of a user: the request counts what is in the trash   *)
(* and then deletes batches, files and folders side by side, until it has  *)
(* deleted as many as it counted or finds nothing more.  A big trash is    *)
(* emptied by an event handler instead, under a lock in redis that lapses  *)
(* after two seconds and that no handler checks again.                     *)
(*                                                                         *)
(* Meanwhile the user trashes and restores items, and asks again.  The two *)
(* counts are taken in one step; each batch is an UPDATE of its own.       *)
(***************************************************************************)
EXTENDS Naturals, FiniteSets

CONSTANTS
  UserFiles, UserFolders,   \* the user's items
  Requests,         \* requests to empty the trash
  Free,             \* nobody holds the lock
  AsyncAbove,       \* items from which on the handler does it (10000)
  SyncChunk,        \* items a batch of the request takes at most (100)
  AsyncChunk        \* items a batch of the handler takes at most (1000)

ASSUME EmptyTrashAssumption ==
  /\ UserFiles \cap UserFolders = {}
  /\ IsFiniteSet(UserFiles) /\ IsFiniteSet(UserFolders)
  /\ Free \notin Requests
  /\ AsyncAbove \in Nat
  /\ SyncChunk \in Nat \ {0} /\ AsyncChunk \in Nat \ {0}
  /\ SyncChunk # AsyncChunk   \* the size tells the handler from the request

VARIABLES
  where,      \* where each item is
  state,      \* how far each request is
  count,      \* what each request counted, by kind
  processed,  \* what each request has deleted, by kind
  loop,       \* the two loops of each request
  chunk,      \* the size of the batches of each request
  lock,       \* the request that set the lock in redis
  late        \* history: the items trashed since the request counted

run == <<state, count, processed, loop, chunk>>
trashVars == <<where, state, count, processed, loop, chunk, lock, late>>

Kinds == {"files", "folders"}
ItemsOf(k) == IF k = "files" THEN UserFiles ELSE UserFolders
UserItems == UserFiles \cup UserFolders

Trash(k) == {i \in ItemsOf(k) : where[i] = "trash"}

States == {"none", "emitted", "deleting", "dropped", "completed", "failed"}

TrashInit ==
  /\ where = [i \in UserItems |-> "drive"]
  /\ state = [r \in Requests |-> "none"]
  /\ count = [r \in Requests |-> [k \in Kinds |-> 0]]
  /\ processed = count
  /\ loop = [r \in Requests |-> [k \in Kinds |-> "off"]]
  /\ chunk = [r \in Requests |-> SyncChunk]
  /\ lock = Free
  /\ late = [r \in Requests |-> {}]

----------------------------------------------------------------------------
(* The user *)

Started(r) == state[r] # "none"

moveItemToTrash(i) ==
  /\ where[i] = "drive"
  /\ where' = [where EXCEPT ![i] = "trash"]
  /\ late' = [r \in Requests |-> IF Started(r) THEN late[r] \cup {i} ELSE late[r]]
  /\ UNCHANGED <<run, lock>>

restoreItem(i) ==
  /\ where[i] = "trash"
  /\ where' = [where EXCEPT ![i] = "drive"]
  /\ UNCHANGED <<run, lock, late>>

----------------------------------------------------------------------------
(* The request *)

\* performTrashDeletion starts both loops.
StartLoops(r) == loop' = [loop EXCEPT ![r] = [k \in Kinds |-> "on"]]

\* Counts, and hands a big trash over to the handler.
emptyTrash(r) ==
  /\ state[r] = "none"
  /\ count' = [count EXCEPT ![r] = [k \in Kinds |-> Cardinality(Trash(k))]]
  /\ IF Cardinality(Trash("files")) + Cardinality(Trash("folders")) > AsyncAbove
       THEN state' = [state EXCEPT ![r] = "emitted"] /\ UNCHANGED loop
       ELSE state' = [state EXCEPT ![r] = "deleting"] /\ StartLoops(r)
  /\ UNCHANGED <<where, processed, chunk, lock, late>>

\* The batches of the handler are bigger.
HandlerChunk(r) == AsyncChunk

\* The handler takes the lock, or goes on without it when redis is away.
handleEmptyTrashRequested(r) ==
  /\ state[r] = "emitted"
  /\ \/ lock = Free /\ lock' = r
     \/ UNCHANGED lock   \* redis fails
  /\ state' = [state EXCEPT ![r] = "deleting"]
  /\ chunk' = [chunk EXCEPT ![r] = HandlerChunk(r)]
  /\ StartLoops(r)
  /\ UNCHANGED <<where, count, processed, late>>

\* Somebody else holds the lock: the handler leaves it at that.
handleLocked(r) ==
  /\ state[r] = "emitted"
  /\ lock # Free
  /\ state' = [state EXCEPT ![r] = "dropped"]
  /\ UNCHANGED <<where, count, processed, loop, chunk, lock, late>>

\* The lock lapses.
lockExpires ==
  /\ lock # Free
  /\ lock' = Free
  /\ UNCHANGED <<where, run, late>>

\* Mutant: one short.
EndedEarly(r, k) == processed[r][k] + 1 >= count[r][k]

\* The loop has deleted as many as were counted.
Ended(r, k) == processed[r][k] >= count[r][k]

\* UPDATE ... LIMIT: as many as there are, up to the size of a batch, and any
\* of them.
deleteBatch(r, k) ==
  /\ loop[r][k] = "on"
  /\ ~ Ended(r, k)
  /\ \E batch \in SUBSET Trash(k) :
       /\ batch # {}
       /\ \/ Cardinality(batch) = chunk[r]
          \/ batch = Trash(k) /\ Cardinality(batch) < chunk[r]
       /\ where' = [i \in UserItems |-> IF i \in batch THEN "gone" ELSE where[i]]
       /\ processed' = [processed EXCEPT ![r][k] = @ + Cardinality(batch)]
  /\ UNCHANGED <<state, count, loop, chunk, lock, late>>

\* A batch finds nothing: what was counted is no longer there.
NothingLeft(k) == Trash(k) = {}

\* Enough was deleted, or a batch found nothing.
endLoop(r, k) ==
  /\ loop[r][k] = "on"
  /\ Ended(r, k) \/ NothingLeft(k)
  /\ loop' = [loop EXCEPT ![r][k] = "done"]
  /\ UNCHANGED <<where, state, count, processed, chunk, lock, late>>

\* A batch throws.  The other loop goes on.
failLoop(r, k) ==
  /\ loop[r][k] = "on"
  /\ loop' = [loop EXCEPT ![r][k] = "failed"]
  /\ UNCHANGED <<where, state, count, processed, chunk, lock, late>>

\* Both loops are done, or one failed.  The handler deletes the lock, whoever
\* set it; the delete may fail.
finish(r) ==
  /\ state[r] = "deleting"
  /\ \/ /\ \A k \in Kinds : loop[r][k] = "done"
        /\ state' = [state EXCEPT ![r] = "completed"]
     \/ /\ \E k \in Kinds : loop[r][k] = "failed"
        /\ state' = [state EXCEPT ![r] = "failed"]
  /\ \/ lock' = Free /\ chunk[r] = AsyncChunk
     \/ UNCHANGED lock
  /\ UNCHANGED <<where, count, processed, loop, chunk, late>>

----------------------------------------------------------------------------

User ==
  \/ \E i \in UserItems : moveItemToTrash(i) \/ restoreItem(i)
  \/ \E r \in Requests : emptyTrash(r)

Server(r) ==
  \/ handleEmptyTrashRequested(r) \/ handleLocked(r) \/ finish(r)
  \/ \E k \in Kinds : deleteBatch(r, k) \/ endLoop(r, k)

TrashNext ==
  \/ User
  \/ lockExpires
  \/ \E r \in Requests : Server(r) \/ \E k \in Kinds : failLoop(r, k)

\* The server goes on with what it started; nobody has to ask for anything,
\* and nothing has to fail.
TrashSpec == TrashInit /\ [][TrashNext]_trashVars /\ \A r \in Requests : WF_trashVars(Server(r))

----------------------------------------------------------------------------
(* Properties *)

\* Items, requests, loops and the lock keep their types: a batch has one of the
\* two sizes, and counts are never negative.
TrashTypeOK ==
  /\ where \in [UserItems -> {"drive", "trash", "gone"}]
  /\ state \in [Requests -> States]
  /\ count \in [Requests -> [Kinds -> Nat]]
  /\ processed \in [Requests -> [Kinds -> Nat]]
  /\ loop \in [Requests -> [Kinds -> {"off", "on", "done", "failed"}]]
  /\ chunk \in [Requests -> {SyncChunk, AsyncChunk}]
  /\ lock \in Requests \cup {Free}
  /\ late \in [Requests -> SUBSET UserItems]

\* However many requests, handlers without the lock and user actions race,
\* a loop that ends leaves no more items in the trash than were put there
\* since it was counted.
LeavesOnlyAsManyAsAdded ==
  [][\A r \in Requests, k \in Kinds :
       loop[r][k] = "on" /\ loop'[r][k] = "done" =>
         Cardinality(Trash(k)) <= Cardinality(late[r] \cap ItemsOf(k))]_trashVars

\* Every request to empty the trash comes to an end, though the counts it goes
\* by are soon out of date: items it counted are restored, or deleted by
\* another request.  (A request that has ended stays so.)
Terminates == \A r \in Requests : []<>(state[r] \notin {"emitted", "deleting"})

============================================================================
