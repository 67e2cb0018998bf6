------------------------- MODULE DeletedItemsCleanup -------------------------
(***************************************************************************)
(* The job that takes what was in a removed folder, and the clock it runs  *)
(* by.                                                                     *)
(*                                                                         *)
(* A request that removes a folder writes that one row: removed = true and *)
(* updated_at = now.  Every half hour a cron enqueues a job, and the job   *)
(* looks for removed folders whose updated_at is in the half hour before   *)
(* it starts and which still have live children: it removes the children   *)
(* (their own updated_at becomes now, so that the next job takes the level *)
(* below), then the files.  Nothing else ever looks at those folders       *)
(* again: what a job misses stays.                                         *)
(*                                                                         *)
(* Time is discrete.  updated_at is kept as its age in ticks, which stops  *)
(* counting where no window reaches any more; the folders in a job's       *)
(* window are computed when it starts, and a folder whose updated_at       *)
(* moves leaves them.  A request that moves an item or creates a file      *)
(* looks first and writes some time later, whatever has become of the item *)
(* and the folder by then; the job's queries and updates are steps of      *)
(* their own too.  What the requests have to do with names is left to      *)
(* FileLifecycle and FolderTree: a refusal because of one is `refused'.    *)
(***************************************************************************)
EXTENDS Naturals, FiniteSets

CONSTANTS
  Folders, Files, Root, Nowhere,   \* as in FolderRemoval
  Period,       \* ticks between two firings of the cron (30 minutes)
  Window,       \* ticks a job looks back (30 minutes)
  Batch,        \* folders a query returns at most (100)
  MaxRepeats,   \* times a folder may come back before the job gives up (3)
  Attempts,     \* attempts the queue gives a job (2)
  MaxDelay,     \* ticks after the cron by which an attempt has started
  MaxFailures,  \* attempts of one job that a failing query may end
  MaxAgain,     \* removals, in all, of folders that are removed already
  MaxUnderWay   \* requests at once that have looked and not written yet

ASSUME CleanupAssumption ==
  /\ {Period, Window, Batch, MaxRepeats, Attempts} \subseteq Nat \ {0}
  /\ {MaxDelay, MaxFailures, MaxAgain, MaxUnderWay} \subseteq Nat
  /\ MaxDelay < Period
  /\ Root \notin Folders \cup Files
  /\ Nowhere \notin Folders \cup Files \cup {Root}
  /\ Folders \cap Files = {}
  /\ IsFiniteSet(Folders) /\ IsFiniteSet(Files)

VARIABLES
  parent, gone, strays, underWay,   \* as in FolderRemoval
  age,       \* ticks since a removed folder's updated_at
  again,     \* how many times a removed folder was removed again
  clock,     \* ticks since the cron fired
  waiting,   \* the attempt that waits in the queue; 0 when none does
  job        \* what the running attempt knows

items == <<parent, gone, strays, underWay>>
vars == <<parent, gone, strays, underWay, age, again, clock, waiting, job>>

Items == Folders \cup Files

\* The promise the job is to keep.
FR == INSTANCE FolderRemoval

\* An age that no window reaches, now or later.
Old == Window + 1

Steps == {"idle", "findChildren", "markChildren", "findFiles", "markFiles"}

Jobs ==
  [step : Steps, attempt : 0..Attempts,
   window : SUBSET Folders, batch : SUBSET Folders,
   first : Folders \cup {Nowhere}, repeats : 0..MaxRepeats]

Idle ==
  [step |-> "idle", attempt |-> 0, window |-> {}, batch |-> {},
   first |-> Nowhere, repeats |-> 0]

Live(i) == FR!Live(i)

Init ==
  /\ FR!Init
  /\ age = [f \in Folders |-> 0]
  /\ again = 0
  /\ clock = 0
  /\ waiting = 1
  /\ job = Idle

----------------------------------------------------------------------------
(* Requests                                                                *)

\* The parent is looked up by uuid and owner: it may be removed.
createFolder(f, p) ==
  /\ parent[f] = Nowhere
  /\ p \in FR!KnownFolders
  /\ parent' = [parent EXCEPT ![f] = p]
  /\ strays' = IF p \in gone THEN strays \cup {f} ELSE strays
  /\ UNCHANGED <<gone, underWay, age, again, clock, waiting, job>>

\* A request has looked at the item and at the folder it is to go into.
lookedAt(i, p) ==
  /\ Cardinality(underWay) < MaxUnderWay
  /\ FR!Way(i, p) \notin underWay
  /\ underWay' = underWay \cup {FR!Way(i, p)}
  /\ UNCHANGED <<parent, gone, strays, age, again, clock, waiting, job>>

\* The folder of a new file is looked up among those not removed.
createFile(x, p) ==
  /\ parent[x] = Nowhere
  /\ \A q \in Folders \cup {Root} : FR!Way(x, q) \notin underWay
  /\ p \in FR!LiveFolders
  /\ lookedAt(x, p)

\* A folder leaves neither a removed folder nor for one.  The destination may
\* be the folder itself or below it.
moveFolder(f, p) ==
  /\ Live(f)
  /\ parent[f] \notin gone
  /\ p \in FR!LiveFolders
  /\ lookedAt(f, p)

moveFileUnchecked(x, p) ==
  /\ Live(x)
  /\ p \in FR!KnownFolders
  /\ lookedAt(x, p)

\* A file may leave a removed folder; it may not go into one.
moveFile(x, p) ==
  /\ Live(x)
  /\ p \in FR!LiveFolders
  /\ lookedAt(x, p)

\* A name that is taken, or a limit.
refused(i, p) ==
  /\ FR!Way(i, p) \in underWay
  /\ underWay' = underWay \ {FR!Way(i, p)}
  /\ UNCHANGED <<parent, gone, strays, age, again, clock, waiting, job>>

\* What is live and in a removed folder by now came too late for the removal.
arrives(i, p) ==
  /\ FR!Way(i, p) \in underWay
  /\ underWay' = underWay \ {FR!Way(i, p)}
  /\ parent' = [parent EXCEPT ![i] = p]
  /\ strays' = IF p \in gone /\ i \notin gone' THEN strays \cup {i} ELSE strays \ {i}
  /\ UNCHANGED <<again, clock, waiting>>

\* The row of a file is inserted, or updated with the status EXISTS whatever
\* it has become.
writeFile(x, p) ==
  /\ gone' = gone \ {x}
  /\ arrives(x, p)
  /\ UNCHANGED <<age, job>>

\* The row of a folder is saved with its updated_at, removed or not.
writeFolder(f, p) ==
  /\ UNCHANGED gone
  /\ arrives(f, p)
  /\ age' = [age EXCEPT ![f] = 0]
  /\ job' = [job EXCEPT !.window = @ \ {f}]

\* Updates the row whether or not it was removed, and so its updated_at.
deleteFolder(f) ==
  /\ parent[f] # Nowhere
  /\ f \in gone => again < MaxAgain
  /\ again' = IF f \in gone THEN again + 1 ELSE again
  /\ gone' = gone \cup {f}
  /\ strays' = strays \ {f}
  /\ age' = [age EXCEPT ![f] = 0]
  /\ job' = [job EXCEPT !.window = @ \ {f}]
  /\ UNCHANGED <<parent, underWay, clock, waiting>>

deleteFile(x) ==
  /\ Live(x)
  /\ gone' = gone \cup {x}
  /\ strays' = strays \ {x}
  /\ UNCHANGED <<parent, underWay, age, again, clock, waiting, job>>

----------------------------------------------------------------------------
(* Time and the queue                                                      *)

running == job.step # "idle"

\* A tick of the clock.  An attempt starts in time and ends before the cron
\* fires again; firing, the cron enqueues a job.
Tick ==
  /\ waiting # 0 => clock < MaxDelay
  /\ waiting # 0 \/ running => clock < Period - 1
  /\ clock' = (clock + 1) % Period
  /\ waiting' = IF clock' = 0 THEN 1 ELSE waiting
  /\ age' = [f \in Folders |->
               IF f \in gone /\ age[f] < Old THEN age[f] + 1 ELSE age[f]]
  /\ UNCHANGED <<items, again, job>>

InWindowShort(f) == f \in gone /\ age[f] >= 1 /\ age[f] < Window

\* updated_at is at or after the start of the window and before its end.
InWindow(f) == f \in gone /\ age[f] >= 1 /\ age[f] <= Window

\* An attempt takes the time it starts at as the end of its window, a retry
\* like a first attempt.
startJob ==
  /\ waiting # 0
  /\ ~ running
  /\ job' = [Idle EXCEPT !.step = "findChildren",
                         !.attempt = waiting,
                         !.window = {f \in Folders : InWindow(f)}]
  /\ waiting' = 0
  /\ UNCHANGED <<items, age, again, clock>>

failedOnceMore ==
  /\ job' = Idle
  /\ waiting' = IF job.attempt <= Attempts THEN job.attempt + 1 ELSE 0

\* The attempt throws: the queue tries again or drops the job.
failed ==
  /\ job' = Idle
  /\ waiting' = IF job.attempt < Attempts THEN job.attempt + 1 ELSE 0

\* A query or an update of the attempt fails.
failJob ==
  /\ running
  /\ job.attempt <= MaxFailures
  /\ failed
  /\ UNCHANGED <<items, age, again, clock>>

----------------------------------------------------------------------------
(* The job                                                                 *)

Phases == {"Children", "Files"}

FindStep(phase) == IF phase = "Children" THEN "findChildren" ELSE "findFiles"
MarkStep(phase) == IF phase = "Children" THEN "markChildren" ELSE "markFiles"

\* The live folders, or the live files, that are in one of the folders.
LiveIn(phase, folders) ==
  {i \in IF phase = "Children" THEN Folders ELSE Files :
     Live(i) /\ parent[i] \in folders}

\* Removed folders of the window that still hold something.
Candidates(phase) == {f \in job.window : LiveIn(phase, {f}) # {}}

\* The job after a phase: the files after the folders, then nothing.
AfterPhase(phase) ==
  IF phase = "Children"
    THEN [Idle EXCEPT !.step = "findFiles",
                      !.attempt = job.attempt,
                      !.window = job.window]
    ELSE Idle

\* LIMIT without ORDER BY: any of the candidates.
Batches(phase) ==
  {batch \in SUBSET Candidates(phase) :
     \/ Cardinality(batch) = Batch
     \/ batch = Candidates(phase) /\ Cardinality(batch) < Batch}

\* The query finds nothing: the phase is over.
findNone(phase) ==
  /\ job.step = FindStep(phase)
  /\ Candidates(phase) = {}
  /\ job' = AfterPhase(phase)
  /\ UNCHANGED <<items, age, again, clock, waiting>>

\* The query finds folders, and the one that is watched is not too often
\* among them.
findSome(phase) ==
  /\ job.step = FindStep(phase)
  /\ \E batch \in Batches(phase) \ {{}} :
       /\ \/ /\ job.first \in batch
             /\ job.repeats + 1 < MaxRepeats
             /\ job' = [job EXCEPT !.step = MarkStep(phase), !.batch = batch,
                                   !.repeats = @ + 1]
          \/ /\ job.first \notin batch
             /\ \E first \in batch :
                  job' = [job EXCEPT !.step = MarkStep(phase),
                                     !.batch = batch,
                                     !.first = first, !.repeats = 0]
  /\ UNCHANGED <<items, age, again, clock, waiting>>

\* The folder that is watched came back once too often.
findStuck(phase) ==
  /\ job.step = FindStep(phase)
  /\ \E batch \in Batches(phase) :
       job.first \in batch /\ job.repeats + 1 >= MaxRepeats
  /\ failed
  /\ UNCHANGED <<items, age, again, clock>>

\* After a batch: another one when it was full.
AfterBatch(phase) ==
  IF Cardinality(job.batch) = Batch
    THEN [job EXCEPT !.step = FindStep(phase), !.batch = {}]
    ELSE AfterPhase(phase)

markChildFoldersStale ==
  LET children == LiveIn("Children", job.batch) IN
  /\ job.step = "markChildren"
  /\ gone' = gone \cup children
  /\ strays' = strays \ children
  /\ age' = [f \in Folders |-> IF f \in children THEN Old ELSE age[f]]
  /\ job' = AfterBatch("Children")
  /\ UNCHANGED <<parent, underWay, again, clock, waiting>>

\* The update reads the tree again: it takes the children there are by now.
markChildFoldersAsRemoved ==
  LET children == LiveIn("Children", job.batch) IN
  /\ job.step = "markChildren"
  /\ gone' = gone \cup children
  /\ strays' = strays \ children
  /\ age' = [f \in Folders |-> IF f \in children THEN 0 ELSE age[f]]
  /\ job' = AfterBatch("Children")
  /\ UNCHANGED <<parent, underWay, again, clock, waiting>>

markFilesInFolderAsRemoved ==
  /\ job.step = "markFiles"
  /\ gone' = gone \cup LiveIn("Files", job.batch)
  /\ strays' = strays \ LiveIn("Files", job.batch)
  /\ job' = AfterBatch("Files")
  /\ UNCHANGED <<parent, underWay, age, again, clock, waiting>>

----------------------------------------------------------------------------

Request ==
  \/ \E f \in Folders :
       \/ deleteFolder(f)
       \/ \E p \in Folders \cup {Root} :
            createFolder(f, p) \/ moveFolder(f, p) \/ writeFolder(f, p)
  \/ \E x \in Files :
       \/ deleteFile(x)
       \/ \E p \in Folders \cup {Root} :
            createFile(x, p) \/ moveFile(x, p) \/ writeFile(x, p)
  \/ \E i \in Items, p \in Folders \cup {Root} : refused(i, p)

JobStep ==
  \/ startJob
  \/ \E phase \in Phases : findNone(phase) \/ findSome(phase) \/ findStuck(phase)
  \/ markChildFoldersAsRemoved
  \/ markFilesInFolderAsRemoved

Next == Request \/ Tick \/ failJob \/ JobStep

\* Time passes and the worker goes on; no request has to come.
Fairness == WF_vars(Tick) /\ WF_vars(JobStep)

Spec == Init /\ [][Next]_vars /\ Fairness

----------------------------------------------------------------------------
(* Properties                                                              *)

\* Only folders that exist are moved.
WaysTypeOK ==
  /\ underWay \in SUBSET [item : Items, to : Folders \cup {Root}]
  /\ \A way \in underWay : way.item \in Folders => parent[way.item] # Nowhere

\* Tree, clock, queue and job keep their types: only what exists is removed, a
\* stray is live and in a removed folder, and the job works on removed folders.
TypeOK ==
  /\ parent \in [Items -> Folders \cup {Root, Nowhere}]
  /\ gone \in SUBSET Items /\ \A i \in gone : parent[i] # Nowhere
  /\ strays \in SUBSET (Items \ gone) /\ \A i \in strays : parent[i] \in gone
  /\ WaysTypeOK
  /\ age \in [Folders -> 0..Old]
  /\ again \in 0..MaxAgain
  /\ clock \in 0..(Period - 1)
  /\ waiting \in 0..Attempts
  /\ waiting # 0 => ~ running
  /\ job \in Jobs
  /\ job.window \cup job.batch \subseteq gone

\* When no job is queued or running, every removed folder that still holds an
\* item it held when it was removed was removed after the last job started:
\* process() has left nothing of its half hour, or of any earlier one, behind.
NothingLeftBehind ==
  ~ running /\ waiting = 0 =>
    \A i \in Items : FR!Doomed(i) => age[parent[i]] <= clock

\* The job never takes an item whose folder is not removed by then, however
\* late it writes and whatever has moved since it looked; and no request brings
\* an item back, or into a removed folder unseen by the job, but one that had
\* looked before: requests and job together do only what FolderRemoval allows.
RemovalSafe == FR!SafeSpec

\* Requests, cron and job together keep the promise of FolderRemoval: an item
\* in a removed folder is removed in the end, at any depth, unless it leaves or
\* came there late.
RemovalKept == FR!Spec

============================================================================
