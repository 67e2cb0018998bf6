------------------------------ MODULE TrashExpiry ------------------------------
(***************************************************************************)
(* What has been in the trash for as long as the plan of its user allows   *)
(* is deleted.  A cron adds a job for each tier with such a limit, unless  *)
(* the tier has one in the queue; workers take jobs, and delete batches of *)
(* files and then of folders.  A worker that does not renew its hold of a  *)
(* job in time loses it to the next one, though it may well go on.         *)
(*                                                                         *)
(* Times are ages in ticks, which stop counting where no limit reaches.    *)
(***************************************************************************)
EXTENDS Integers, FiniteSets, Sequences

CONSTANTS
    Files, Folders,
    Users, user,     \* the user of an item
    Tiers,
    retention,       \* of a tier: trash-retention-days, or None
    Workers,         \* two of a process
    batchSize,       \* rows an UPDATE takes at most (100)
    Attempts,        \* the queue gives a job (3)
    maxStalledCount, \* times a job may be lost (2)
    Period,          \* ticks between two firings of the cron (10 minutes)
    MaxTroubles,     \* bound: errors, and jobs lost
    MaxMoves         \* bound: users that change their tier

VARIABLES
    where,     \* where each item is
    age,       \* time since an item in the trash was last updated
    tier,      \* of each user
    deployed,  \* time since the job was deployed
    clock,     \* time since the cron fired
    queue,     \* tiers whose jobs wait
    job,       \* of each tier
    worker,    \* what each worker is at
    troubles, moves

expiryVars == <<where, age, tier, deployed, clock, queue, job, worker, troubles, moves>>

----------------------------------------------------------------------------
None == -1

Items == Files \cup Folders

Limited == {t \in Tiers : retention[t] # None}

\* An age that is beyond every limit.
Old == 1 + CHOOSE n \in {retention[t] : t \in Limited} : \A t \in Limited : retention[t] <= n

\* Items have a user; limits are in ticks, and one is the longest.
ExpiryConstants ==
    /\ user \in [Items -> Users]
    /\ IsFiniteSet(Tiers) /\ retention \in [Tiers -> Nat \cup {None}]
    /\ \E t \in Limited : \A s \in Limited : retention[s] <= retention[t]

NoJob == [attempt |-> 0, stalled |-> 0]

NoTier == "none"

Unoccupied == [tier |-> NoTier, step |-> "idle", holds |-> FALSE, expired |-> {}, due |-> {}, previous |-> {}, again |-> 0]

Init ==
    /\ where \in [Items -> {"drive", "trash"}]
    /\ age \in [Items -> {0, Old}] /\ \A i \in Items : age[i] = Old => where[i] = "trash"
    /\ tier \in [Users -> Tiers]
    /\ deployed = 0 /\ clock = 0
    /\ queue = <<>> /\ job = [t \in Tiers |-> NoJob]
    /\ worker = [w \in Workers |-> Unoccupied]
    /\ troubles = 0 /\ moves = 0

jobs == <<queue, job>>

Trashed(i) == where[i] = "trash"

Expired(i, t) == Trashed(i) /\ retention[t] # None /\ age[i] >= retention[t]

\* The tier is the user's.
Due(i, t) == Expired(i, t) /\ tier[user[i]] = t

----------------------------------------------------------------------------
(* Users.  A write to an item in the trash makes it expire later.          *)

Touched(S) ==
    worker' = [w \in Workers |-> [worker[w] EXCEPT !.expired = @ \ S, !.due = @ \ S]]

Put(i, place) ==
    /\ where' = [where EXCEPT ![i] = place] /\ age' = [age EXCEPT ![i] = 0]
    /\ Touched({i})
    /\ UNCHANGED <<tier, deployed, clock, jobs, troubles, moves>>

moveItemToTrash(i) == where[i] = "drive" /\ Put(i, "trash")

restoreItem(i) == Trashed(i) /\ Put(i, "drive")

updateItem(i) == Trashed(i) /\ age[i] > 0 /\ Put(i, "trash")

\* What is due to a job is no longer, once its user leaves.
updateUserTier(u, t) ==
    /\ moves < MaxMoves /\ moves' = moves + 1
    /\ t # tier[u] /\ tier' = [tier EXCEPT ![u] = t]
    /\ worker' = [w \in Workers |-> [worker[w] EXCEPT !.due = {i \in @ : user[i] # u}]]
    /\ UNCHANGED <<where, age, deployed, clock, jobs, troubles>>

----------------------------------------------------------------------------
(* The cron and the queue                                                  *)

Known(t) == job[t] # NoJob

\* trash-cleanup:tier:<id>: what the queue knows is not added again.
NewJobs == {t \in Limited : ~ Known(t)}

\* Where the queue fails, the tiers that come later get no job this time.
scheduleCleanup(added, order) ==
    /\ job' = [t \in Tiers |-> IF t \in added THEN [NoJob EXCEPT !.attempt = 1] ELSE job[t]]
    /\ queue' = queue \o order

Older(n) == IF n < Old THEN n + 1 ELSE n

Tick ==
    /\ clock' = (clock + 1) % Period
    /\ age' = [i \in Items |-> IF Trashed(i) THEN Older(age[i]) ELSE age[i]]
    /\ deployed' = Older(deployed)
    /\ IF clock' # 0 THEN UNCHANGED <<jobs, troubles>>
       ELSE \E added \in SUBSET NewJobs :
                /\ added = NewJobs \/ troubles < MaxTroubles
                /\ troubles' = IF added = NewJobs THEN troubles ELSE troubles + 1
                /\ \E order \in {s \in [1 .. Cardinality(added) -> added] : \A p, q \in DOMAIN s : s[p] = s[q] => p = q} :
                       scheduleCleanup(added, order)
    /\ UNCHANGED <<where, tier, worker, moves>>

Working(w) == worker[w].step # "idle"

\* Mutant: a job that failed stays in the queue.
keepsFailed(t, state) == job' = (IF state = "failed" THEN job ELSE [job EXCEPT ![t] = NoJob]) /\ UNCHANGED queue

\* removeOnComplete and removeOnFail: the cron may add the tier again.
Removes(t, state) == job' = [job EXCEPT ![t] = NoJob] /\ UNCHANGED queue

Waits(t, waiting) == job' = [job EXCEPT ![t] = waiting] /\ queue' = Append(queue, t)

\* The attempt throws, at the worker that holds the job.
Throws(t) ==
    IF job[t].attempt < Attempts THEN Waits(t, [job[t] EXCEPT !.attempt = @ + 1]) ELSE Removes(t, "failed")

----------------------------------------------------------------------------
(* process()                                                               *)

\* The cutoff is before the job was first deployed.
skipped(t) == deployed < retention[t]

\* Nothing that was updated after the cutoff will do, whoever has the tier by then.
startJob(w) ==
    /\ ~ Working(w) /\ queue # <<>>
    /\ LET t == Head(queue)
       IN  /\ queue' = Tail(queue)
           /\ IF skipped(t)
              THEN job' = [job EXCEPT ![t] = NoJob] /\ UNCHANGED worker
              ELSE /\ worker' = [worker EXCEPT ![w] =
                          [Unoccupied EXCEPT !.tier = t, !.step = "files", !.holds = TRUE,
                                       !.expired = {i \in Items : Expired(i, t)},
                                       !.due = {i \in Items : Due(i, t)}]]
                   /\ UNCHANGED job
    /\ UNCHANGED <<where, age, tier, deployed, clock, troubles, moves>>

OfStep(step) == IF step = "files" THEN Files ELSE Folders

\* Mutant: the tier of users is not looked at.
ofAnyTier(w) == worker[w].expired

\* JOIN users u ON u.id = f.user_id AND u.tier_id = :tierId
OfTier(w) == {i \in worker[w].expired : tier[user[i]] = worker[w].tier}

Deletes(S) ==
    /\ where' = [i \in Items |-> IF i \in S THEN "gone" ELSE where[i]]
    /\ age' = [i \in Items |-> IF i \in S THEN 0 ELSE age[i]]

NextStep(step) == IF step = "files" THEN "folders" ELSE "done"

\* Mutant: one batch will do.
onlyOnce(w, batch) == NextStep(worker[w].step)

\* Until a batch is not full.
StepAfter(w, batch) ==
    IF Cardinality(batch) = batchSize THEN worker[w].step ELSE NextStep(worker[w].step)

\* The uuid that is watched: the first of a batch, until there is a batch without it.
Watches(run, batch) ==
    IF run.previous \cap batch # {} THEN {[run EXCEPT !.again = @ + 1]}
    ELSE {[run EXCEPT !.again = 0, !.previous = {first}] : first \in batch}

\* Each loop watches for itself.
After(run, batch, step) ==
    IF step = run.step THEN Watches(run, batch) ELSE {[run EXCEPT !.step = step, !.previous = {}, !.again = 0]}

Candidates(w) == OfTier(w) \cap OfStep(worker[w].step)

\* The third time, the worker gives up.
deleteExpiredItems(w) ==
    /\ worker[w].step \in {"files", "folders"} /\ worker[w].again < 3
    /\ \E batch \in SUBSET Candidates(w) :
          /\ Cardinality(batch) = batchSize \/ (batch = Candidates(w) /\ Cardinality(batch) < batchSize)
          /\ Deletes(batch)
          /\ \E run \in After(worker[w], batch, StepAfter(w, batch)) :
                worker' = [v \in Workers |-> LET r == IF v = w THEN run ELSE worker[v]
                                             IN  [r EXCEPT !.expired = {i \in @ : where'[i] = "trash"},
                                                           !.due = {i \in @ : where'[i] = "trash"}]]
    /\ UNCHANGED <<tier, deployed, clock, jobs, troubles, moves>>

\* A worker that lost its job has nothing to say about it.
markAsCompleted(w) ==
    /\ worker[w].step = "done"
    /\ worker' = [worker EXCEPT ![w] = Unoccupied]
    /\ IF worker[w].holds THEN Removes(worker[w].tier, "completed") ELSE UNCHANGED jobs
    /\ UNCHANGED <<where, age, tier, deployed, clock, troubles, moves>>

GivesUp(w) == worker[w].again >= 3

markAsFailed(w) ==
    /\ Working(w)
    /\ \/ GivesUp(w) /\ UNCHANGED troubles
       \/ ~ GivesUp(w) /\ troubles < MaxTroubles /\ troubles' = troubles + 1
    /\ worker' = [worker EXCEPT ![w] = Unoccupied]
    /\ IF worker[w].holds THEN Throws(worker[w].tier) ELSE UNCHANGED jobs
    /\ UNCHANGED <<where, age, tier, deployed, clock, moves>>

\* The hold of the job lapses: it waits again, or has failed.  The worker goes on, or is dead.
stalled(w) ==
    /\ Working(w) /\ worker[w].holds
    /\ troubles < MaxTroubles /\ troubles' = troubles + 1
    /\ LET t == worker[w].tier
       IN  IF job[t].stalled < maxStalledCount THEN Waits(t, [job[t] EXCEPT !.stalled = @ + 1]) ELSE Removes(t, "failed")
    /\ \/ worker' = [worker EXCEPT ![w].holds = FALSE]
       \/ worker' = [worker EXCEPT ![w] = Unoccupied]
    /\ UNCHANGED <<where, age, tier, deployed, clock, moves>>

----------------------------------------------------------------------------
User ==
    \/ \E i \in Items : moveItemToTrash(i) \/ restoreItem(i) \/ updateItem(i)
    \/ \E u \in Users, t \in Tiers : updateUserTier(u, t)

WorkerStep(w) == startJob(w) \/ deleteExpiredItems(w) \/ markAsCompleted(w) \/ (GivesUp(w) /\ markAsFailed(w))

Next ==
    \/ User \/ Tick
    \/ \E w \in Workers : WorkerStep(w) \/ markAsFailed(w) \/ stalled(w)

\* Time passes and the workers go on.
Fairness == WF_expiryVars(Tick) /\ \A w \in Workers : WF_expiryVars(WorkerStep(w))

Spec == Init /\ [][Next]_expiryVars /\ Fairness

----------------------------------------------------------------------------
(* Properties                                                              *)

\* A tier's job waits once or is held by one worker, or there is none; what a worker is to take is
\* in the trash.
TypeOK ==
    /\ \A t \in Tiers :
          LET holders == {w \in Workers : Working(w) /\ worker[w].holds /\ worker[w].tier = t}
              waiting == {k \in DOMAIN queue : queue[k] = t}
          IN  Cardinality(holders) + Cardinality(waiting) = (IF Known(t) THEN 1 ELSE 0)
    /\ \A w \in Workers : worker[w].due \subseteq worker[w].expired /\ \A i \in worker[w].expired : Trashed(i)
    /\ age \in [Items -> 0 .. Old] /\ where \in [Items -> {"drive", "trash", "gone"}]

\* What a user leaves in the trash is taken once it has expired, whatever jobs fail or are lost, unless
\* the user's tier changes: nothing is due for ever.
ExpiredTrashGoes == \A i \in Items, t \in Limited : []<> ~ Due(i, t)

\* Nothing is taken before it has been in the trash for as long as the tier says that its user has by
\* now, nor for as long since the job was deployed.
NothingTakenEarly ==
    \A i \in Items :
        Trashed(i) /\ where'[i] = "gone" =>
            Due(i, tier[user[i]]) /\ deployed >= retention[tier[user[i]]]

\* Where a run is recorded as completed, everything that had expired when it began is gone.
CompletedMeansEmptied == \A w \in Workers : worker[w].step = "done" => worker[w].due = {}

\* A uuid is in no two batches one after the other, though workers share the work of a tier.
SameUuidNeverRepeats == \A w \in Workers : worker[w].again = 0

=============================================================================
