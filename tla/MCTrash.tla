------------------------------- MODULE MCTrash -------------------------------
(***************************************************************************)
(* What takes items out of the trash and out of removed folders, for TLC:  *)
(* EmptyTrash, TrashExpiry and DeletedItemsCleanup, each alone.  part      *)
(* tells which of them a behaviour is about; the others do not move.       *)
(***************************************************************************)
EXTENDS EmptyTrash, TLC, Integers

CONSTANTS a, b, x, Root, Nowhere, i, j, u, short, long

VARIABLES
    part,
    parent, gone, strays, underWay, age, again, clock, waiting, job,
    place, since, tier, deployed, time, queue, jobOf, worker, troubles, moves

cleanupVars == <<parent, gone, strays, underWay, age, again, clock, waiting, job>>

expiryVars == <<place, since, tier, deployed, time, queue, jobOf, worker, troubles, moves>>

\* No request fails, and the queue is never late.
Cleanup ==
    INSTANCE DeletedItemsCleanup WITH
        Folders <- {a, b}, Files <- {x},
        Period <- 2, Window <- 2, Batch <- 1, MaxRepeats <- 3, Attempts <- 2,
        MaxDelay <- 0, MaxFailures <- 0, MaxAgain <- 0, MaxUnderWay <- 1

OwnedByUser == [item \in {i, j} |-> u]

\* Batches are full.
OneTier ==
    INSTANCE TrashExpiry WITH
        Files <- {i, j}, Folders <- {}, Users <- {u}, user <- OwnedByUser,
        Tiers <- {long}, retention <- long :> 2, Workers <- {1, 2}, batchSize <- 1,
        Attempts <- 2, maxStalledCount <- 1, Period <- 2, MaxTroubles <- 1, MaxMoves <- 0,
        where <- place, age <- since, clock <- time, job <- jobOf

\* The retention of one is shorter, and jobs that fail or are lost are not tried again.
TwoTiers ==
    INSTANCE TrashExpiry WITH
        Files <- {i}, Folders <- {j}, Users <- {u}, user <- OwnedByUser,
        Tiers <- {short, long}, retention <- short :> 1 @@ long :> 2, Workers <- {1}, batchSize <- 1,
        Attempts <- 1, maxStalledCount <- 0, Period <- 2, MaxTroubles <- 1, MaxMoves <- 1,
        where <- place, age <- since, clock <- time, job <- jobOf

ASSUME TrashExpiryConstants == OneTier!ExpiryConstants /\ TwoTiers!ExpiryConstants

Parts == {"emptying", "removed folders", "expiry in one tier", "expiry in two tiers"}

MCInit ==
    /\ part \in Parts
    /\ TrashInit /\ Cleanup!Init
    /\ IF part = "expiry in two tiers" THEN TwoTiers!Init ELSE OneTier!Init
    /\ part \in {"emptying", "removed folders"} => \A item \in {i, j} : place[item] = "drive"

MCNext ==
    /\ UNCHANGED part
    /\ \/ part = "emptying" /\ TrashNext /\ UNCHANGED <<cleanupVars, expiryVars>>
       \/ part = "removed folders" /\ Cleanup!Next /\ UNCHANGED <<trashVars, expiryVars>>
       \/ /\ \/ part = "expiry in one tier" /\ OneTier!Next
             \/ part = "expiry in two tiers" /\ TwoTiers!Next
          /\ UNCHANGED <<trashVars, cleanupVars>>

\* That of each of them; time passes only where a behaviour is about it.
MCFairness ==
    /\ \A r \in Requests : WF_trashVars(part = "emptying" /\ Server(r))
    /\ WF_cleanupVars(part = "removed folders" /\ Cleanup!Tick)
    /\ WF_cleanupVars(part = "removed folders" /\ Cleanup!JobStep)
    /\ WF_expiryVars(part = "expiry in one tier" /\ OneTier!Tick)
    /\ \A w \in {1, 2} : WF_expiryVars(part = "expiry in one tier" /\ OneTier!WorkerStep(w))
    /\ WF_expiryVars(part = "expiry in two tiers" /\ TwoTiers!Tick)
    /\ WF_expiryVars(part = "expiry in two tiers" /\ TwoTiers!WorkerStep(1))

MCSpec == MCInit /\ [][MCNext]_<<part, trashVars, cleanupVars, expiryVars>> /\ MCFairness

(* Properties of more than one of them.                                    *)

\* When no job that takes what was in removed folders is queued or running,
\* nothing of its half hour, or of any earlier one, is left; where a run for a
\* tier is recorded as completed, everything that had expired when it began is
\* gone; and no uuid is in two of its batches one after the other, though
\* workers share the work of a tier.
CompletedMeansEmptied ==
    /\ part = "removed folders" => Cleanup!NothingLeftBehind
    /\ part = "expiry in one tier" => OneTier!CompletedMeansEmptied /\ OneTier!SameUuidNeverRepeats
    /\ part = "expiry in two tiers" => TwoTiers!CompletedMeansEmptied /\ TwoTiers!SameUuidNeverRepeats

\* No item that is in the trash goes before it has been there for as long as the
\* tier of its user says, nor as long since the job was deployed.
NothingTakenEarly ==
    [][/\ part = "expiry in one tier" => OneTier!NothingTakenEarly
       /\ part = "expiry in two tiers" => TwoTiers!NothingTakenEarly]_expiryVars

\* Nothing that has expired stays due for ever, whatever its owner's tier is or
\* becomes and whatever jobs fail or are lost.
ExpiredTrashGoes ==
    \A item \in {i, j} :
        LET due == \/ part = "expiry in one tier" /\ OneTier!Due(item, long)
                   \/ part = "expiry in two tiers" /\ \E t \in {short, long} : TwoTiers!Due(item, t)
        IN  []<> ~ due

\* What has to go goes in the end: requests to empty the trash come to theirs,
\* items in removed folders are removed at any depth unless they leave, and what
\* has expired is taken.
EverythingGoes == Terminates /\ Cleanup!RemovalKept /\ ExpiredTrashGoes

============================================================================
