------------------------ MODULE MCWorkspaceMembers ------------------------
(***************************************************************************)
(* WorkspaceTeams and WorkspaceItems for TLC: part tells which of the two  *)
(* a behaviour is about and whether requests race.                         *)
(***************************************************************************)
EXTENDS WorkspaceTeams, TLC

CONSTANTS Members, Ids, OwnerRoot, WorkspaceRoot, NoOne, OwnerLimit, Chunk, MaxTasks,
    RacingUsers, RacingTeams, RacingIds

VARIABLES part, row, creator, root, work, comeback

itemVars == <<row, creator, root, work, comeback>>

Together == INSTANCE WorkspaceTeams WITH
                Users <- RacingUsers, Teams <- RacingTeams, Items <- {}

AloneItems == INSTANCE WorkspaceItems WITH
                  Overlap <- FALSE, Crashes <- FALSE, Nobody <- NoOne, MaxInFlight <- 1,
                  Busy <- Members, Returning <- {}

TogetherItems == INSTANCE WorkspaceItems WITH
                     Ids <- RacingIds, Nobody <- NoOne, Overlap <- TRUE, MaxInFlight <- MaxTasks,
                     Busy <- Members \cup {Owner}, Returning <- Members

ASSUME WorkspaceItemsInstances ==
    /\ AloneItems!WorkspaceItemsConstants /\ TogetherItems!WorkspaceItemsConstants
    /\ RacingIds \subseteq Ids

MCInit ==
    /\ Init /\ AloneItems!Init
    /\ part \in {"teams", "items alone", "items together"}
    /\ part # "teams" => alone

MCNext ==
    /\ UNCHANGED part
    /\ \/ part = "teams" /\ (IF alone THEN Next ELSE Together!Next) /\ UNCHANGED itemVars
       \/ part = "items alone" /\ AloneItems!Next /\ UNCHANGED vars
       \/ part = "items together" /\ TogetherItems!Next /\ UNCHANGED vars

Symmetry ==
    Permutations(Ids \ {OwnerRoot}) \cup Permutations(Teams \ {DefaultTeam})

MCSpec == MCInit /\ [][MCNext]_<<vars, part, itemVars>>

\* With requests one at a time no item is lost with the member who leaves or who
\* comes back, and who has a seat has a root folder that ancestors lead to.
NothingLostWithItsMemberAlone ==
    part = "items alone" =>
        AloneItems!NothingLostWithItsMember /\ AloneItems!RootsUsable /\ AloneItems!BreadcrumbsLeadHome

\* Emptying the trash of a member reports only what is deleted, whatever races;
\* alone it takes only what was the member's and in the trash, and gets on though
\* its pages move up while they are read.
EmptyingSound ==
    /\ AloneItems!EmptyingReportsDeleted
    /\ part = "items alone" => AloneItems!EmptyingTakesOwnTrash /\ AloneItems!EmptyingMakesProgress

============================================================================
