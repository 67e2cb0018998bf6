------------------------------ MODULE MCListings ------------------------------
(***************************************************************************)
(* FolderListings and SyncPages for TLC: part tells which lists a          *)
(* behaviour is about.                                                     *)
(***************************************************************************)
EXTENDS FolderListings, TLC

VARIABLES part, now, rows, favorites, retention, writes, reads, session

pageVars == <<now, rows, favorites, retention, writes, reads, session>>

\* Two folders have one name, and so have the files but for their type.
NamesOfFolders == 1 :> "a" @@ 2 :> "a" @@ 3 :> "b"

NamesOfFiles == 11 :> [name |-> 1, type |-> 1] @@ 12 :> [name |-> 1, type |-> None]

SizesOfFiles == 11 :> 1 @@ 12 :> 2

TwoTrees ==
    {1 :> 0 @@ 2 :> 1 @@ 3 :> 2 @@ 11 :> 3 @@ 12 :> 2, 1 :> 0 @@ 2 :> 3 @@ 3 :> 0 @@ 11 :> 3 @@ 12 :> 3}

AllIn(folder9) == [i \in {1, 2, 3, 9} |-> IF i = 9 THEN None ELSE folder9]

\* Every file in the root, 9.
Delta ==
    INSTANCE SyncPages WITH
        Files <- {1, 2, 3}, Folders <- {9}, parent <- AllIn(9), space <- [i \in {1, 2, 3, 9} |-> "drive"],
        Limits <- {1, 2}, Retentions <- {None}, TRASH_EXPIRATION_START_DATE <- 1, RecentDays <- 1,
        Milli <- 1, Instants <- FALSE, Lists <- {"sync", "in folders"}, MaxTime <- 5, MaxWrites <- 4, MaxReads <- 2

\* A folder, 3, in the root, with a file in each of them.
Pages ==
    INSTANCE SyncPages WITH
        Files <- {1, 2}, Folders <- {3, 9}, parent <- [AllIn(9) EXCEPT ![2] = 3],
        space <- [i \in {1, 2, 3, 9} |-> "drive"],
        Limits <- {1}, Retentions <- {1}, TRASH_EXPIRATION_START_DATE <- 2, RecentDays <- 1,
        Milli <- 1, Instants <- FALSE,
        Lists <- {"files", "folders", "trashed files", "trashed folders", "favorite files", "favorite folders",
                  "recents", "content files", "content folders"},
        MaxTime <- 4, MaxWrites <- 3, MaxReads <- 1

WorkspacePages ==
    INSTANCE SyncPages WITH
        Files <- {1, 2}, Folders <- {3, 9}, parent <- [AllIn(9) EXCEPT ![2] = 3],
        space <- [i \in {1, 2, 3, 9} |-> IF i = 9 THEN "drive" ELSE "workspace"],
        Limits <- {1}, Retentions <- {None, 1}, TRASH_EXPIRATION_START_DATE <- 2, RecentDays <- 1,
        Milli <- 1, Instants <- FALSE, Lists <- {"files", "folders", "trashed files", "trashed folders"},
        MaxTime <- 4, MaxWrites <- 3, MaxReads <- 1

\* The parts a behaviour is not about do not move.
MCInit ==
    /\ \/ part = "folders" /\ Init /\ Delta!Init
       \/ part = "delta" /\ Delta!Init /\ Init
       \/ part = "pages" /\ Pages!Init /\ Init
       \/ part = "workspace pages" /\ WorkspacePages!Init /\ Init
    /\ part # "folders" => folder[3].parent = Root

MCNext ==
    /\ UNCHANGED part
    /\ \/ part = "folders" /\ Next /\ UNCHANGED pageVars
       \/ /\ \/ part = "delta" /\ Delta!Next
             \/ part = "pages" /\ Pages!Next
             \/ part = "workspace pages" /\ WorkspacePages!Next
          /\ UNCHANGED listingVars

MCSpec == MCInit /\ [][MCNext]_<<part, listingVars, pageVars>>

\* Pages read while items change: who goes by the cursor gets every change and no
\* file twice for one writing, nor one page again; pages of a list that stays are all of it; lists of
\* any status hold what was there, whatever is written; and the trash shows what
\* is in it until it expires.
ListsComplete ==
    /\ part = "delta" => Delta!CursorCatchesUp /\ Delta!CursorNeverRepeats /\ Delta!NextPageIsAnother
    /\ part = "pages" => Pages!PagesComplete /\ Pages!AllByUuidComplete /\ Pages!TrashKeepsPromise
    /\ part = "workspace pages" =>
          WorkspacePages!PagesComplete /\ WorkspacePages!AllByUuidComplete /\ WorkspacePages!TrashKeepsPromise

\* Searches foretell conflicts, paths lead to what ancestors lead back from, sizes
\* follow ancestors, and counts that are said to be exact are.  A tree that is read
\* while nothing changes is all there is below a folder; what stays meanwhile is in
\* it whatever else moves or goes.  Reading a tree writes nothing, so that the
\* former is looked at where none is read.
FoldersAsTold ==
    /\ part = "folders" /\ walk = NoWalk =>
          SearchesForetellConflicts /\ PathsLeadHome /\ SizesFollowAncestors /\ StatsExact
    /\ TreeIsWholeAlone /\ TreeKeepsWhatStays

=============================================================================
