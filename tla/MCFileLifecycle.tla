-------------------------- MODULE MCFileLifecycle --------------------------
(***************************************************************************)
(* FileLifecycle for TLC.  A behaviour is about one of four questions:     *)
(* requests that run alone over contents, or over names and folders, with  *)
(* '' for an extension; and requests that race over the contents of one    *)
(* file, or over the limit of empty files.                                 *)
(***************************************************************************)
EXTENDS FileLifecycle, TLC

VARIABLE part

mcVars == <<vars, part>>

OneName == {AnyName}
OneFolder == {AnyFolder}
Untyped == {}
NoContents == {}

SerialContents == INSTANCE FileLifecycle WITH
                     MaxInFlight <- 1, Names <- OneName, Folders <- OneFolder

SerialNames == INSTANCE FileLifecycle WITH MaxInFlight <- 1, Names <- OneName

RacingContents == INSTANCE FileLifecycle WITH
                     Names <- OneName, Folders <- OneFolder, Types <- Untyped

RacingEmpties == INSTANCE FileLifecycle WITH
                    Folders <- OneFolder, Types <- Untyped, Contents <- NoContents

MCInit ==
    /\ Init
    /\ part \in IF alone THEN {"SerialContents", "SerialNames"}
                ELSE {"RacingContents", "RacingEmpties"}

MCNext ==
    /\ \/ part = "SerialContents" /\ SerialContents!Next
       \/ part = "SerialNames" /\ SerialNames!Next
       \/ part = "RacingContents" /\ RacingContents!Next
       \/ part = "RacingEmpties" /\ RacingEmpties!Next
    /\ UNCHANGED part

MCSpec == MCInit /\ [][MCNext]_mcVars

\* Files are told apart by nothing but their rows, contents by who names them.
Symmetry == Permutations(Files) \cup Permutations(Contents)

UsedFiles == {f \in Files : file[f].status # "NONE"} \cup {w.file : w \in inflight}

UsedContents == {c \in Contents : net[c] # "none"}

\* How many files and contents a part is about.  Where requests race the folder
\* stays, and what follows a late write, of which less is promised, is left out.
Focus ==
    /\ part = "SerialContents" => Cardinality(UsedFiles) <= 2
    /\ part = "SerialNames" => /\ Cardinality(UsedContents) <= 1
                               /\ \A c \in Contents : net[c] \in {"none", "uploaded", "stored"}
                               /\ \A f \in Files : versions[f] = {}
    /\ part = "RacingContents" => Cardinality(UsedFiles) <= 1
    /\ ~ alone => late = {} /\ \A d \in Folders : folder[d] = "EXISTS"

============================================================================
