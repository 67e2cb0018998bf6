----------------------------- MODULE MCSharing -----------------------------
(***************************************************************************)
(* Sharing and SharedNavigation for TLC: part tells which of the two a     *)
(* behaviour is about.  Requests that race are about a file and a guest;   *)
(* requests that run alone are about a folder and two people.              *)
(***************************************************************************)
EXTENDS Sharing

CONSTANTS Root, Shared, NavFolders, Teams, Public, NoFolder, NoToken, MaxMoves

VARIABLES part, parent, trashed, shares, members, token, moves

navVars == <<parent, trashed, shares, members, token, moves>>

Alone == INSTANCE Sharing WITH Files <- {}

Together == INSTANCE Sharing WITH Folders <- {}, Invitees <- Guests

Walker == CHOOSE e \in Guests : TRUE

Nav == INSTANCE SharedNavigation WITH Folders <- NavFolders, Guest <- Walker

ASSUME NavigationAssumption == Nav!NavigationConstants

\* The part a behaviour is not about does not move.
AtHome ==
    /\ parent = [f \in NavFolders |-> IF f = Root THEN NoFolder ELSE Root]
    /\ trashed = {} /\ shares = {} /\ members = {} /\ token = NoToken /\ moves = 0

MCInit ==
    /\ Init
    /\ \/ part = "sharing" /\ AtHome
       \/ part = "navigation" /\ alone /\ Nav!Init

MCNext ==
    /\ UNCHANGED part
    /\ \/ part = "sharing" /\ (IF alone THEN Alone!Next ELSE Together!Next) /\ UNCHANGED navVars
       \/ part = "navigation" /\ Nav!Next /\ UNCHANGED vars

MCSpec == MCInit /\ [][MCNext]_<<vars, part, navVars>>

(* Properties of SharedNavigation.                                         *)

\* A walk stays at or below the shared folder while the tree stays as it is,
\* folders and files are listed to the same requests, and the role that is shown
\* is the one the guard applies.
WalkFollowsSharings ==
    Nav!WalkStaysInside /\ Nav!FilesAndFoldersAgree /\ Nav!RoleShownIsApplied

============================================================================
