---------------------------- MODULE FolderRemoval ----------------------------
(***************************************************************************)
(* What removing a folder for good promises, whatever carries it out: the  *)
(* removal takes the folder alone, and everything that was in it follows,  *)
(* one level after the other, some time later.                             *)
(*                                                                         *)
(* The API lets a folder be created under a folder that is removed, and a   *)
(* request that moves an item, or creates a file, looks at it and at where *)
(* it goes some time before it writes.  What comes into a removed folder   *)
(* by either is a stray, and nothing is promised of it: it may follow or   *)
(* stay.  Nor is a removed file safe from coming back before every request *)
(* that had looked at it has written.                                      *)
(***************************************************************************)

CONSTANTS
  Folders,   \* the folders that can exist, the root aside
  Files,     \* the files that can exist
  Root,      \* the user's root folder, which is never removed here
  Nowhere    \* the parent of an item that is not created yet

VARIABLES
  parent,    \* the folder each item is in
  gone,      \* the items removed for good
  strays,    \* the live items that came into a folder already removed
  underWay   \* what requests are about to put into which folder

Items == Folders \cup Files

removalVars == <<parent, gone, strays, underWay>>

Live(i) == parent[i] # Nowhere /\ i \notin gone

\* The folders that exist, removed ones included, and those that are live.
KnownFolders == {Root} \cup {f \in Folders : parent[f] # Nowhere}
LiveFolders == {Root} \cup {f \in Folders : Live(f)}

\* A live item that a removal is to take: its folder is removed and it was
\* there before.
Doomed(i) == Live(i) /\ parent[i] \in gone /\ i \notin strays

\* Item i on its way into folder p.
Way(i, p) == [item |-> i, to |-> p]

Init ==
  /\ parent = [i \in Items |-> Nowhere]
  /\ gone = {}
  /\ strays = {}
  /\ underWay = {}

----------------------------------------------------------------------------

\* A new folder, in a folder that exists.
Create(i, p) ==
  /\ i \in Folders
  /\ parent[i] = Nowhere
  /\ p \in KnownFolders
  /\ parent' = [parent EXCEPT ![i] = p]
  /\ strays' = IF p \in gone THEN strays \cup {i} ELSE strays
  /\ UNCHANGED <<gone, underWay>>

\* A request sets out to put a live item, or a file that is new, into a folder
\* that is not removed.
SetOut(i, p) ==
  /\ Live(i) \/ (i \in Files /\ parent[i] = Nowhere)
  /\ p \in LiveFolders
  /\ underWay' = underWay \cup {Way(i, p)}
  /\ UNCHANGED <<parent, gone, strays>>

\* It gets there, or is refused on the way.  Removed in the meantime, a folder
\* stays removed and a file comes back.
Arrive(i, p) ==
  /\ Way(i, p) \in underWay
  /\ underWay' = underWay \ {Way(i, p)}
  /\ parent' = [parent EXCEPT ![i] = p]
  /\ gone' = IF i \in Files THEN gone \ {i} ELSE gone
  /\ strays' = IF p \in gone /\ i \notin gone' THEN strays \cup {i} ELSE strays \ {i}

Refuse(i, p) ==
  /\ underWay' = underWay \ {Way(i, p)}
  /\ UNCHANGED <<parent, gone, strays>>

\* The user removes an item, and the item alone.
Remove(i) ==
  /\ parent[i] # Nowhere
  /\ gone' = gone \cup {i}
  /\ strays' = strays \ {i}
  /\ UNCHANGED <<parent, underWay>>

\* Live items whose folder is removed follow it.
Cascade(followers) ==
  /\ \A i \in followers : Live(i) /\ parent[i] \in gone
  /\ gone' = gone \cup followers
  /\ strays' = strays \ followers
  /\ UNCHANGED <<parent, underWay>>

Next ==
  \/ \E followers \in SUBSET Items : Cascade(followers)
  \/ \E i \in Items, p \in Folders \cup {Root} :
       Create(i, p) \/ SetOut(i, p) \/ Arrive(i, p) \/ Refuse(i, p)
  \/ \E i \in Items : Remove(i)

\* The item is taken because its folder is.
Follow(i) ==
  /\ Doomed(i)
  /\ \E followers \in SUBSET Items : i \in followers /\ Cascade(followers)

\* What may happen.
SafeSpec == Init /\ [][Next]_removalVars

\* What must happen too: no item stays for ever in a folder that was removed
\* around it.
Spec == SafeSpec /\ \A i \in Items : WF_removalVars(Follow(i))

============================================================================
