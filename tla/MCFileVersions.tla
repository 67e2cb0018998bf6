--------------------------- MODULE MCFileVersions ---------------------------
(***************************************************************************)
(* FileVersions for TLC.  Contents are numbers, used in their order: they  *)
(* are told apart by nothing but their use.  Replacements race over as     *)
(* many as it takes to exceed the limit of versions twice, requests that   *)
(* run alone have four, and every other race has two.                      *)
(***************************************************************************)
EXTENDS FileVersions

Used == {c \in Contents : net[c] # "none"}

\* The file has a content and stays where it is, nothing expires or is restored,
\* the queues wait, and versions go from the oldest on, as retention has them go.
OnlyReplaced ==
    /\ file.status = "EXISTS" /\ file.content # Empty /\ expiredUpTo = 0
    /\ Rows = DOMAIN versions
    /\ Existing = DOMAIN versions \ 1 .. (Len(versions) - Cardinality(Existing))
    /\ \A c \in Contents : net[c] # "purged"
    /\ \A r \in requests : r.op = "version" /\ r.new # Empty

\* Rows there are, and rows that requests in flight may add.
RowsToBe == Len(versions) + Cardinality({r \in requests : "create" \in r.todo})

Focus ==
    /\ Used = 1 .. Cardinality(Used)
    /\ \/ alone /\ Cardinality(Used) <= 4 /\ RowsToBe <= 3
       \/ ~ alone /\ OnlyReplaced
       \/ ~ alone /\ Cardinality(Used) <= 2 /\ Len(versions) + Cardinality(requests) <= 3

============================================================================
