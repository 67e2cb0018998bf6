------------------------- MODULE FileVersions_proofs -------------------------
(***************************************************************************)
(* Proofs about FileVersions, for any contents, limit of versions and      *)
(* number of requests in flight.                                           *)
(*                                                                         *)
(* TypeOK bounds the rows of file_versions, and that is not inductive: a   *)
(* replacement makes sure of its row when it starts and creates it several *)
(* steps later, when others have created theirs.  TypeInv counts the rows  *)
(* that are still to come.                                                 *)
(***************************************************************************)
EXTENDS FileVersions, TLAPS, FiniteSetTheorems, SequenceTheorems, FunctionTheorems,
        WellFoundedInduction

----------------------------------------------------------------------------
(* Requests.                                                               *)

Steps == {"retain", "mark", "write"}
Writes == {"create", "destroy", "update", "purge"}

\* The requests that still have a row to create.
Creators(S) == {r \in S : "create" \in r.todo}

TypeInv ==
    /\ TypeOK
    /\ IsFiniteSet(requests)
    /\ Len(versions) + Cardinality(Creators(requests)) <= MaxRows
    /\ \A r \in requests : r.op = "restore" => r.new \in Contents

\* A request that starts is one more, with a number of its own.
LEMMA StartAdds ==
    ASSUME VersionConstants, NEW r \in Request, Start(r)
    PROVE  /\ Quiet
           /\ \E s \in Request :
                 /\ requests' = requests \cup {s}
                 /\ s.op = r.op /\ s.step = r.step /\ s.old = r.old /\ s.new = r.new
                 /\ s.v = r.v /\ s.ids = r.ids /\ s.todo = r.todo
<1>1. PICK k \in 1 .. MaxInFlight : requests' = requests \cup {[r EXCEPT !.nr = k]}
  BY DEF Start
<1> DEFINE s == [r EXCEPT !.nr = k]
<1>2. /\ s \in Request
      /\ s.op = r.op /\ s.step = r.step /\ s.old = r.old /\ s.new = r.new
      /\ s.v = r.v /\ s.ids = r.ids /\ s.todo = r.todo
  BY DEF VersionConstants, Request
<1>3. requests' = requests \cup {s}
  BY <1>1
<1> HIDE DEF s
<1> QED BY <1>2, <1>3 DEF Start

\* How many rows there are to come when a request starts, and when one goes on.
LEMMA StartCounts ==
    ASSUME IsFiniteSet(requests), NEW s, requests' = requests \cup {s}
    PROVE  /\ IsFiniteSet(requests') /\ IsFiniteSet(Creators(requests'))
           /\ Cardinality(Creators(requests')) <= Cardinality(requests) + 1
           /\ "create" \notin s.todo => Creators(requests') = Creators(requests)
<1>1. IsFiniteSet(requests') /\ Cardinality(requests') <= Cardinality(requests) + 1
  <2>1. Cardinality(requests) \in Nat
    BY FS_CardinalityType
  <2>2. /\ IsFiniteSet(requests \cup {s})
        /\ Cardinality(requests \cup {s}) =
              IF s \in requests THEN Cardinality(requests) ELSE Cardinality(requests) + 1
    BY FS_AddElement
  <2> QED BY <2>1, <2>2
<1>2. IsFiniteSet(Creators(requests')) /\ Cardinality(Creators(requests')) <= Cardinality(requests')
  BY <1>1, FS_Subset DEF Creators
<1>3. Cardinality(Creators(requests')) \in Nat /\ Cardinality(requests') \in Nat
      /\ Cardinality(requests) \in Nat
  BY <1>1, <1>2, FS_CardinalityType
<1>4. "create" \notin s.todo => Creators(requests') = Creators(requests)
  BY DEF Creators
<1> QED BY <1>1, <1>2, <1>3, <1>4

\* Going on adds none; creating takes one off.
LEMMA StepCounts ==
    ASSUME IsFiniteSet(requests), NEW r \in requests, NEW s,
           requests' \in {requests \ {r}, (requests \ {r}) \cup {s}},
           "create" \in s.todo => "create" \in r.todo
    PROVE  /\ IsFiniteSet(requests') /\ IsFiniteSet(Creators(requests'))
           /\ Cardinality(Creators(requests')) \in Nat
           /\ Cardinality(Creators(requests)) \in Nat
           /\ Cardinality(Creators(requests')) <= Cardinality(Creators(requests))
           /\ "create" \in r.todo /\ "create" \notin s.todo =>
                 Cardinality(Creators(requests')) = Cardinality(Creators(requests)) - 1
<1>1. IsFiniteSet(requests \ {r}) /\ IsFiniteSet((requests \ {r}) \cup {s})
  BY FS_RemoveElement, FS_AddElement
<1>2. IsFiniteSet(Creators(requests)) /\ IsFiniteSet(requests')
  BY <1>1, FS_Subset DEF Creators
<1>3. IsFiniteSet(Creators(requests'))
  BY <1>2, FS_Subset DEF Creators
<1>4. /\ Cardinality(Creators(requests)) \in Nat
      /\ Cardinality(Creators(requests')) \in Nat
  BY <1>2, <1>3, FS_CardinalityType
<1>5. ASSUME "create" \notin s.todo
      PROVE  Creators(requests') = Creators(requests) \ {r}
  BY <1>5 DEF Creators
<1>6. CASE "create" \notin s.todo
  <2>1. "create" \in r.todo => r \in Creators(requests)
    BY DEF Creators
  <2>2. /\ Cardinality(Creators(requests) \ {r}) =
              IF r \in Creators(requests) THEN Cardinality(Creators(requests)) - 1
              ELSE Cardinality(Creators(requests))
    BY <1>2, FS_RemoveElement
  <2>3. Cardinality(Creators(requests')) = Cardinality(Creators(requests) \ {r})
    BY <1>5, <1>6
  <2>4. Cardinality(Creators(requests')) <= Cardinality(Creators(requests))
    BY <1>4, <2>2, <2>3
  <2>5. "create" \in r.todo => Cardinality(Creators(requests')) = Cardinality(Creators(requests)) - 1
    BY <2>1, <2>2, <2>3
  <2> QED BY <1>2, <1>3, <1>4, <2>4, <2>5
<1>7. CASE "create" \in s.todo
  <2>1. r \in Creators(requests)
    BY <1>7 DEF Creators
  <2>2. Cardinality(Creators(requests) \ {r}) = Cardinality(Creators(requests)) - 1
        /\ IsFiniteSet(Creators(requests) \ {r})
    BY <1>2, <2>1, FS_RemoveElement
  <2>3. /\ IsFiniteSet((Creators(requests) \ {r}) \cup {s})
        /\ Cardinality((Creators(requests) \ {r}) \cup {s}) <= Cardinality(Creators(requests))
    <3>1. Cardinality((Creators(requests) \ {r}) \cup {s}) =
             IF s \in Creators(requests) \ {r} THEN Cardinality(Creators(requests) \ {r})
             ELSE Cardinality(Creators(requests) \ {r}) + 1
      BY <2>2, FS_AddElement
    <3> QED BY <1>4, <2>2, <3>1, FS_AddElement
  <2>4. Creators(requests') \subseteq (Creators(requests) \ {r}) \cup {s}
    BY DEF Creators
  <2>5. Cardinality(Creators(requests')) <= Cardinality((Creators(requests) \ {r}) \cup {s})
    BY <2>3, <2>4, FS_Subset
  <2>6. Cardinality((Creators(requests) \ {r}) \cup {s}) \in Nat
    BY <2>3, FS_CardinalityType
  <2> QED BY <1>2, <1>3, <1>4, <1>7, <2>3, <2>5, <2>6
<1> QED BY <1>6, <1>7

----------------------------------------------------------------------------
(* Versions.                                                               *)

\* A function over 1 .. n is a sequence of length n.
LEMMA FunctionSeq ==
    ASSUME NEW S, NEW n \in Nat, NEW f \in [1 .. n -> S]
    PROVE  f \in Seq(S) /\ Len(f) = n
  OBVIOUS

\* What TypeOK says of the versions, one by one.
LEMMA VersionsByOne ==
    ASSUME TypeOK
    PROVE  /\ Len(versions) \in Nat
           /\ DOMAIN versions = 1 .. Len(versions)
           /\ versions \in [1 .. Len(versions) -> Version]
           /\ \A i \in DOMAIN versions : versions[i] \in Version
<1>1. versions \in Seq(Version)
  BY DEF TypeOK
<1> QED BY <1>1, LenProperties

\* An UPDATE of the status leaves contents and order.
LEMMA MarkedVersions ==
    ASSUME TypeOK, NEW ids
    PROVE  /\ Marked(ids) \in Seq(Version)
           /\ Len(Marked(ids)) = Len(versions)
           /\ DOMAIN Marked(ids) = DOMAIN versions
           /\ \A i \in DOMAIN versions :
                 /\ Marked(ids)[i].content = versions[i].content
                 /\ Marked(ids)[i].status =
                      IF i \in ids \cap Rows THEN "DELETED" ELSE versions[i].status
<1>1. ASSUME NEW i \in DOMAIN versions
      PROVE  /\ [versions[i] EXCEPT !.status = "DELETED"] \in Version
             /\ versions[i] \in Version
  BY VersionsByOne DEF Version
<1>2. Marked(ids) \in [1 .. Len(versions) -> Version]
  BY <1>1, VersionsByOne DEF Marked
<1>3. Marked(ids) \in Seq(Version) /\ Len(Marked(ids)) = Len(versions)
  BY <1>2, FunctionSeq, VersionsByOne
<1>4. ASSUME NEW i \in DOMAIN versions
      PROVE  /\ Marked(ids)[i].content = versions[i].content
             /\ Marked(ids)[i].status =
                  IF i \in ids \cap Rows THEN "DELETED" ELSE versions[i].status
  BY <1>1 DEF Marked, Version
<1> QED BY <1>2, <1>3, <1>4, VersionsByOne

\* What a marking leaves: the same versions, some of them DELETED, and their
\* contents queued.
LEMMA MarkDeletedType ==
    ASSUME TypeOK, NEW ids, markDeleted(ids)
    PROVE  /\ versions' \in Seq(Version) /\ Len(versions') = Len(versions)
           /\ pending' \subseteq Contents
<1>1. pending' = pending \cup {versions[i].content : i \in ids \cap Existing}
  BY DEF markDeleted
<1>2. \A i \in ids \cap Existing : versions[i].content \in Contents
  BY VersionsByOne DEF Existing, Version
<1> QED BY <1>1, <1>2, MarkedVersions DEF markDeleted, TypeOK

----------------------------------------------------------------------------
(* Types.                                                                  *)

\* The steps that touch no request, one UPDATE of the versions included.
LEMMA QuietType ==
    ASSUME TypeInv, alone' = alone, requests' = requests,
           file' \in [status : FileStatus, content : Contents \cup {Empty}],
           versions' \in Seq(Version), Len(versions') = Len(versions),
           expiredUpTo' \in 0 .. Len(versions),
           net' \in [Contents -> {"none", "stored", "purged"}],
           pending' \subseteq Contents, fileQueued' \in BOOLEAN, owned' \subseteq Contents
    PROVE  TypeInv'
  BY DEF TypeInv, TypeOK, Creators

\* A request that starts has room for the row it creates.
LEMMA StartType ==
    ASSUME VersionConstants, TypeInv, NEW r \in Request, Start(r),
           "create" \in r.todo => Len(versions) + Cardinality(requests) < MaxRows,
           r.op = "restore" => r.new \in Contents,
           net' \in [Contents -> {"none", "stored", "purged"}],
           UNCHANGED <<file, versions, expiredUpTo, pending, fileQueued, owned, alone>>
    PROVE  TypeInv'
<1>1. PICK s \in Request :
         /\ requests' = requests \cup {s}
         /\ s.op = r.op /\ s.new = r.new /\ s.todo = r.todo
  BY StartAdds
<1>2. /\ IsFiniteSet(requests') /\ IsFiniteSet(Creators(requests'))
      /\ Cardinality(Creators(requests')) <= Cardinality(requests) + 1
      /\ "create" \notin s.todo => Creators(requests') = Creators(requests)
  BY <1>1, StartCounts DEF TypeInv
<1>3. Len(versions') + Cardinality(Creators(requests')) <= MaxRows
  <2>1. /\ Cardinality(Creators(requests')) \in Nat /\ Cardinality(requests) \in Nat
        /\ Len(versions) \in Nat /\ MaxRows \in Nat
    BY <1>2, FS_CardinalityType, VersionsByOne DEF TypeInv, VersionConstants
  <2>2. versions' = versions
    OBVIOUS
  <2> QED BY <1>1, <1>2, <2>1, <2>2 DEF TypeInv
<1>4. \A q \in requests' : q.op = "restore" => q.new \in Contents
  BY <1>1 DEF TypeInv
<1> QED BY <1>1, <1>2, <1>3, <1>4 DEF TypeInv, TypeOK

\* A request that goes on, or ends, keeps what it is.
LEMMA StepType ==
    ASSUME VersionConstants, TypeInv, alone' = alone, NEW r \in requests, NEW s \in Request,
           requests' \in {requests \ {r}, (requests \ {r}) \cup {s}},
           s.op = r.op, s.new = r.new,
           "create" \in s.todo => "create" \in r.todo,
           \/ Len(versions') = Len(versions)
           \/ /\ "create" \in r.todo /\ "create" \notin s.todo
              /\ Len(versions') = Len(versions) + 1,
           expiredUpTo' = expiredUpTo,
           file' \in [status : FileStatus, content : Contents \cup {Empty}],
           versions' \in Seq(Version),
           net' \in [Contents -> {"none", "stored", "purged"}],
           pending' \subseteq Contents, fileQueued' \in BOOLEAN, owned' \subseteq Contents
    PROVE  TypeInv'
<1>1. /\ IsFiniteSet(requests') /\ IsFiniteSet(Creators(requests'))
      /\ Cardinality(Creators(requests')) \in Nat
      /\ Cardinality(Creators(requests)) \in Nat
      /\ Cardinality(Creators(requests')) <= Cardinality(Creators(requests))
      /\ "create" \in r.todo /\ "create" \notin s.todo =>
            Cardinality(Creators(requests')) = Cardinality(Creators(requests)) - 1
  BY StepCounts DEF TypeInv
<1>2. Len(versions) \in Nat /\ Len(versions') \in Nat /\ MaxRows \in Nat
  BY VersionsByOne DEF TypeInv, VersionConstants
<1>3. /\ Len(versions') + Cardinality(Creators(requests')) <= MaxRows
      /\ Len(versions') <= MaxRows
      /\ expiredUpTo' \in 0 .. Len(versions')
  BY <1>1, <1>2 DEF TypeInv, TypeOK
<1>4. /\ \A q \in requests' : q.op = "restore" => q.new \in Contents
      /\ requests' \subseteq Request
  BY DEF TypeInv, TypeOK
<1> QED BY <1>1, <1>3, <1>4 DEF TypeInv, TypeOK

\* The contents of requests and the versions they are about.
LEMMA RequestType ==
    ASSUME TypeInv, NEW r \in requests
    PROVE  /\ r \in Request
           /\ r.old \in Contents \cup {Empty} /\ r.new \in Contents \cup {Empty}
           /\ r.op = "restore" => r.new \in Contents
  BY DEF TypeInv, TypeOK, Request

\* A write leaves the request without it, or nothing of it.
LEMMA WroteOne ==
    ASSUME TypeInv, NEW r \in requests, NEW w \in Writes, Wrote(r, w)
    PROVE  \E s \in Request :
              /\ requests' \in {requests \ {r}, (requests \ {r}) \cup {s}}
              /\ s.op = r.op /\ s.new = r.new /\ s.todo = r.todo \ {w}
<1> DEFINE s == [r EXCEPT !.todo = @ \ {w}]
<1>1. s \in Request /\ s.op = r.op /\ s.new = r.new /\ s.todo = r.todo \ {w}
  BY RequestType DEF Request
<1>2. requests' \in {requests \ {r}, (requests \ {r}) \cup {s}}
  BY DEF Wrote, Finish, Continue
<1> HIDE DEF s
<1> QED BY <1>1, <1>2

\* Whatever request takes its next step.
LEMMA RequestStepType ==
    ASSUME VersionConstants, TypeInv, alone' = alone, RequestStep
    PROVE  TypeInv'
<1>0. PICK r \in requests :
        \/ applyRetentionPolicy(r) \/ updateStatusBatch(r)
        \/ createVersion(r) \/ updateFile(r)
        \/ deleteOldContent(r) \/ destroyVersion(r)
  BY DEF RequestStep
<1>1. /\ r \in Request
      /\ r.old \in Contents \cup {Empty} /\ r.new \in Contents \cup {Empty}
      /\ r.op = "restore" => r.new \in Contents
  BY RequestType
<1>2. /\ file \in [status : FileStatus, content : Contents \cup {Empty}]
      /\ versions \in Seq(Version) /\ expiredUpTo \in 0 .. Len(versions)
      /\ net \in [Contents -> {"none", "stored", "purged"}]
      /\ pending \subseteq Contents /\ fileQueued \in BOOLEAN /\ owned \subseteq Contents
  BY DEF TypeInv, TypeOK
<1>3. /\ Len(versions) \in Nat /\ DOMAIN versions = 1 .. Len(versions)
      /\ Len(versions) <= MaxRows
  BY VersionsByOne DEF TypeInv, TypeOK
<1>4. CASE applyRetentionPolicy(r)
  <2> DEFINE s == [r EXCEPT !.step = "mark", !.ids = Retention]
  <2>1. Retention \in SUBSET Ids
    BY <1>3 DEF Retention, Existing, From, Ids, VersionConstants
  <2>2. s \in Request /\ s.op = r.op /\ s.new = r.new /\ s.todo = r.todo
    BY <1>1, <2>1 DEF Request
  <2>3. requests' \in {requests \ {r}, (requests \ {r}) \cup {s}}
    BY <1>4 DEF applyRetentionPolicy, Finish, Continue
  <2> HIDE DEF s
  <2> QED BY <1>2, <1>4, <2>2, <2>3, StepType DEF applyRetentionPolicy
<1>5. CASE updateStatusBatch(r)
  <2> DEFINE s == [r EXCEPT !.step = "write", !.ids = {}]
  <2>1. s \in Request /\ s.op = r.op /\ s.new = r.new /\ s.todo = r.todo
    BY <1>1 DEF Request
  <2>2. requests' \in {requests \ {r}, (requests \ {r}) \cup {s}}
    BY <1>5 DEF updateStatusBatch, Continue
  <2>3. markDeleted(r.ids) /\ UNCHANGED <<file, expiredUpTo, net, fileQueued, owned>>
    BY <1>5 DEF updateStatusBatch
  <2>4. /\ versions' \in Seq(Version) /\ Len(versions') = Len(versions)
        /\ pending' \subseteq Contents
    BY <2>3, MarkDeletedType DEF TypeInv
  <2> HIDE DEF s
  <2> QED BY <1>2, <2>1, <2>2, <2>3, <2>4, StepType
<1>6. CASE createVersion(r)
  <2>1. PICK s \in Request :
           /\ requests' \in {requests \ {r}, (requests \ {r}) \cup {s}}
           /\ s.op = r.op /\ s.new = r.new /\ s.todo = r.todo \ {"create"}
    BY <1>6, WroteOne DEF createVersion, Writes
  <2>2. "create" \in r.todo /\ UNCHANGED <<file, expiredUpTo, net, pending, fileQueued, owned>>
    BY <1>6 DEF createVersion
  <2>3. versions' \in Seq(Version) /\ (Len(versions') = Len(versions)
                                        \/ Len(versions') = Len(versions) + 1)
    <3>1. CASE CanCreate(r.old)
      <4>1. [content |-> r.old, status |-> "EXISTS"] \in Version
        BY <1>1, <3>1 DEF CanCreate, Version
      <4>2. versions' = Append(versions, [content |-> r.old, status |-> "EXISTS"])
        BY <1>6, <3>1 DEF createVersion
      <4> QED BY <1>2, <4>1, <4>2, AppendProperties
    <3>2. CASE ~ CanCreate(r.old)
      BY <1>2, <1>6, <3>2 DEF createVersion
    <3> QED BY <3>1, <3>2
  <2> QED BY <1>2, <2>1, <2>2, <2>3, StepType
<1>7. CASE updateFile(r)
  <2>1. PICK s \in Request :
           /\ requests' \in {requests \ {r}, (requests \ {r}) \cup {s}}
           /\ s.op = r.op /\ s.new = r.new
           /\ "create" \in s.todo => "create" \in r.todo
    <3>1. CASE PurgesOld(r)
      <4> DEFINE s == [r EXCEPT !.todo = (@ \ {"update"}) \cup {"purge"}]
      <4>1. /\ s \in Request /\ s.op = r.op /\ s.new = r.new
            /\ s.todo = (r.todo \ {"update"}) \cup {"purge"}
        BY <1>1 DEF Request
      <4>2. requests' = (requests \ {r}) \cup {s}
        BY <1>7, <3>1 DEF updateFile, Continue
      <4> HIDE DEF s
      <4> QED BY <4>1, <4>2
    <3>2. CASE ~ PurgesOld(r)
      BY <1>7, <3>2, WroteOne DEF updateFile, Writes
    <3> QED BY <3>1, <3>2
  <2>2. UNCHANGED <<versions, expiredUpTo, net, pending, fileQueued>>
    BY <1>7 DEF updateFile
  <2>3. file' \in [status : FileStatus, content : Contents \cup {Empty}]
    BY <1>1, <1>2, <1>7 DEF updateFile
  <2>4. owned' \subseteq Contents
    <3>1. CASE r.op # "restore"
      <4>1. owned' = owned \cup ({r.new} \ {Empty})
        BY <1>7, <3>1 DEF updateFile
      <4> QED BY <1>1, <1>2, <4>1
    <3>2. CASE r.op = "restore" /\ file.status \in Live
      <4>1. owned' = (owned \ {file.content}) \cup {r.new}
        BY <1>7, <3>2 DEF updateFile
      <4> QED BY <1>1, <1>2, <3>2, <4>1
    <3>3. CASE r.op = "restore" /\ file.status \notin Live
      <4>1. owned' = owned \ {r.new}
        BY <1>7, <3>3 DEF updateFile
      <4> QED BY <1>2, <4>1
    <3> QED BY <3>1, <3>2, <3>3
  <2> QED BY <1>2, <2>1, <2>2, <2>3, <2>4, StepType
<1>8. CASE deleteOldContent(r)
  <2>1. PICK s \in Request :
           /\ requests' \in {requests \ {r}, (requests \ {r}) \cup {s}}
           /\ s.op = r.op /\ s.new = r.new /\ s.todo = r.todo \ {"purge"}
    BY <1>8, WroteOne DEF deleteOldContent, Writes
  <2>2. /\ UNCHANGED <<file, versions, expiredUpTo, pending, fileQueued>>
        /\ net' \in [Contents -> {"none", "stored", "purged"}] /\ owned' \subseteq Contents
    BY <1>2, <1>8 DEF deleteOldContent
  <2> QED BY <1>2, <2>1, <2>2, StepType
<1>9. CASE destroyVersion(r)
  <2>1. PICK s \in Request :
           /\ requests' \in {requests \ {r}, (requests \ {r}) \cup {s}}
           /\ s.op = r.op /\ s.new = r.new /\ s.todo = r.todo \ {"destroy"}
    BY <1>9, WroteOne DEF destroyVersion, Writes
  <2>2. versions' = [versions EXCEPT ![r.v].status = "GONE"]
        /\ UNCHANGED <<file, expiredUpTo, net, pending, fileQueued, owned>>
    BY <1>9 DEF destroyVersion
  <2>3. versions' \in [1 .. Len(versions) -> Version]
    <3>1. \A i \in DOMAIN versions : [versions[i] EXCEPT !.status = "GONE"] \in Version
      BY VersionsByOne DEF TypeInv, Version
    <3>2. versions \in [1 .. Len(versions) -> Version]
      BY VersionsByOne DEF TypeInv
    <3> QED BY <1>3, <2>2, <3>1, <3>2
  <2>4. versions' \in Seq(Version) /\ Len(versions') = Len(versions)
    BY <1>3, <2>3, FunctionSeq
  <2> QED BY <1>2, <2>1, <2>2, <2>4, StepType
<1> QED BY <1>0, <1>4, <1>5, <1>6, <1>7, <1>8, <1>9

\* The row, its versions and the queues keep their types, and there are no more
\* rows than MaxRows, however replacements race.
LEMMA TypeInvariant == Spec => []TypeInv
<1>1. Init => TypeInv
  <2> SUFFICES ASSUME Init PROVE TypeInv
    OBVIOUS
  <2>1. TypeOK
    <3>1. PICK c \in Contents \cup {Empty} :
            /\ file = [status |-> "EXISTS", content |-> c]
            /\ net = [d \in Contents |-> IF d = c THEN "stored" ELSE "none"]
            /\ owned = Contents \cap {c}
      BY DEF Init
    <3>2. /\ file \in [status : FileStatus, content : Contents \cup {Empty}]
          /\ net \in [Contents -> {"none", "stored", "purged"}]
          /\ owned \subseteq Contents
      BY <3>1 DEF FileStatus
    <3>3. versions \in Seq(Version) /\ Len(versions) = 0
      BY DEF Init
    <3>4. /\ expiredUpTo = 0 /\ pending = {} /\ fileQueued = FALSE /\ requests = {}
          /\ alone \in BOOLEAN /\ MaxRows \in Nat
      BY VersionConstants DEF Init
    <3>5. Len(versions) <= MaxRows /\ expiredUpTo \in 0 .. Len(versions)
      BY <3>3, <3>4
    <3> QED BY <3>2, <3>3, <3>4, <3>5 DEF TypeOK
  <2>2. IsFiniteSet(requests) /\ Cardinality(Creators(requests)) = 0 /\ Len(versions) = 0
    BY FS_EmptySet DEF Init, Creators
  <2> QED BY <2>1, <2>2, VersionConstants DEF TypeInv, VersionConstants, Init
<1>2. TypeInv /\ [Next]_vars => TypeInv'
  <2> SUFFICES ASSUME TypeInv, [Next]_vars PROVE TypeInv'
    OBVIOUS
  <2> USE VersionConstants
  <2>0. CASE UNCHANGED vars
    BY <2>0 DEF vars, TypeInv, TypeOK, Creators
  <2>1. /\ file \in [status : FileStatus, content : Contents \cup {Empty}]
        /\ versions \in Seq(Version) /\ expiredUpTo \in 0 .. Len(versions)
        /\ net \in [Contents -> {"none", "stored", "purged"}]
        /\ pending \subseteq Contents /\ fileQueued \in BOOLEAN /\ owned \subseteq Contents
        /\ Len(versions) \in Nat /\ DOMAIN versions = 1 .. Len(versions)
        /\ Len(versions) <= MaxRows /\ TypeOK
    BY VersionsByOne DEF TypeInv, TypeOK
  <2>2. ASSUME NEW c \in Contents \cup {Empty}, NEW b \in BOOLEAN,
               replaceFile(c, b), alone' = alone
        PROVE  TypeInv'
    <3> DEFINE r == [nr |-> 0, op |-> IF b THEN "version" ELSE "plain",
                     step |-> IF b THEN "retain" ELSE "write",
                     old |-> file.content, new |-> c, v |-> 0, ids |-> {},
                     todo |-> IF b THEN {"create", "update"} ELSE {"update"}]
    <3>1. r \in Request /\ r.op # "restore"
      BY <2>1 DEF Request
    <3>2. Start(r) /\ Len(versions) + Cardinality(requests) < MaxRows
      BY <2>2 DEF replaceFile
    <3>3. net' \in [Contents -> {"none", "stored", "purged"}]
      BY <2>1, <2>2 DEF replaceFile
    <3>4. UNCHANGED <<file, versions, expiredUpTo, pending, fileQueued, owned, alone>>
      BY <2>2 DEF replaceFile
    <3> HIDE DEF r
    <3> QED BY <3>1, <3>2, <3>3, <3>4, StartType
  <2>3. ASSUME NEW i \in DOMAIN versions, restoreFileVersion(i), alone' = alone
        PROVE  TypeInv'
    <3> DEFINE r == [nr |-> 0, op |-> "restore", step |-> "mark",
                     old |-> file.content, new |-> versions[i].content,
                     v |-> i, ids |-> newerVersions(i), todo |-> {"destroy", "update"}]
    <3>1. versions[i].content \in Contents
      BY <2>1, VersionsByOne DEF Version
    <3>2. newerVersions(i) \in SUBSET Ids /\ i \in Ids
      BY <2>1 DEF newerVersions, Existing, Ids
    <3>3. r \in Request /\ r.new \in Contents /\ "create" \notin r.todo
      BY <2>1, <3>1, <3>2 DEF Request
    <3>4. Start(r) /\ net' = net
      BY <2>3 DEF restoreFileVersion
    <3>5. UNCHANGED <<file, versions, expiredUpTo, pending, fileQueued, owned, alone>>
      BY <2>3 DEF restoreFileVersion
    <3> HIDE DEF r
    <3> QED BY <2>1, <3>3, <3>4, <3>5, StartType
  <2>4. ASSUME NEW ids, markDeleted(ids), Atomic, alone' = alone,
               UNCHANGED <<file, expiredUpTo, fileQueued, owned>>
        PROVE  TypeInv'
    <3>1. /\ versions' \in Seq(Version) /\ Len(versions') = Len(versions)
          /\ pending' \subseteq Contents
      BY <2>1, <2>4, MarkDeletedType
    <3> QED BY <2>1, <2>4, <3>1, QuietType DEF Atomic
  <2>5. ASSUME deleteFile \/ trashOrRestore, alone' = alone PROVE TypeInv'
    <3>1. file' \in [status : FileStatus, content : Contents \cup {Empty}]
      BY <2>1, <2>5 DEF deleteFile, trashOrRestore, FileStatus
    <3>2. pending' \subseteq Contents /\ fileQueued' \in BOOLEAN
      BY <2>1, <2>5 DEF deleteFile, trashOrRestore
    <3>3. UNCHANGED <<versions, expiredUpTo, owned, net, requests>>
      BY <2>5 DEF deleteFile, trashOrRestore, Atomic
    <3> QED BY <2>1, <2>5, <3>1, <3>2, <3>3, QuietType
  <2>6. ASSUME destroyFile, alone' = alone PROVE TypeInv'
    <3>1. file' \in [status : FileStatus, content : Contents \cup {Empty}]
      BY <2>1, <2>6 DEF destroyFile, FileStatus
    <3>2. versions' \in [1 .. Len(versions) -> Version]
      <4>1. \A i \in DOMAIN versions : [versions[i] EXCEPT !.status = "GONE"] \in Version
        BY <2>1, VersionsByOne DEF Version
      <4> QED BY <2>1, <2>6, <4>1 DEF destroyFile
    <3>3. versions' \in Seq(Version) /\ Len(versions') = Len(versions)
      BY <2>1, <3>2, FunctionSeq
    <3>4. UNCHANGED <<expiredUpTo, pending, fileQueued, net, requests>> /\ owned' \subseteq owned
      BY <2>6 DEF destroyFile, Atomic
    <3> QED BY <2>1, <2>6, <3>1, <3>3, <3>4, QuietType
  <2>7. ASSUME NEW c \in Contents, purgeContent(c), alone' = alone PROVE TypeInv'
    <3>1. /\ UNCHANGED <<file, versions, expiredUpTo, fileQueued, requests, owned>>
          /\ pending' \subseteq Contents /\ net' \in [Contents -> {"none", "stored", "purged"}]
      BY <2>1, <2>7 DEF purgeContent
    <3> QED BY <2>1, <2>7, <3>1, QuietType
  <2>8. ASSUME expireOne, alone' = alone PROVE TypeInv'
    <3>1. /\ UNCHANGED <<file, versions, pending, fileQueued, owned, net, requests>>
          /\ expiredUpTo' \in 0 .. Len(versions)
      BY <2>1, <2>8 DEF expireOne, Atomic
    <3> QED BY <2>1, <2>8, <3>1, QuietType
  <2>9. ASSUME NEW i \in DOMAIN versions, deleteFileVersion(i), alone' = alone PROVE TypeInv'
    BY <2>4, <2>9 DEF deleteFileVersion
  <2>10. ASSUME NEW S \in SUBSET Existing, alone' = alone,
                \/ deleteUserVersionsBatch(S) \/ deleteUserVersionsByLimits(S)
                \/ deleteExpiredVersions(S)
         PROVE TypeInv'
    BY <2>4, <2>10 DEF deleteUserVersionsBatch, deleteUserVersionsByLimits, deleteExpiredVersions
  <2>11. ASSUME RequestStep, alone' = alone PROVE TypeInv'
    BY <2>11, RequestStepType
  <2>12. CASE Next
    BY <2>2, <2>3, <2>5, <2>6, <2>7, <2>8, <2>9, <2>10, <2>11, <2>12 DEF Next, Step
  <2> QED BY <2>0, <2>12
<1> QED BY <1>1, <1>2, PTL DEF Spec

\* TypeOK, for every number of versions and of requests that race.
THEOREM TypeCorrect == Spec => []TypeOK
<1>1. TypeInv => TypeOK
  BY DEF TypeInv
<1> QED BY <1>1, TypeInvariant, PTL

----------------------------------------------------------------------------
(* Queued contents.                                                        *)

\* A version marked DELETED has its content purged or queued, whichever of the
\* ways marked it and whatever raced with it.
THEOREM VersionsAreQueued == Spec => []DeletedVersionsQueued
<1>1. Init => DeletedVersionsQueued
  BY DEF Init, DeletedVersionsQueued
<1>2. TypeInv /\ DeletedVersionsQueued /\ [Next]_vars => DeletedVersionsQueued'
  <2> SUFFICES ASSUME TypeInv, DeletedVersionsQueued, [Next]_vars
               PROVE  DeletedVersionsQueued'
    OBVIOUS
  <2>0. /\ DOMAIN versions = 1 .. Len(versions) /\ Len(versions) \in Nat
        /\ \A i \in DOMAIN versions : versions[i] \in Version
        /\ versions \in Seq(Version)
        /\ net \in [Contents -> {"none", "stored", "purged"}]
        /\ TypeOK
    BY VersionsByOne DEF TypeInv, TypeOK
  <2>1. ASSUME UNCHANGED versions,
               \A c \in Contents : c \in pending \/ net[c] = "purged"
                                     => c \in pending' \/ net'[c] = "purged"
        PROVE  DeletedVersionsQueued'
    BY <2>0, <2>1 DEF DeletedVersionsQueued, Version
  <2>2. ASSUME NEW ids, markDeleted(ids), UNCHANGED net PROVE DeletedVersionsQueued'
    <3> SUFFICES ASSUME NEW i \in DOMAIN versions', versions'[i].status = "DELETED"
                 PROVE  versions'[i].content \in pending' \/ net'[versions'[i].content] = "purged"
      BY DEF DeletedVersionsQueued
    <3>1. /\ versions' = Marked(ids)
          /\ pending' = pending \cup {versions[j].content : j \in ids \cap Existing}
      BY <2>2 DEF markDeleted
    <3>2. /\ i \in DOMAIN versions
          /\ versions'[i].content = versions[i].content
          /\ versions'[i].status = IF i \in ids \cap Rows THEN "DELETED" ELSE versions[i].status
      BY <2>0, <3>1, MarkedVersions
    <3>3. CASE versions[i].status = "DELETED"
      BY <2>2, <3>1, <3>2, <3>3 DEF DeletedVersionsQueued
    <3>4. CASE versions[i].status # "DELETED"
      <4>1. i \in ids \cap Rows /\ versions[i].status \in {"EXISTS", "DELETED", "GONE"}
        BY <2>0, <3>2, <3>4 DEF Version
      <4>2. i \in Existing
        BY <3>2, <3>4, <4>1 DEF Rows, Existing
      <4> QED BY <3>1, <3>2, <4>1, <4>2
    <3> QED BY <3>3, <3>4
  <2>3. ASSUME UNCHANGED <<pending, net>>,
               \A i \in DOMAIN versions' : versions'[i].status = "DELETED" =>
                   i \in DOMAIN versions /\ versions'[i] = versions[i]
        PROVE  DeletedVersionsQueued'
    BY <2>3 DEF DeletedVersionsQueued
  <2>4. CASE UNCHANGED vars
    BY <2>1, <2>4 DEF vars
  <2>5. ASSUME NEW c \in Contents \cup {Empty}, NEW b \in BOOLEAN, replaceFile(c, b)
        PROVE  DeletedVersionsQueued'
    <3>1. /\ UNCHANGED <<versions, pending>>
          /\ c = Empty \/ net[c] = "none"
          /\ net' = [d \in Contents |-> IF d = c THEN "stored" ELSE net[d]]
      BY <2>5 DEF replaceFile
    <3>2. \A d \in Contents : net[d] = "purged" => net'[d] = "purged"
      BY <3>1, VersionConstants DEF VersionConstants
    <3> QED BY <2>1, <3>1, <3>2
  <2>6. ASSUME NEW r \in requests, createVersion(r) PROVE DeletedVersionsQueued'
    <3>1. /\ UNCHANGED <<pending, net>>
          /\ \/ versions' = versions
             \/ versions' = Append(versions, [content |-> r.old, status |-> "EXISTS"])
      BY <2>6 DEF createVersion
    <3>2. \A i \in DOMAIN versions' : versions'[i].status = "DELETED" =>
                   i \in DOMAIN versions /\ versions'[i] = versions[i]
      BY <2>0, <3>1
    <3> QED BY <2>3, <3>1, <3>2
  <2>7. ASSUME NEW r \in requests, destroyVersion(r) PROVE DeletedVersionsQueued'
    <3>1. /\ UNCHANGED <<pending, net>>
          /\ versions' = [versions EXCEPT ![r.v].status = "GONE"]
      BY <2>7 DEF destroyVersion
    <3>2. ASSUME NEW i \in DOMAIN versions', versions'[i].status = "DELETED"
          PROVE  i \in DOMAIN versions /\ versions'[i] = versions[i]
      <4>1. i \in DOMAIN versions /\ versions[i] \in Version
        BY <2>0, <3>1, <3>2
      <4>2. CASE i = r.v
        BY <3>1, <3>2, <4>1, <4>2 DEF Version
      <4>3. CASE i # r.v
        BY <3>1, <4>1, <4>3
      <4> QED BY <4>2, <4>3
    <3> QED BY <2>3, <3>1, <3>2
  <2>8. ASSUME destroyFile PROVE DeletedVersionsQueued'
    <3>1. /\ UNCHANGED <<pending, net>>
          /\ versions' = [i \in DOMAIN versions |-> [versions[i] EXCEPT !.status = "GONE"]]
      BY <2>8 DEF destroyFile, Atomic
    <3>2. \A i \in DOMAIN versions' : versions'[i].status = "GONE"
      BY <2>0, <3>1 DEF Version
    <3> QED BY <3>2 DEF DeletedVersionsQueued
  <2>9. ASSUME deleteFile PROVE DeletedVersionsQueued'
    <3>1. UNCHANGED <<versions, net>> /\ pending \subseteq pending'
      BY <2>9 DEF deleteFile, Atomic
    <3> QED BY <2>1, <3>1
  <2>10. ASSUME NEW c \in Contents, purgeContent(c) PROVE DeletedVersionsQueued'
    BY <2>0, <2>1, <2>10 DEF purgeContent
  <2>11. ASSUME NEW r \in requests, deleteOldContent(r) PROVE DeletedVersionsQueued'
    <3>1. UNCHANGED <<versions, pending>> /\ net' \in {net, [net EXCEPT ![r.old] = "purged"]}
      BY <2>11 DEF deleteOldContent
    <3>2. \A d \in Contents : net[d] = "purged" => net'[d] = "purged"
      BY <2>0, <3>1
    <3> QED BY <2>1, <3>1, <3>2
  <2>12. ASSUME NEW r \in requests, updateStatusBatch(r) PROVE DeletedVersionsQueued'
    BY <2>2, <2>12 DEF updateStatusBatch
  <2>13. ASSUME NEW r \in requests, applyRetentionPolicy(r) \/ updateFile(r)
         PROVE  DeletedVersionsQueued'
    BY <2>1, <2>13 DEF applyRetentionPolicy, updateFile
  <2>14. ASSUME NEW i \in DOMAIN versions, restoreFileVersion(i) \/ deleteFileVersion(i)
         PROVE  DeletedVersionsQueued'
    BY <2>1, <2>2, <2>14 DEF restoreFileVersion, deleteFileVersion, Atomic
  <2>15. ASSUME NEW S \in SUBSET Existing,
                \/ deleteUserVersionsBatch(S) \/ deleteUserVersionsByLimits(S)
                \/ deleteExpiredVersions(S)
         PROVE  DeletedVersionsQueued'
    BY <2>2, <2>15
    DEF deleteUserVersionsBatch, deleteUserVersionsByLimits, deleteExpiredVersions, Atomic
  <2>16. ASSUME trashOrRestore \/ expireOne PROVE DeletedVersionsQueued'
    BY <2>1, <2>16 DEF trashOrRestore, expireOne, Atomic
  <2>17. ASSUME RequestStep PROVE DeletedVersionsQueued'
    BY <2>6, <2>7, <2>11, <2>12, <2>13, <2>17 DEF RequestStep
  <2>18. CASE Next
    BY <2>5, <2>8, <2>9, <2>10, <2>14, <2>15, <2>16, <2>17, <2>18 DEF Next, Step
  <2> QED BY <2>4, <2>18
<1> QED BY <1>1, <1>2, TypeInvariant, PTL DEF Spec

----------------------------------------------------------------------------
(* Contents, when requests run one at a time.                              *)
(*                                                                         *)
(* SerialInv says where each content is at every step of a replacement and *)
(* of a restoration, whose two last writes come in either order.           *)

\* The content of a version that can be restored.
Named(c) == \E i \in Existing : versions[i].content = c

\* A content, if any, that is stored, not queued, and no version's.
Spare(c) == c # Empty => Safe(c) /\ ~ Named(c)

\* A replacement: its new content is nobody else's; the old one is the file's
\* until the row is written, and then a version's, or its own until it is purged.
ReplacementInv(r) ==
    /\ file.status = "EXISTS"
    /\ r.old = r.new => r.old = Empty
    /\ Spare(r.new)
    /\ file.content = IF "update" \in r.todo THEN r.old ELSE r.new
    /\ r.op = "plain" => /\ r.step = "write" /\ r.todo \in {{"update"}, {"purge"}}
                         /\ "purge" \in r.todo => r.old # Empty
                         /\ Spare(r.old)
    /\ r.op = "version" =>
          /\ r.todo \in {{"create", "update"}, {"create"}, {"update"}}
          /\ r.step # "write" => r.todo = {"create", "update"}
          /\ IF "create" \in r.todo THEN Spare(r.old) ELSE r.old # Empty => Named(r.old)

\* A restoration: its content is the version's until the row of that is destroyed,
\* and the file's from when the row of the file is written.
RestorationInv(r) ==
    /\ r.todo \in {{"destroy", "update"}, {"destroy"}, {"update"}}
    /\ r.step # "write" => r.todo = {"destroy", "update"}
    /\ r.step \in {"mark", "write"} /\ r.v \notin r.ids
    /\ IF "destroy" \in r.todo THEN r.v \in Existing /\ versions[r.v].content = r.new
       ELSE Spare(r.new)
    /\ IF "update" \in r.todo
       THEN file.status \in Live => file.content # r.new /\ Spare(file.content)
       ELSE IF file.status \in Live THEN file.content = r.new ELSE r.new \notin owned

\* What the server is answerable for is in one of four places, or in the hands
\* of the request at work.
Tracked(c) ==
    \/ file.status \in Live /\ c = file.content
    \/ Named(c)
    \/ c \in pending
    \/ net[c] = "purged"

Held(r, c) ==
    \/ c = r.old /\ ("create" \in r.todo \/ "purge" \in r.todo)
    \/ c = r.new /\ r.op = "restore" /\ "destroy" \notin r.todo

\* No two versions that can be restored have the same content.
VersionsApart == \A i, j \in Existing : versions[i].content = versions[j].content => i = j

PendingUploaded == \A c \in pending : net[c] # "none"

SerialInv ==
    /\ \A r, s \in requests : r = s
    /\ VersionsApart /\ PendingUploaded
    /\ file.status \in Live => ~ fileQueued
    /\ LiveContentStored /\ VersionContentStored
    /\ requests = {} /\ file.status \in Live => Spare(file.content)
    /\ \A r \in requests : IF r.op = "restore" THEN RestorationInv(r) ELSE ReplacementInv(r)
    /\ \A c \in owned : Tracked(c) \/ \E r \in requests : Held(r, c)

\* The invariant says nothing of behaviours in which requests race.
SerialInvAlone == alone => SerialInv

\* The only request goes on as s, or there is none left.
LEMMA OnlyRequest ==
    ASSUME SerialInv, NEW r \in requests
    PROVE  requests = {r}
  BY DEF SerialInv

\* A write leaves the request without it, and nothing of it when it was the last.
LEMMA WroteIs ==
    ASSUME TypeInv, SerialInv, NEW r \in requests, NEW w \in Writes, Wrote(r, w)
    PROVE  \E s \in Request :
              /\ requests' = IF s.todo = {} THEN {} ELSE {s}
              /\ s.op = r.op /\ s.step = r.step /\ s.old = r.old /\ s.new = r.new
              /\ s.v = r.v /\ s.ids = r.ids /\ s.todo = r.todo \ {w}
<1> DEFINE s == [r EXCEPT !.todo = @ \ {w}]
<1>1. /\ s \in Request
      /\ s.op = r.op /\ s.step = r.step /\ s.old = r.old /\ s.new = r.new
      /\ s.v = r.v /\ s.ids = r.ids /\ s.todo = r.todo \ {w}
  BY RequestType DEF Request
<1>2. requests' = IF s.todo = {} THEN requests \ {r} ELSE (requests \ {r}) \cup {s}
  BY DEF Wrote, Finish, Continue
<1>3. requests = {r}
  BY OnlyRequest
<1> HIDE DEF s
<1>4. requests' = IF s.todo = {} THEN {} ELSE {s}
  BY <1>2, <1>3
<1> QED BY <1>1, <1>4

\* Which versions exist after a marking, an insertion and a deletion of a row.
LEMMA MarkExisting ==
    ASSUME TypeOK, NEW ids, markDeleted(ids)
    PROVE  /\ Existing' = Existing \ ids
           /\ \A i \in Existing : versions'[i].content = versions[i].content
           /\ pending' = pending \cup {versions[i].content : i \in ids \cap Existing}
<1>1. versions' = Marked(ids) /\ DOMAIN versions' = DOMAIN versions
  BY MarkedVersions DEF markDeleted
<1>2. \A i \in DOMAIN versions :
         /\ versions'[i].content = versions[i].content
         /\ versions'[i].status = IF i \in ids \cap Rows THEN "DELETED" ELSE versions[i].status
  BY <1>1, MarkedVersions
<1>3. Existing' = Existing \ ids
  BY <1>1, <1>2 DEF Existing, Rows
<1> QED BY <1>2, <1>3 DEF markDeleted, Existing

LEMMA AppendExisting ==
    ASSUME TypeOK, NEW c, versions' = Append(versions, [content |-> c, status |-> "EXISTS"])
    PROVE  /\ Existing' = Existing \cup {Len(versions) + 1}
           /\ Len(versions) + 1 \notin Existing
           /\ versions'[Len(versions) + 1].content = c
           /\ \A i \in Existing : versions'[i].content = versions[i].content
<1>1. Len(versions) \in Nat /\ DOMAIN versions = 1 .. Len(versions) /\ versions \in Seq(Version)
  BY VersionsByOne DEF TypeOK
<1>2. /\ DOMAIN versions' = 1 .. Len(versions) + 1
      /\ versions'[Len(versions) + 1] = [content |-> c, status |-> "EXISTS"]
      /\ \A i \in 1 .. Len(versions) : versions'[i] = versions[i]
  BY <1>1
<1> QED BY <1>1, <1>2 DEF Existing

LEMMA GoneExisting ==
    ASSUME TypeOK, NEW v \in Existing, versions' = [versions EXCEPT ![v].status = "GONE"]
    PROVE  /\ Existing' = Existing \ {v}
           /\ \A i \in Existing : versions'[i].content = versions[i].content
<1>1. DOMAIN versions' = DOMAIN versions /\ v \in DOMAIN versions /\ versions[v] \in Version
  BY VersionsByOne DEF Existing
<1>2. versions'[v].status = "GONE" /\ versions'[v].content = versions[v].content
  BY <1>1 DEF Version
<1>3. \A i \in DOMAIN versions : i # v => versions'[i] = versions[i]
  BY <1>1
<1>4. \A i \in DOMAIN versions : versions'[i].status = "EXISTS" <=> i # v /\ versions[i].status = "EXISTS"
  BY <1>2, <1>3
<1>5. Existing' = Existing \ {v}
  BY <1>1, <1>4 DEF Existing
<1>6. \A i \in Existing : versions'[i].content = versions[i].content
  BY <1>2, <1>3 DEF Existing
<1> QED BY <1>5, <1>6

\* Contents are told from Empty, and what a version names is one.
LEMMA ContentsOf ==
    ASSUME VersionConstants, TypeInv
    PROVE  /\ Empty \notin Contents
           /\ \A i \in Existing : versions[i].content \in Contents
           /\ file.content \in Contents \cup {Empty} /\ file.status \in FileStatus
           /\ net \in [Contents -> {"none", "stored", "purged"}]
           /\ pending \subseteq Contents /\ owned \subseteq Contents
<1>1. \A i \in Existing : versions[i] \in Version
  BY VersionsByOne DEF TypeInv, Existing
<1> QED BY <1>1 DEF TypeInv, TypeOK, Version, VersionConstants

\* What a marking does to the contents: those of the versions it marks are
\* queued, and no other.
LEMMA MarkKeeps ==
    ASSUME VersionConstants, TypeInv, SerialInv, NEW ids, markDeleted(ids), UNCHANGED net
    PROVE  /\ VersionsApart' /\ VersionContentStored' /\ PendingUploaded'
           /\ \A c : Named(c) => Named(c)' \/ c \in pending'
           /\ \A c : Spare(c) => Spare(c)'
           /\ pending \subseteq pending'
<1>1. /\ Existing' = Existing \ ids
      /\ \A i \in Existing : versions'[i].content = versions[i].content
      /\ pending' = pending \cup {versions[i].content : i \in ids \cap Existing}
  BY MarkExisting DEF TypeInv
<1>2. VersionsApart'
  BY <1>1 DEF SerialInv, VersionsApart
<1>3. \A i \in Existing' : Safe(versions[i].content) /\ versions[i].content \notin pending'
  BY <1>1 DEF SerialInv, VersionsApart, VersionContentStored, Safe
<1>4. VersionContentStored'
  BY <1>1, <1>3 DEF VersionContentStored, Safe
<1>5. PendingUploaded'
  BY <1>1 DEF SerialInv, PendingUploaded, VersionContentStored, Safe
<1>6. \A c : Named(c) => Named(c)' \/ c \in pending'
  BY <1>1 DEF Named
<1>7. ASSUME NEW c, Spare(c) PROVE Spare(c)'
  BY <1>1, <1>7 DEF Spare, Safe, Named
<1> QED BY <1>1, <1>2, <1>4, <1>5, <1>6, <1>7

----------------------------------------------------------------------------
(* Requests that start.                                                    *)

LEMMA ReplaceSerial ==
    ASSUME VersionConstants, TypeInv, SerialInv, alone,
           NEW c \in Contents \cup {Empty}, NEW b \in BOOLEAN, replaceFile(c, b)
    PROVE  SerialInv'
<1>1. /\ requests = {} /\ file.status = "EXISTS"
      /\ UNCHANGED <<file, versions, expiredUpTo, pending, fileQueued, owned>>
      /\ c = Empty \/ net[c] = "none"
      /\ net' = [d \in Contents |-> IF d = c THEN "stored" ELSE net[d]]
  BY DEF replaceFile, Start, Quiet
<1> DEFINE r == [nr |-> 0, op |-> IF b THEN "version" ELSE "plain",
                 step |-> IF b THEN "retain" ELSE "write",
                 old |-> file.content, new |-> c, v |-> 0, ids |-> {},
                 todo |-> IF b THEN {"create", "update"} ELSE {"update"}]
<1>2. r \in Request /\ Start(r)
  BY ContentsOf DEF Request, replaceFile
<1> HIDE DEF r
<1>3. PICK s \in Request :
         /\ requests' = requests \cup {s}
         /\ s.op = r.op /\ s.step = r.step /\ s.old = r.old /\ s.new = r.new
         /\ s.v = r.v /\ s.ids = r.ids /\ s.todo = r.todo
  BY <1>2, StartAdds
<1>4. /\ requests' = {s} /\ s.op = (IF b THEN "version" ELSE "plain")
      /\ s.step = (IF b THEN "retain" ELSE "write")
      /\ s.old = file.content /\ s.new = c
      /\ s.todo = (IF b THEN {"create", "update"} ELSE {"update"})
  BY <1>1, <1>3 DEF r
<1>5. Existing' = Existing /\ \A x : Named(x)' <=> Named(x)
  BY <1>1 DEF Existing, Named
<1>6. /\ \A d \in Contents : Safe(d) => Safe(d)' /\ d # c
      /\ \A d \in Contents : net[d] = "purged" => net'[d] = "purged"
      /\ \A d \in Contents : net[d] # "none" => net'[d] # "none"
  BY <1>1, ContentsOf DEF Safe
<1>7. Spare(file.content) /\ (file.content # Empty => file.content \in Contents)
  BY <1>1, ContentsOf DEF SerialInv, Live
<1>8. Spare(file.content)' /\ (file.content = c => c = Empty)
  BY <1>1, <1>5, <1>6, <1>7 DEF Spare
<1>9. Spare(c)'
  <2> SUFFICES ASSUME c # Empty PROVE Safe(c)' /\ ~ Named(c)
    BY <1>5 DEF Spare
  <2>1. c \in Contents /\ net'[c] = "stored"
    BY <1>1
  <2>2. c \notin pending
    BY <1>1 DEF SerialInv, PendingUploaded
  <2>3. ~ Named(c)
    BY <1>1 DEF SerialInv, VersionContentStored, Named, Safe
  <2> QED BY <1>1, <2>1, <2>2, <2>3 DEF Safe
<1>10. ReplacementInv(s)'
  BY <1>1, <1>4, <1>8, <1>9 DEF ReplacementInv
<1>11. VersionsApart' /\ PendingUploaded' /\ VersionContentStored' /\ LiveContentStored'
  BY <1>1, <1>5, <1>6, ContentsOf
  DEF SerialInv, VersionsApart, PendingUploaded, VersionContentStored, LiveContentStored
<1>12. \A x \in owned' : Tracked(x)'
  BY <1>1, <1>5, <1>6, ContentsOf DEF SerialInv, Tracked
<1> QED BY <1>1, <1>4, <1>10, <1>11, <1>12 DEF SerialInv

LEMMA RestoreSerial ==
    ASSUME VersionConstants, TypeInv, SerialInv, alone,
           NEW i \in DOMAIN versions, restoreFileVersion(i)
    PROVE  SerialInv'
<1>1. /\ requests = {} /\ i \in Existing
      /\ UNCHANGED <<file, versions, expiredUpTo, net, pending, fileQueued, owned>>
  BY DEF restoreFileVersion, Start, Quiet
<1> DEFINE r == [nr |-> 0, op |-> "restore", step |-> "mark",
                 old |-> file.content, new |-> versions[i].content,
                 v |-> i, ids |-> newerVersions(i), todo |-> {"destroy", "update"}]
<1>2. r \in Request /\ Start(r)
  <2>1. newerVersions(i) \in SUBSET Ids /\ i \in Ids
    <3>1. /\ DOMAIN versions = 1 .. Len(versions) /\ Len(versions) \in Nat
          /\ Len(versions) <= MaxRows /\ MaxRows \in Nat
      BY VersionsByOne DEF TypeInv, TypeOK, VersionConstants
    <3>2. DOMAIN versions \subseteq Ids
      BY <3>1 DEF Ids
    <3> QED BY <1>1, <3>2 DEF newerVersions, Existing
  <2> QED BY <1>1, <2>1, ContentsOf DEF Request, restoreFileVersion
<1> HIDE DEF r
<1>3. PICK s \in Request :
         /\ requests' = requests \cup {s}
         /\ s.op = r.op /\ s.step = r.step /\ s.old = r.old /\ s.new = r.new
         /\ s.v = r.v /\ s.ids = r.ids /\ s.todo = r.todo
  BY <1>2, StartAdds
<1>4. /\ requests' = {s} /\ s.op = "restore" /\ s.step = "mark"
      /\ s.new = versions[i].content /\ s.v = i /\ s.ids = newerVersions(i)
      /\ s.todo = {"destroy", "update"}
  BY <1>1, <1>3 DEF r
<1>5. i \notin newerVersions(i)
  <2>1. i \in Nat
    BY VersionsByOne DEF TypeInv
  <2> QED BY <2>1 DEF newerVersions
<1>6. Existing' = Existing /\ (\A x : Named(x)' <=> Named(x)) /\ (\A x : Safe(x)' <=> Safe(x))
  BY <1>1 DEF Existing, Named, Safe
<1>7. \A x : Spare(x)' <=> Spare(x)
  BY <1>6 DEF Spare
<1>8. file.status \in Live => file.content # versions[i].content /\ Spare(file.content)
  BY <1>1, ContentsOf DEF SerialInv, Spare, Named
<1>9. RestorationInv(s)'
  BY <1>1, <1>4, <1>5, <1>6, <1>7, <1>8 DEF RestorationInv
<1>10. VersionsApart' /\ PendingUploaded' /\ VersionContentStored' /\ LiveContentStored'
  BY <1>1, <1>6
  DEF SerialInv, VersionsApart, PendingUploaded, VersionContentStored, LiveContentStored
<1>11. \A x \in owned' : Tracked(x)'
  BY <1>1, <1>6 DEF SerialInv, Tracked
<1> QED BY <1>1, <1>4, <1>9, <1>10, <1>11 DEF SerialInv

----------------------------------------------------------------------------
(* Requests that go on.                                                    *)

LEMMA RetainSerial ==
    ASSUME VersionConstants, TypeInv, SerialInv, NEW r \in requests, applyRetentionPolicy(r)
    PROVE  SerialInv'
<1>1. /\ requests = {r} /\ r.step = "retain"
      /\ UNCHANGED <<file, versions, expiredUpTo, net, pending, fileQueued, owned>>
  BY OnlyRequest DEF applyRetentionPolicy
<1>2. r \in Request /\ r.op = "version" /\ ReplacementInv(r)
  BY <1>1, RequestType DEF SerialInv, RestorationInv, ReplacementInv, Request
<1>3. r.todo = {"create", "update"} /\ Spare(r.old) /\ file.content = r.old
  BY <1>1, <1>2 DEF ReplacementInv
<1>4. Existing' = Existing /\ (\A x : Named(x)' <=> Named(x)) /\ (\A x : Safe(x)' <=> Safe(x))
  BY <1>1 DEF Existing, Named, Safe
<1>5. \A x : Spare(x)' <=> Spare(x)
  BY <1>4 DEF Spare
<1>6. VersionsApart' /\ PendingUploaded' /\ VersionContentStored' /\ LiveContentStored'
  BY <1>1, <1>4
  DEF SerialInv, VersionsApart, PendingUploaded, VersionContentStored, LiveContentStored
<1>7. \A x \in owned' : Tracked(x)'
  BY <1>1, <1>2, <1>3, <1>4 DEF SerialInv, Tracked, Held, ReplacementInv, Live
<1>8. CASE MaxVersions = 0
  <2>1. requests' = {}
    BY <1>1, <1>8 DEF applyRetentionPolicy, Finish
  <2>2. Spare(file.content)'
    BY <1>1, <1>3, <1>5
  <2> QED BY <1>1, <1>6, <1>7, <2>1, <2>2 DEF SerialInv
<1>9. CASE MaxVersions # 0
  <2>1. PICK s : s = [r EXCEPT !.step = "mark", !.ids = Retention]
    OBVIOUS
  <2>2. /\ s.op = r.op /\ s.step = "mark" /\ s.old = r.old /\ s.new = r.new /\ s.todo = r.todo
    BY <1>2, <2>1 DEF Request
  <2>3. requests' = {s}
    BY <1>1, <1>9, <2>1 DEF applyRetentionPolicy, Continue
  <2>4. ReplacementInv(s)'
    BY <1>1, <1>2, <1>3, <1>5, <2>2 DEF ReplacementInv
  <2> QED BY <1>1, <1>2, <1>6, <1>7, <2>2, <2>3, <2>4 DEF SerialInv
<1> QED BY <1>8, <1>9

LEMMA MarkSerial ==
    ASSUME VersionConstants, TypeInv, SerialInv, NEW r \in requests, updateStatusBatch(r)
    PROVE  SerialInv'
<1>1. /\ requests = {r} /\ r.step = "mark" /\ markDeleted(r.ids)
      /\ UNCHANGED <<file, expiredUpTo, net, fileQueued, owned>>
  BY OnlyRequest DEF updateStatusBatch
<1>2. /\ VersionsApart' /\ VersionContentStored' /\ PendingUploaded'
      /\ \A c : Named(c) => Named(c)' \/ c \in pending'
      /\ \A c : Spare(c) => Spare(c)'
      /\ pending \subseteq pending'
  BY <1>1, MarkKeeps
<1>3. PICK s : s = [r EXCEPT !.step = "write", !.ids = {}]
  OBVIOUS
<1>4. r \in Request
  BY RequestType
<1>5. /\ s.op = r.op /\ s.step = "write" /\ s.old = r.old /\ s.new = r.new /\ s.todo = r.todo
      /\ s.v = r.v /\ s.ids = {}
  BY <1>3, <1>4 DEF Request
<1>6. requests' = {s}
  BY <1>1, <1>3 DEF updateStatusBatch, Continue
<1>7. \A x \in owned' : Tracked(x)' \/ Held(s, x)
  BY <1>1, <1>2, <1>5 DEF SerialInv, Tracked, Held
<1>8. CASE r.op = "restore"
  <2>1. RestorationInv(r) /\ r.todo = {"destroy", "update"}
    BY <1>1, <1>8 DEF SerialInv, RestorationInv
  <2>2. r.v \in Existing' /\ versions'[r.v].content = r.new
    BY <1>1, <2>1, MarkExisting DEF RestorationInv, TypeInv
  <2>3. RestorationInv(s)'
    BY <1>1, <1>2, <1>5, <2>1, <2>2 DEF RestorationInv
  <2>4. LiveContentStored'
    BY <1>1, <1>2, <2>1 DEF RestorationInv, LiveContentStored, Spare
  <2> QED BY <1>1, <1>2, <1>5, <1>6, <1>7, <1>8, <2>3, <2>4 DEF SerialInv
<1>9. CASE r.op # "restore"
  <2>1. ReplacementInv(r) /\ r.op = "version" /\ r.todo = {"create", "update"}
    BY <1>1, <1>4, <1>9 DEF SerialInv, ReplacementInv, Request
  <2>2. ReplacementInv(s)'
    BY <1>1, <1>2, <1>5, <2>1 DEF ReplacementInv
  <2>3. LiveContentStored'
    BY <1>1, <1>2, <2>1 DEF ReplacementInv, LiveContentStored, Spare
  <2> QED BY <1>1, <1>2, <1>5, <1>6, <1>7, <1>9, <2>2, <2>3 DEF SerialInv
<1> QED BY <1>8, <1>9

\* A content that is safe has no row that was marked.
LEMMA SpareCanBeCreated ==
    ASSUME VersionConstants, TypeInv, DeletedVersionsQueued, file.status = "EXISTS",
           NEW c, c # Empty, Spare(c)
    PROVE  CanCreate(c)
<1>1. ASSUME NEW i \in Rows, versions[i].content = c PROVE FALSE
  <2>1. versions[i] \in Version /\ i \in DOMAIN versions
    BY VersionsByOne DEF TypeInv, Rows
  <2>2. CASE versions[i].status = "EXISTS"
    BY <1>1, <2>1, <2>2 DEF Spare, Named, Existing
  <2>3. CASE versions[i].status = "DELETED"
    BY <1>1, <2>1, <2>3 DEF Spare, Safe, DeletedVersionsQueued
  <2> QED BY <2>1, <2>2, <2>3 DEF Version, Rows
<1> QED BY <1>1 DEF CanCreate

LEMMA CreateSerial ==
    ASSUME VersionConstants, TypeInv, DeletedVersionsQueued, SerialInv,
           NEW r \in requests, createVersion(r)
    PROVE  SerialInv'
<1>1. /\ requests = {r} /\ r.step = "write" /\ "create" \in r.todo
      /\ UNCHANGED <<file, expiredUpTo, net, pending, fileQueued, owned>>
  BY OnlyRequest DEF createVersion
<1>2. r \in Request /\ r.op = "version" /\ ReplacementInv(r)
  BY <1>1, RequestType DEF SerialInv, RestorationInv, ReplacementInv, Request
<1>3. PICK s \in Request :
         /\ requests' = IF s.todo = {} THEN {} ELSE {s}
         /\ s.op = r.op /\ s.step = r.step /\ s.old = r.old /\ s.new = r.new
         /\ s.v = r.v /\ s.ids = r.ids /\ s.todo = r.todo \ {"create"}
  BY WroteIs DEF createVersion, Writes
<1>4. s.todo \in {{}, {"update"}} /\ (s.todo = {} <=> "update" \notin r.todo)
  BY <1>1, <1>2, <1>3 DEF ReplacementInv
<1>5. Spare(r.old) /\ Spare(r.new) /\ file.status = "EXISTS"
  BY <1>1, <1>2 DEF ReplacementInv
<1>6. /\ r.old # Empty =>
            /\ r.old \in Contents
            /\ Existing' = Existing \cup {Len(versions) + 1}
            /\ Len(versions) + 1 \notin Existing
            /\ versions'[Len(versions) + 1].content = r.old
            /\ \A i \in Existing : versions'[i].content = versions[i].content
      /\ r.old = Empty => versions' = versions
  <2>1. CASE r.old # Empty
    <3>1. CanCreate(r.old)
      BY <1>5, <2>1, SpareCanBeCreated
    <3>2. versions' = Append(versions, [content |-> r.old, status |-> "EXISTS"])
      BY <3>1 DEF createVersion
    <3>3. r.old \in Contents
      BY <1>2, <2>1 DEF Request
    <3> QED BY <2>1, <3>2, <3>3, AppendExisting DEF TypeInv
  <2>2. CASE r.old = Empty
    BY <2>2 DEF createVersion, CanCreate
  <2> QED BY <2>1, <2>2
<1>7. \A x : Named(x)' <=> Named(x) \/ (x = r.old /\ r.old # Empty)
  <2>1. CASE r.old # Empty
    BY <1>6, <2>1 DEF Named
  <2>2. CASE r.old = Empty
    BY <1>6, <2>2 DEF Named, Existing
  <2> QED BY <2>1, <2>2
<1>8. /\ \A x : Safe(x)' <=> Safe(x)
      /\ r.old # Empty => Safe(r.old) /\ ~ Named(r.old)
  BY <1>1, <1>5 DEF Safe, Spare
<1>9. VersionsApart' /\ VersionContentStored'
  <2>1. CASE r.old # Empty
    <3>1. VersionsApart'
      BY <1>6, <1>8, <2>1 DEF SerialInv, VersionsApart, Named
    <3>2. VersionContentStored'
      BY <1>6, <1>8, <2>1 DEF SerialInv, VersionContentStored
    <3> QED BY <3>1, <3>2
  <2>2. CASE r.old = Empty
    <3>1. Existing' = Existing /\ versions' = versions
      BY <1>6, <2>2 DEF Existing
    <3> QED BY <1>8, <3>1 DEF SerialInv, VersionsApart, VersionContentStored
  <2> QED BY <2>1, <2>2
<1>10. PendingUploaded' /\ LiveContentStored'
  BY <1>1, <1>8 DEF SerialInv, PendingUploaded, LiveContentStored
<1>11. Spare(r.new)'
  BY <1>2, <1>5, <1>7, <1>8 DEF Spare, ReplacementInv
<1>12. \A x \in owned' : Tracked(x)'
  <2>1. \A x \in owned : x # Empty
    BY ContentsOf
  <2>2. \A x \in owned : Tracked(x) \/ x = r.old
    BY <1>1, <1>2 DEF SerialInv, Held
  <2> QED BY <1>1, <1>7, <2>1, <2>2 DEF Tracked
<1>13. CASE "update" \in r.todo
  <2>1. requests' = {s}
    BY <1>3, <1>4, <1>13
  <2>2. ReplacementInv(s)'
    BY <1>1, <1>2, <1>3, <1>4, <1>7, <1>11, <1>13 DEF ReplacementInv
  <2> QED BY <1>1, <1>2, <1>3, <1>9, <1>10, <1>12, <2>1, <2>2 DEF SerialInv
<1>14. CASE "update" \notin r.todo
  <2>1. requests' = {}
    BY <1>3, <1>4, <1>14
  <2>2. file.content = r.new
    BY <1>2, <1>14 DEF ReplacementInv
  <2> QED BY <1>1, <1>9, <1>10, <1>11, <1>12, <2>1, <2>2 DEF SerialInv
<1> QED BY <1>13, <1>14

LEMMA UpdateSerial ==
    ASSUME VersionConstants, TypeInv, SerialInv, NEW r \in requests, updateFile(r)
    PROVE  SerialInv'
<1>1. /\ requests = {r} /\ r.step = "write" /\ "update" \in r.todo
      /\ UNCHANGED <<versions, expiredUpTo, net, pending, fileQueued>>
  BY OnlyRequest DEF updateFile
<1>2. r \in Request /\ r.op \in {"version", "plain", "restore"}
  BY RequestType DEF Request
<1>3. Existing' = Existing /\ (\A x : Named(x)' <=> Named(x)) /\ (\A x : Safe(x)' <=> Safe(x))
  BY <1>1 DEF Existing, Named, Safe
<1>4. \A x : Spare(x)' <=> Spare(x)
  BY <1>3 DEF Spare
<1>5. VersionsApart' /\ PendingUploaded' /\ VersionContentStored'
  BY <1>1, <1>3 DEF SerialInv, VersionsApart, PendingUploaded, VersionContentStored
<1>6. CASE r.op # "restore"
  <2>1. ReplacementInv(r)
    BY <1>6 DEF SerialInv
  <2>2. file.status = "EXISTS" /\ file.content = r.old /\ Spare(r.new)
    BY <1>1, <2>1 DEF ReplacementInv
  <2>3. file'.status = "EXISTS" /\ file'.content = r.new
    BY <2>2 DEF updateFile, TypeInv, TypeOK
  <2>4. owned' = owned \cup ({r.new} \ {Empty})
    BY <1>6 DEF updateFile
  <2>5. LiveContentStored' /\ Spare(file.content)'
    BY <1>4, <2>2, <2>3 DEF LiveContentStored, Spare
  <2>6. CASE PurgesOld(r)
    <3>1. PICK s : s = [r EXCEPT !.todo = (@ \ {"update"}) \cup {"purge"}]
      OBVIOUS
    <3>2. /\ s.op = r.op /\ s.step = r.step /\ s.old = r.old /\ s.new = r.new
          /\ s.todo = (r.todo \ {"update"}) \cup {"purge"}
      BY <1>2, <3>1 DEF Request
    <3>3. requests' = {s}
      BY <1>1, <2>6, <3>1 DEF updateFile, Continue
    <3>4. r.op = "plain" /\ r.old # Empty /\ r.todo = {"update"}
      BY <1>1, <2>1, <2>6 DEF PurgesOld, ReplacementInv
    <3>5. s.todo = {"purge"}
      BY <3>2, <3>4
    <3>6. ReplacementInv(s)'
      BY <1>4, <2>1, <2>3, <3>2, <3>4, <3>5 DEF ReplacementInv
    <3>7. \A x \in owned' : Tracked(x)' \/ Held(s, x)
      BY <1>1, <1>3, <2>2, <2>3, <2>4, <3>2, <3>4, <3>5 DEF SerialInv, Tracked, Held, Live
    <3> QED BY <1>1, <1>5, <1>6, <2>3, <2>5, <3>2, <3>3, <3>6, <3>7, <2>2 DEF SerialInv
  <2>7. CASE ~ PurgesOld(r)
    <3>1. PICK s \in Request :
             /\ requests' = IF s.todo = {} THEN {} ELSE {s}
             /\ s.op = r.op /\ s.step = r.step /\ s.old = r.old /\ s.new = r.new
             /\ s.v = r.v /\ s.ids = r.ids /\ s.todo = r.todo \ {"update"}
      BY <2>7, WroteIs DEF updateFile, Writes
    <3>2. CASE r.op = "plain"
      <4>1. requests' = {} /\ r.old = Empty
        BY <1>1, <2>1, <2>7, <3>1, <3>2 DEF PurgesOld, ReplacementInv
      <4>2. \A x \in owned' : Tracked(x)'
        BY <1>1, <1>3, <2>1, <2>2, <2>3, <2>4, <3>2, <4>1, ContentsOf
        DEF SerialInv, Tracked, Held, Live, ReplacementInv
      <4> QED BY <1>1, <1>5, <2>2, <2>3, <2>5, <4>1, <4>2 DEF SerialInv
    <3>3. CASE r.op = "version" /\ "create" \in r.todo
      <4>1. s.todo = {"create"} /\ requests' = {s}
        BY <1>1, <2>1, <3>1, <3>3 DEF ReplacementInv
      <4>2. ReplacementInv(s)'
        BY <1>1, <1>4, <2>1, <2>3, <3>1, <3>3, <4>1 DEF ReplacementInv
      <4>3. \A x \in owned' : Tracked(x)' \/ Held(s, x)
        BY <1>1, <1>3, <2>2, <2>3, <2>4, <3>1, <3>3, <4>1 DEF SerialInv, Tracked, Held, Live
      <4> QED BY <1>1, <1>5, <1>6, <2>2, <2>3, <2>5, <3>1, <4>1, <4>2, <4>3 DEF SerialInv
    <3>4. CASE r.op = "version" /\ "create" \notin r.todo
      <4>1. requests' = {} /\ (r.old # Empty => Named(r.old)) /\ r.todo = {"update"}
        BY <1>1, <2>1, <3>1, <3>4 DEF ReplacementInv
      <4>2. \A x \in owned' : Tracked(x)'
        BY <1>1, <1>3, <2>2, <2>3, <2>4, <3>4, <4>1, ContentsOf
        DEF SerialInv, Tracked, Held, Live
      <4> QED BY <1>1, <1>5, <2>2, <2>3, <2>5, <4>1, <4>2 DEF SerialInv
    <3> QED BY <1>2, <1>6, <3>2, <3>3, <3>4
  <2> QED BY <2>6, <2>7
<1>7. CASE r.op = "restore"
  <2>1. RestorationInv(r) /\ r.new \in Contents /\ r.new # Empty
    BY <1>7, RequestType DEF SerialInv, VersionConstants
  <2>2. PICK s \in Request :
           /\ requests' = IF s.todo = {} THEN {} ELSE {s}
           /\ s.op = r.op /\ s.step = r.step /\ s.old = r.old /\ s.new = r.new
           /\ s.v = r.v /\ s.ids = r.ids /\ s.todo = r.todo \ {"update"}
    BY <1>7, WroteIs DEF updateFile, Writes, PurgesOld
  <2>3. /\ file'.status = file.status
        /\ file.status # "GONE" => file'.content = r.new
    BY DEF updateFile, TypeInv, TypeOK
  <2>4. Safe(r.new)
    <3>1. "destroy" \in r.todo => Safe(r.new)
      BY <2>1 DEF RestorationInv, SerialInv, VersionContentStored
    <3> QED BY <2>1, <3>1 DEF RestorationInv, Spare
  <2>5. LiveContentStored'
    BY <1>3, <2>3, <2>4 DEF LiveContentStored, Live
  <2>6. /\ file.status \in Live => owned' = (owned \ {file.content}) \cup {r.new}
        /\ file.status \notin Live => owned' = owned \ {r.new}
    BY <1>7 DEF updateFile
  <2>7. \A x \in owned' : Tracked(x)'
    <3>1. \A x \in owned : Tracked(x) \/ x = r.new
      BY <1>1, <1>7, <2>1 DEF SerialInv, Held, RestorationInv
    <3>2. CASE file.status \in Live
      BY <1>1, <1>3, <2>3, <2>6, <3>1, <3>2 DEF Tracked, Live
    <3>3. CASE file.status \notin Live
      BY <1>1, <1>3, <2>3, <2>6, <3>1, <3>3 DEF Tracked
    <3> QED BY <3>2, <3>3
  <2>8. CASE "destroy" \in r.todo
    <3>1. requests' = {s} /\ s.todo = {"destroy"}
      BY <1>1, <2>1, <2>2, <2>8 DEF RestorationInv
    <3>2. RestorationInv(s)'
      BY <1>1, <1>3, <2>1, <2>2, <2>3, <2>6, <2>8, <3>1 DEF RestorationInv, Live
    <3> QED BY <1>1, <1>5, <1>7, <2>2, <2>3, <2>5, <2>7, <3>1, <3>2 DEF SerialInv
  <2>9. CASE "destroy" \notin r.todo
    <3>1. requests' = {} /\ Spare(r.new)
      BY <1>1, <2>1, <2>2, <2>9 DEF RestorationInv
    <3>2. file'.status \in Live => Spare(file.content)'
      BY <1>4, <2>3, <3>1 DEF Live
    <3> QED BY <1>1, <1>5, <2>3, <2>5, <2>7, <3>1, <3>2 DEF SerialInv
  <2> QED BY <2>8, <2>9
<1> QED BY <1>6, <1>7

LEMMA PurgeSerial ==
    ASSUME VersionConstants, TypeInv, SerialInv, NEW r \in requests, deleteOldContent(r)
    PROVE  SerialInv'
<1>1. /\ requests = {r} /\ r.step = "write" /\ "purge" \in r.todo
      /\ UNCHANGED <<file, versions, expiredUpTo, pending, fileQueued>>
  BY OnlyRequest DEF deleteOldContent
<1>2. r \in Request /\ r.op = "plain" /\ ReplacementInv(r)
  BY <1>1, RequestType DEF SerialInv, RestorationInv, ReplacementInv, Request
<1>3. /\ r.todo = {"purge"} /\ r.old # Empty /\ r.old \in Contents /\ Spare(r.old)
      /\ Spare(r.new) /\ file.status = "EXISTS" /\ file.content = r.new /\ r.new # r.old
  BY <1>1, <1>2 DEF ReplacementInv, Request
<1>4. requests' = {}
  <2>1. PICK s \in Request :
           /\ requests' = IF s.todo = {} THEN {} ELSE {s}
           /\ s.todo = r.todo \ {"purge"}
    BY WroteIs DEF deleteOldContent, Writes
  <2> QED BY <1>3, <2>1
<1>5. /\ net' \in {net, [net EXCEPT ![r.old] = "purged"]}
      /\ net' = net => owned' = owned \ {r.old} \/ net[r.old] = "purged"
      /\ owned' \subseteq owned
  <2>1. net \in [Contents -> {"none", "stored", "purged"}]
    BY ContentsOf
  <2> QED BY <1>3, <2>1 DEF deleteOldContent
<1>6. /\ \A d \in Contents : d # r.old => net'[d] = net[d]
      /\ \A d \in Contents : net[d] # "none" => net'[d] # "none"
      /\ r.old \in owned' => net'[r.old] = "purged"
  <2>1. net \in [Contents -> {"none", "stored", "purged"}]
    BY ContentsOf
  <2> QED BY <1>3, <1>5, <2>1
<1>7. Existing' = Existing /\ \A x : Named(x)' <=> Named(x)
  BY <1>1 DEF Existing, Named
<1>8. \A x \in Contents : x # r.old => (Safe(x)' <=> Safe(x))
  BY <1>1, <1>6 DEF Safe
<1>9. \A i \in Existing : versions[i].content \in Contents /\ versions[i].content # r.old
  BY <1>3, ContentsOf DEF Spare, Named
<1>10. VersionsApart' /\ PendingUploaded' /\ VersionContentStored'
  BY <1>1, <1>6, <1>7, <1>8, <1>9, ContentsOf
  DEF SerialInv, VersionsApart, PendingUploaded, VersionContentStored
<1>11. Spare(file.content)' /\ LiveContentStored'
  BY <1>1, <1>3, <1>7, <1>8, ContentsOf DEF Spare, LiveContentStored
<1>12. \A x \in owned' : Tracked(x)'
  <2>1. \A x \in owned : x \in Contents /\ (Tracked(x) \/ x = r.old)
    BY <1>1, <1>2, ContentsOf DEF SerialInv, Held
  <2> QED BY <1>1, <1>5, <1>6, <1>7, <2>1 DEF Tracked
<1> QED BY <1>1, <1>4, <1>10, <1>11, <1>12 DEF SerialInv

LEMMA DestroySerial ==
    ASSUME VersionConstants, TypeInv, SerialInv, NEW r \in requests, destroyVersion(r)
    PROVE  SerialInv'
<1>1. /\ requests = {r} /\ r.step = "write" /\ "destroy" \in r.todo
      /\ versions' = [versions EXCEPT ![r.v].status = "GONE"]
      /\ UNCHANGED <<file, expiredUpTo, net, pending, fileQueued, owned>>
  BY OnlyRequest DEF destroyVersion
<1>2. r \in Request /\ r.op = "restore" /\ RestorationInv(r)
  BY <1>1, RequestType DEF SerialInv, RestorationInv, ReplacementInv, Request
<1>3. PICK s \in Request :
         /\ requests' = IF s.todo = {} THEN {} ELSE {s}
         /\ s.op = r.op /\ s.step = r.step /\ s.old = r.old /\ s.new = r.new
         /\ s.v = r.v /\ s.ids = r.ids /\ s.todo = r.todo \ {"destroy"}
  BY WroteIs DEF destroyVersion, Writes
<1>4. r.v \in Existing /\ versions[r.v].content = r.new /\ Safe(r.new)
  BY <1>1, <1>2 DEF RestorationInv, SerialInv, VersionContentStored
<1>5. /\ Existing' = Existing \ {r.v}
      /\ \A i \in Existing : versions'[i].content = versions[i].content
  BY <1>1, <1>4, GoneExisting DEF TypeInv
<1>6. \A x : Named(x)' <=> Named(x) /\ x # r.new
  BY <1>4, <1>5 DEF Named, SerialInv, VersionsApart
<1>7. \A x : Safe(x)' <=> Safe(x)
  BY <1>1 DEF Safe
<1>8. VersionsApart' /\ PendingUploaded' /\ VersionContentStored' /\ LiveContentStored'
  BY <1>1, <1>5, <1>7
  DEF SerialInv, VersionsApart, PendingUploaded, VersionContentStored, LiveContentStored
<1>9. Spare(r.new)' /\ \A x : Spare(x) => Spare(x)'
  BY <1>4, <1>6, <1>7 DEF Spare
<1>10. \A x \in owned' : Tracked(x)' \/ x = r.new
  BY <1>1, <1>2, <1>6 DEF SerialInv, Tracked, Held, RestorationInv
<1>11. CASE "update" \in r.todo
  <2>1. requests' = {s} /\ s.todo = {"update"}
    BY <1>1, <1>2, <1>3, <1>11 DEF RestorationInv
  <2>2. RestorationInv(s)'
    BY <1>1, <1>2, <1>3, <1>9, <1>11, <2>1 DEF RestorationInv
  <2>3. \A x \in owned' : Tracked(x)' \/ Held(s, x)'
    BY <1>2, <1>3, <1>10, <2>1 DEF Held
  <2> QED BY <1>1, <1>2, <1>3, <1>8, <2>1, <2>2, <2>3 DEF SerialInv
<1>12. CASE "update" \notin r.todo
  <2>1. requests' = {}
    BY <1>1, <1>2, <1>3, <1>12 DEF RestorationInv
  <2>2. IF file.status \in Live THEN file.content = r.new ELSE r.new \notin owned
    BY <1>2, <1>12 DEF RestorationInv
  <2>3. \A x \in owned' : Tracked(x)'
    BY <1>1, <1>10, <2>2 DEF Tracked
  <2> QED BY <1>1, <1>8, <1>9, <2>1, <2>2, <2>3 DEF SerialInv
<1> QED BY <1>11, <1>12

----------------------------------------------------------------------------
(* Handlers and jobs that are one UPDATE, and the network.                 *)

\* Versions that are marked while nothing is in flight.
LEMMA MarkedSerial ==
    ASSUME VersionConstants, TypeInv, SerialInv, NEW ids, markDeleted(ids),
           requests = {}, UNCHANGED <<requests, file, net, fileQueued, owned>>
    PROVE  SerialInv'
<1>1. /\ VersionsApart' /\ VersionContentStored' /\ PendingUploaded'
      /\ \A c : Named(c) => Named(c)' \/ c \in pending'
      /\ \A c : Spare(c) => Spare(c)'
      /\ pending \subseteq pending'
  BY MarkKeeps
<1>2. LiveContentStored'
  BY <1>1 DEF SerialInv, LiveContentStored, Spare
<1>3. \A x \in owned' : Tracked(x)'
  BY <1>1 DEF SerialInv, Tracked
<1> QED BY <1>1, <1>2, <1>3 DEF SerialInv

\* The file is trashed, restored, deleted or destroyed, and time passes.
LEMMA FileSerial ==
    ASSUME VersionConstants, TypeInv, SerialInv, alone,
           deleteFile \/ trashOrRestore \/ destroyFile \/ expireOne
    PROVE  SerialInv'
<1>1. requests = {} /\ UNCHANGED <<requests, net>>
  BY DEF deleteFile, trashOrRestore, destroyFile, expireOne, Atomic, Quiet
<1>2. CASE trashOrRestore \/ expireOne
  <2>1. /\ UNCHANGED <<versions, pending, fileQueued, owned>>
        /\ file'.content = file.content
        /\ file'.status \in Live <=> file.status \in Live
    BY <1>2 DEF trashOrRestore, expireOne, Live, TypeInv, TypeOK
  <2>2. Existing' = Existing /\ (\A x : Named(x)' <=> Named(x)) /\ (\A x : Safe(x)' <=> Safe(x))
    BY <1>1, <2>1 DEF Existing, Named, Safe
  <2>3. Spare(file.content)' <=> Spare(file.content)
    BY <2>1, <2>2 DEF Spare
  <2>4. VersionsApart' /\ PendingUploaded' /\ VersionContentStored' /\ LiveContentStored'
    BY <1>1, <2>1, <2>2
    DEF SerialInv, VersionsApart, PendingUploaded, VersionContentStored, LiveContentStored
  <2>5. \A x \in owned' : Tracked(x)'
    BY <1>1, <2>1, <2>2 DEF SerialInv, Tracked
  <2> QED BY <1>1, <2>1, <2>3, <2>4, <2>5 DEF SerialInv
<1>3. CASE deleteFile
  <2>1. /\ file.status \in Live /\ file'.status = "DELETED" /\ ~ fileQueued
        /\ UNCHANGED <<versions, owned>>
        /\ file.content # Empty => pending' = pending \cup {file.content}
        /\ file.content = Empty => pending' = pending
    BY <1>3 DEF deleteFile, SerialInv, TypeInv, TypeOK
  <2>2. Existing' = Existing /\ \A x : Named(x)' <=> Named(x)
    BY <2>1 DEF Existing, Named
  <2>3. file.content # Empty => Safe(file.content) /\ ~ Named(file.content)
    BY <1>1, <2>1 DEF SerialInv, Spare
  <2>4. VersionsApart' /\ PendingUploaded'
    BY <1>1, <2>1, <2>2, <2>3 DEF SerialInv, VersionsApart, PendingUploaded, Safe
  <2>5. VersionContentStored'
    BY <1>1, <2>1, <2>2, <2>3 DEF SerialInv, VersionContentStored, Safe, Named
  <2>6. \A x \in owned' : Tracked(x)'
    <3>1. \A x \in owned : Tracked(x) /\ x # Empty
      BY <1>1, ContentsOf DEF SerialInv
    <3> QED BY <1>1, <2>1, <2>2, <3>1 DEF Tracked
  <2> QED BY <1>1, <2>1, <2>4, <2>5, <2>6 DEF SerialInv, LiveContentStored, Live
<1>4. CASE destroyFile
  <2>1. /\ file'.status = "GONE" /\ file.status = "DELETED" /\ UNCHANGED pending
        /\ versions' = [i \in DOMAIN versions |-> [versions[i] EXCEPT !.status = "GONE"]]
        /\ owned' = owned \ {versions[i].content : i \in Existing}
    BY <1>4 DEF destroyFile, TypeInv, TypeOK
  <2>2. Existing' = {}
    <3>1. \A i \in DOMAIN versions : versions[i] \in Version
      BY VersionsByOne DEF TypeInv
    <3>2. DOMAIN versions' = DOMAIN versions /\ \A i \in DOMAIN versions : versions'[i].status = "GONE"
      BY <2>1, <3>1 DEF Version
    <3> QED BY <3>2 DEF Existing
  <2>3. \A x \in owned' : Tracked(x)'
    BY <1>1, <2>1 DEF SerialInv, Tracked, Named, Live
  <2>4. VersionsApart' /\ PendingUploaded' /\ VersionContentStored'
    BY <1>1, <2>1, <2>2 DEF SerialInv, VersionsApart, PendingUploaded, VersionContentStored
  <2> QED BY <1>1, <2>1, <2>3, <2>4 DEF SerialInv, LiveContentStored, Live
<1> QED BY <1>2, <1>3, <1>4

LEMMA NetworkSerial ==
    ASSUME VersionConstants, TypeInv, SerialInv, alone, NEW c \in Contents, purgeContent(c)
    PROVE  SerialInv'
<1>1. /\ requests = {} /\ c \in pending /\ pending' = pending \ {c}
      /\ net' = [net EXCEPT ![c] = "purged"]
      /\ UNCHANGED <<file, versions, expiredUpTo, fileQueued, requests, owned>>
  BY DEF purgeContent, Quiet
<1>2. /\ net'[c] = "purged"
      /\ \A d \in Contents : d # c => net'[d] = net[d]
  BY <1>1, ContentsOf
<1>3. Existing' = Existing /\ \A x : Named(x)' <=> Named(x)
  BY <1>1 DEF Existing, Named
<1>4. \A d \in Contents : Safe(d) => Safe(d)'
  BY <1>1, <1>2 DEF Safe
<1>5. VersionsApart' /\ PendingUploaded' /\ VersionContentStored' /\ LiveContentStored'
  BY <1>1, <1>2, <1>3, <1>4, ContentsOf
  DEF SerialInv, VersionsApart, PendingUploaded, VersionContentStored, LiveContentStored
<1>6. Spare(file.content) => Spare(file.content)'
  BY <1>1, <1>3, <1>4, ContentsOf DEF Spare
<1>7. \A x \in owned' : Tracked(x)'
  <2>1. \A x \in owned : x \in Contents /\ Tracked(x)
    BY <1>1, ContentsOf DEF SerialInv
  <2> QED BY <1>1, <1>2, <1>3, <2>1 DEF Tracked
<1> QED BY <1>1, <1>5, <1>6, <1>7 DEF SerialInv

----------------------------------------------------------------------------
\* One step of a server whose requests run alone.
LEMMA SerialStep ==
    ASSUME VersionConstants, TypeInv, DeletedVersionsQueued, SerialInv, alone, [Next]_vars
    PROVE  SerialInv'
<1>1. CASE UNCHANGED vars
  <2>1. /\ Existing' = Existing /\ (\A x : Named(x)' <=> Named(x)) /\ (\A x : Safe(x)' <=> Safe(x))
        /\ UNCHANGED <<file, versions, net, pending, fileQueued, requests, owned>>
    BY <1>1 DEF vars, Existing, Named, Safe
  <2>2. \A x : Spare(x)' <=> Spare(x)
    BY <2>1 DEF Spare
  <2>3. VersionsApart' /\ PendingUploaded' /\ VersionContentStored' /\ LiveContentStored'
    BY <2>1 DEF SerialInv, VersionsApart, PendingUploaded, VersionContentStored, LiveContentStored
  <2>4. \A r \in requests : IF r.op = "restore" THEN RestorationInv(r)' ELSE ReplacementInv(r)'
    BY <2>1, <2>2 DEF SerialInv, RestorationInv, ReplacementInv
  <2>5. \A x \in owned : Tracked(x)' \/ \E r \in requests : Held(r, x)
    BY <2>1 DEF SerialInv, Tracked
  <2> QED BY <2>1, <2>2, <2>3, <2>4, <2>5 DEF SerialInv, Held
<1>2. ASSUME NEW i \in DOMAIN versions, deleteFileVersion(i) PROVE SerialInv'
  BY <1>2, MarkedSerial DEF deleteFileVersion, Atomic, Quiet
<1>3. ASSUME NEW S \in SUBSET Existing,
             \/ deleteUserVersionsBatch(S) \/ deleteUserVersionsByLimits(S)
             \/ deleteExpiredVersions(S)
      PROVE  SerialInv'
  BY <1>3, MarkedSerial
  DEF deleteUserVersionsBatch, deleteUserVersionsByLimits, deleteExpiredVersions, Atomic, Quiet
<1>4. CASE RequestStep
  BY <1>4, RetainSerial, MarkSerial, CreateSerial, UpdateSerial, PurgeSerial, DestroySerial
  DEF RequestStep
<1>5. CASE Next
  BY <1>2, <1>3, <1>4, <1>5, ReplaceSerial, RestoreSerial, FileSerial, NetworkSerial DEF Next, Step
<1> QED BY <1>1, <1>5

\* When requests run one at a time, no sequence of replacements, restorations,
\* retentions and jobs takes the content of the file or of a version away, and
\* none is lost: whatever the order in which a replacement or a restoration does
\* its two writes, and whatever the number of versions the plan allows.
THEOREM SerialContentsTracked == Spec => []ContentsTrackedAlone
<1>1. Init => SerialInvAlone
  <2> SUFFICES ASSUME Init PROVE SerialInv
    BY DEF SerialInvAlone
  <2>1. PICK c \in Contents \cup {Empty} :
          /\ file = [status |-> "EXISTS", content |-> c]
          /\ net = [d \in Contents |-> IF d = c THEN "stored" ELSE "none"]
          /\ owned = Contents \cap {c}
    BY DEF Init
  <2>2. Existing = {} /\ pending = {} /\ requests = {} /\ fileQueued = FALSE
    BY DEF Init, Existing
  <2>3. Spare(file.content) /\ LiveContentStored
    BY <2>1, <2>2 DEF Spare, Named, Safe, LiveContentStored
  <2> QED BY <2>1, <2>2, <2>3
      DEF SerialInv, VersionsApart, PendingUploaded, VersionContentStored, Tracked, Live
<1>2. TypeInv /\ DeletedVersionsQueued /\ SerialInvAlone /\ [Next]_vars => SerialInvAlone'
  <2>1. [Next]_vars => alone' = alone
    BY DEF Next, vars
  <2> QED BY <2>1, SerialStep, VersionConstants DEF SerialInvAlone
<1>3. SerialInvAlone => ContentsTrackedAlone
  <2>1. SerialInv => NoUntrackedContent
    BY DEF SerialInv, NoUntrackedContent, Tracked, Named
  <2> QED BY <2>1 DEF SerialInvAlone, SerialInv, ContentsTrackedAlone
<1> QED BY <1>1, <1>2, <1>3, TypeInvariant, VersionsAreQueued, PTL DEF Spec

----------------------------------------------------------------------------
(* The limit of versions.                                                  *)
(*                                                                         *)
(* A replacement reads which versions to mark, marks them, and creates its *)
(* own; by then others have done the same.  What is left when any set of   *)
(* readers have marked what they read, the versions about to be created    *)
(* and these readers together keep to the limit, but for as many as can be *)
(* in flight.                                                              *)

\* How many requests of a behaviour can be in flight.
Together == IF alone THEN 1 ELSE MaxInFlight

\* Those that have read what to mark, and those about to create, if they are not refused.
Readers(S) == {r \in S : r.step = "mark" /\ "create" \in r.todo}
Makers(S) == {r \in S : r.step = "write" /\ "create" \in r.todo}

\* What they leave of the versions.
Kept(Q) == Existing \ UNION {r.ids : r \in Q}

NumbersInv ==
    /\ \A r, s \in requests : r.nr = s.nr => r = s
    /\ \A r \in requests : r.nr \in 1 .. Together

RoomInv ==
    \A Q \in SUBSET Readers(requests) :
        Cardinality(Kept(Q)) + Cardinality(Makers(requests)) + Cardinality(Q) <= MaxVersions - 1 + Together

\* A set that loses one and may get another, loses one, or may get one.
LEMMA SetStep ==
    ASSUME NEW S, IsFiniteSet(S), NEW T, NEW r, NEW s
    PROVE  /\ r \in S /\ T \subseteq (S \ {r}) \cup {s} => Cardinality(T) <= Cardinality(S)
           /\ r \in S /\ T \subseteq S \ {r} => Cardinality(T) <= Cardinality(S) - 1
           /\ T \subseteq S \cup {s} => Cardinality(T) <= Cardinality(S) + 1
           /\ T \subseteq S \cup {s} => IsFiniteSet(T) /\ Cardinality(T) \in Nat
<1>1. Cardinality(S) \in Nat
  BY FS_CardinalityType
<1>2. IsFiniteSet(S \cup {s}) /\ Cardinality(S \cup {s}) <= Cardinality(S) + 1
  BY <1>1, FS_AddElement
<1>3. ASSUME T \subseteq S \cup {s}
      PROVE  /\ IsFiniteSet(T) /\ Cardinality(T) \in Nat
             /\ Cardinality(T) <= Cardinality(S) + 1
  <2>1. IsFiniteSet(T) /\ Cardinality(T) <= Cardinality(S \cup {s})
    BY <1>2, <1>3, FS_Subset
  <2>2. Cardinality(T) \in Nat /\ Cardinality(S \cup {s}) \in Nat
    BY <1>2, <2>1, FS_CardinalityType
  <2> QED BY <1>1, <1>2, <2>1, <2>2
<1>4. ASSUME r \in S
      PROVE  IsFiniteSet(S \ {r}) /\ Cardinality(S \ {r}) = Cardinality(S) - 1
  BY <1>4, FS_RemoveElement
<1>5. ASSUME r \in S, T \subseteq S \ {r} PROVE Cardinality(T) <= Cardinality(S) - 1
  BY <1>4, <1>5, FS_Subset
<1>6. ASSUME r \in S, T \subseteq (S \ {r}) \cup {s} PROVE Cardinality(T) <= Cardinality(S)
  <2>1. IsFiniteSet((S \ {r}) \cup {s}) /\ Cardinality((S \ {r}) \cup {s}) <= Cardinality(S \ {r}) + 1
    <3>1. IsFiniteSet(S \ {r}) /\ Cardinality(S \ {r}) \in Nat
      BY <1>4, <1>6, FS_CardinalityType
    <3> QED BY <3>1, FS_AddElement
  <2>2. Cardinality(T) <= Cardinality((S \ {r}) \cup {s})
    BY <1>6, <2>1, FS_Subset
  <2>3. Cardinality(T) \in Nat /\ Cardinality((S \ {r}) \cup {s}) \in Nat
    BY <1>6, <2>1, FS_Subset, FS_CardinalityType
  <2> QED BY <1>1, <1>4, <1>6, <2>1, <2>2, <2>3
<1> QED BY <1>3, <1>5, <1>6

\* The sets that are counted are finite.
LEMMA RoomIsFinite ==
    ASSUME VersionConstants, TypeInv, NEW Q \in SUBSET Readers(requests)
    PROVE  /\ IsFiniteSet(Existing) /\ IsFiniteSet(Kept(Q)) /\ IsFiniteSet(Makers(requests)) /\ IsFiniteSet(Q)
           /\ Cardinality(Kept(Q)) \in Nat /\ Cardinality(Makers(requests)) \in Nat /\ Cardinality(Q) \in Nat
           /\ MaxVersions \in Nat /\ Together \in Nat /\ Together >= 1
<1>1. IsFiniteSet(1 .. Len(versions))
  BY VersionsByOne, FS_Interval DEF TypeInv
<1>2. IsFiniteSet(Existing)
  BY <1>1, VersionsByOne, FS_Subset DEF TypeInv, Existing
<1>3. IsFiniteSet(Kept(Q))
  BY <1>2, FS_Subset DEF Kept
<1>4. IsFiniteSet(Makers(requests)) /\ IsFiniteSet(Q)
  BY FS_Subset DEF TypeInv, Makers, Readers
<1>5. MaxVersions \in Nat /\ Together \in Nat /\ Together >= 1
  BY DEF VersionConstants, Together
<1> QED BY <1>2, <1>3, <1>4, <1>5, FS_CardinalityType

\* No more requests are in flight than there are numbers.
LEMMA RequestsCounted ==
    ASSUME NEW S, IsFiniteSet(S), NEW n \in Nat,
           \A r, s \in S : r.nr = s.nr => r = s, \A r \in S : r.nr \in 1 .. n
    PROVE  Cardinality(S) <= n
<1> DEFINE number == [r \in S |-> r.nr]
<1>1. IsFiniteSet(1 .. n) /\ Cardinality(1 .. n) = n
  BY FS_Interval
<1>2. number \in Injection(S, 1 .. n)
  BY DEF Injection, IsInjective
<1> HIDE DEF number
<1> QED BY <1>1, <1>2, FS_Injection

\* A request that starts takes a number that is free.
LEMMA StartNumbers ==
    ASSUME VersionConstants, TypeInv, NumbersInv, alone' = alone, NEW r \in Request, Start(r)
    PROVE  /\ NumbersInv'
           /\ \E s \in Request : /\ requests' = requests \cup {s}
                                 /\ s.step = r.step /\ s.todo = r.todo
<1>1. PICK k \in 1 .. MaxInFlight : Free(k) /\ requests' = requests \cup {[r EXCEPT !.nr = k]}
  BY DEF Start
<1> DEFINE s == [r EXCEPT !.nr = k]
<1>2. s \in Request /\ s.nr = k /\ s.step = r.step /\ s.todo = r.todo
  BY DEF VersionConstants, Request
<1>3. requests' = requests \cup {s}
  BY <1>1
<1> HIDE DEF s
<1>4. k \in Nat /\ k >= 1 /\ k <= MaxInFlight /\ MaxInFlight \in Nat
  BY DEF VersionConstants
<1>5. \A q \in requests : q.nr # k
  <2>1. k \notin {q.nr : q \in requests} \cap 1 .. k
    BY <1>1, <1>4 DEF Free
  <2> QED BY <1>4, <2>1
<1>6. k \in 1 .. Together
  <2>1. CASE alone
    <3>1. requests = {}
      BY <2>1 DEF Start, Quiet
    <3>2. 1 .. (k - 1) = {}
      BY <1>1, <3>1 DEF Free
    <3>3. k = 1
      BY <1>4, <3>2
    <3> QED BY <2>1, <3>3 DEF Together
  <2>2. CASE ~ alone
    BY <1>4, <2>2 DEF Together
  <2> QED BY <2>1, <2>2
<1>7. NumbersInv'
  <2>1. Together' = Together
    BY DEF Together
  <2> QED BY <1>2, <1>3, <1>5, <1>6, <2>1 DEF NumbersInv
<1> QED BY <1>2, <1>3, <1>7

\* One that goes on keeps its number.
LEMMA StepNumbers ==
    ASSUME NumbersInv, alone' = alone, NEW r \in requests, NEW s, s.nr = r.nr,
           requests' \in {requests \ {r}, (requests \ {r}) \cup {s}}
    PROVE  NumbersInv'
<1>1. Together' = Together
  BY DEF Together
<1>2. CASE requests' = requests \ {r}
  BY <1>1, <1>2 DEF NumbersInv
<1>3. CASE requests' = (requests \ {r}) \cup {s}
  BY <1>1, <1>3 DEF NumbersInv
<1> QED BY <1>2, <1>3

\* Where no version comes, no request reads, and none is about to create that was not.
LEMMA RoomStays ==
    ASSUME VersionConstants, TypeInv, TypeInv', RoomInv, alone' = alone,
           Existing' \subseteq Existing, Readers(requests') \subseteq Readers(requests),
           Cardinality(Makers(requests')) <= Cardinality(Makers(requests))
    PROVE  RoomInv'
<1>1. Together' = Together
  BY DEF Together
<1> SUFFICES ASSUME NEW Q \in SUBSET Readers(requests')
             PROVE  Cardinality(Kept(Q)') + Cardinality(Makers(requests')) + Cardinality(Q)
                       <= MaxVersions - 1 + Together
  BY <1>1 DEF RoomInv, Kept
<1>2. /\ Cardinality(Kept(Q)) + Cardinality(Makers(requests)) + Cardinality(Q) <= MaxVersions - 1 + Together
      /\ Q \in SUBSET Readers(requests)
  BY DEF RoomInv
<1>3. Cardinality(Kept(Q)') <= Cardinality(Kept(Q)) /\ Cardinality(Kept(Q)') \in Nat
  <2>1. Kept(Q)' \subseteq Kept(Q)
    BY DEF Kept
  <2>2. IsFiniteSet(Kept(Q))
    BY <1>2, RoomIsFinite
  <2> QED BY <2>1, <2>2, FS_Subset, FS_CardinalityType
<1>4. Cardinality(Makers(requests')) \in Nat
  BY FS_Subset, FS_CardinalityType DEF TypeInv, Makers
<1>5. /\ Cardinality(Kept(Q)) \in Nat /\ Cardinality(Makers(requests)) \in Nat /\ Cardinality(Q) \in Nat
      /\ MaxVersions \in Nat /\ Together \in Nat
  BY <1>2, RoomIsFinite
<1> QED BY <1>2, <1>3, <1>4, <1>5

\* Retention leaves less than the limit of what there is.
LEMMA RetentionMakesRoom ==
    ASSUME VersionConstants, TypeInv, MaxVersions # 0
    PROVE  Cardinality(Existing \ Retention) <= MaxVersions - 1
<1> DEFINE fresh == {i \in Existing : i > expiredUpTo}
           from(i) == {j \in fresh : j >= i}
           left == Existing \ Retention
<1>1. left \subseteq fresh /\ \A i \in left : ~ (Cardinality(from(i)) >= MaxVersions)
  BY DEF Retention, From
<1>2. IsFiniteSet(Existing) /\ Existing \subseteq Nat
  <2>1. {} \in SUBSET Readers(requests)
    OBVIOUS
  <2>2. IsFiniteSet(Existing)
    BY <2>1, RoomIsFinite
  <2>3. Existing \subseteq Nat
    BY VersionsByOne DEF TypeInv, Existing
  <2> QED BY <2>2, <2>3
<1>3. IsFiniteSet(left) /\ \A i \in left : IsFiniteSet(from(i)) /\ Cardinality(from(i)) \in Nat
  BY <1>2, FS_Subset, FS_CardinalityType
<1>4. CASE left = {}
  BY <1>4, FS_EmptySet DEF VersionConstants
<1>5. CASE left # {}
  <2>1. \E i \in left : \A j \in left : ~ (<<j, i>> \in OpToRel(<, Nat))
    BY <1>2, <1>5, NatLessThanWellFounded, WFMin
  <2>2. PICK i \in left : \A j \in left : ~ (<<j, i>> \in OpToRel(<, Nat))
    BY <2>1
  <2>3. \A j \in left : j >= i
    <3>1. left \subseteq Nat
      BY <1>2
    <3>2. \A j \in left : j < i => <<j, i>> \in OpToRel(<, Nat)
      BY <3>1, Zenon DEF OpToRel
    <3>3. \A j \in left : ~ (j < i)
      BY <2>2, <3>2, Zenon
    <3> QED BY <3>1, <3>3
  <2>4. left \subseteq from(i)
    BY <1>1, <2>3
  <2>5. Cardinality(left) <= Cardinality(from(i))
    BY <1>3, <2>4, FS_Subset
  <2>6. Cardinality(left) \in Nat /\ Cardinality(from(i)) \in Nat
    BY <1>3, FS_CardinalityType
  <2> QED BY <1>1, <2>5, <2>6 DEF VersionConstants
<1> QED BY <1>4, <1>5

\* Who reads leaves room for one, and with those in flight there is room for each.
LEMMA ReadRoom ==
    ASSUME VersionConstants, TypeInv, TypeInv', NumbersInv, NumbersInv', RoomInv, alone' = alone,
           NEW r \in requests, applyRetentionPolicy(r)
    PROVE  RoomInv'
<1>1. Together' = Together /\ Existing' = Existing /\ r.step = "retain" /\ r \in Request
  BY RequestType DEF Together, applyRetentionPolicy, Existing
<1>2. CASE MaxVersions = 0
  <2>1. requests' = requests \ {r}
    BY <1>2 DEF applyRetentionPolicy, Finish
  <2>2. Readers(requests') \subseteq Readers(requests) /\ Makers(requests') \subseteq Makers(requests)
    BY <2>1 DEF Readers, Makers
  <2>3. Cardinality(Makers(requests')) <= Cardinality(Makers(requests))
    BY <2>2, RoomIsFinite, FS_Subset
  <2> QED BY <1>1, <2>2, <2>3, RoomStays
<1>3. CASE MaxVersions # 0
  <2> DEFINE s == [r EXCEPT !.step = "mark", !.ids = Retention]
  <2>1. s.step = "mark" /\ s.ids = Retention
    BY <1>1 DEF Request
  <2>2. requests' = (requests \ {r}) \cup {s}
    BY <1>3 DEF applyRetentionPolicy, Continue
  <2> HIDE DEF s
  <2>3. Readers(requests') \subseteq Readers(requests) \cup {s} /\ Makers(requests') = Makers(requests)
    BY <1>1, <2>1, <2>2 DEF Readers, Makers
  <2>4. ASSUME NEW Q \in SUBSET Readers(requests')
        PROVE  Cardinality(Kept(Q)') + Cardinality(Makers(requests')) + Cardinality(Q)
                  <= MaxVersions - 1 + Together
    <3>1. Kept(Q)' = Kept(Q)
      BY <1>1 DEF Kept
    <3>2. CASE s \notin Q
      <4>1. Q \in SUBSET Readers(requests)
        BY <2>3, <3>2
      <4> QED BY <2>3, <3>1, <4>1 DEF RoomInv
    <3>3. CASE s \in Q
      <4>1. Kept(Q) \subseteq Existing \ Retention
        BY <2>1, <3>3 DEF Kept
      <4>2. IsFiniteSet(Existing \ Retention) /\ Cardinality(Existing \ Retention) <= MaxVersions - 1
        BY <1>3, RetentionMakesRoom, RoomIsFinite, FS_Subset
      <4>3. Cardinality(Kept(Q)) <= MaxVersions - 1
        <5>1. Cardinality(Kept(Q)) <= Cardinality(Existing \ Retention)
          BY <4>1, <4>2, FS_Subset
        <5>2. Cardinality(Kept(Q)) \in Nat /\ Cardinality(Existing \ Retention) \in Nat
          BY <4>1, <4>2, FS_Subset, FS_CardinalityType
        <5> QED BY <4>2, <5>1, <5>2 DEF VersionConstants
      <4>4. /\ IsFiniteSet(requests') /\ IsFiniteSet(Q) /\ IsFiniteSet(Makers(requests'))
            /\ Q \cup Makers(requests') \subseteq requests' /\ Q \cap Makers(requests') = {}
        <5>1. IsFiniteSet(requests')
          BY DEF TypeInv
        <5>2. Q \subseteq requests' /\ Makers(requests') \subseteq requests' /\ Q \cap Makers(requests') = {}
          BY DEF Readers, Makers
        <5> QED BY <5>1, <5>2, FS_Subset
      <4>5. Cardinality(Q \cup Makers(requests')) = Cardinality(Q) + Cardinality(Makers(requests'))
        <5>1. Cardinality(Q \cup Makers(requests'))
                 = Cardinality(Q) + Cardinality(Makers(requests')) - Cardinality(Q \cap Makers(requests'))
          BY <4>4, FS_Union
        <5>2. Cardinality(Q \cap Makers(requests')) = 0
          BY <4>4, FS_EmptySet
        <5>3. Cardinality(Q) \in Nat /\ Cardinality(Makers(requests')) \in Nat
          BY <4>4, FS_CardinalityType
        <5> QED BY <5>1, <5>2, <5>3
      <4>6. Cardinality(Q \cup Makers(requests')) <= Cardinality(requests')
        BY <4>4, FS_Subset
      <4>7. Cardinality(requests') <= Together
        <5>1. Together \in Nat
          BY DEF VersionConstants, Together
        <5>2. /\ \A q, t \in requests' : q.nr = t.nr => q = t
              /\ \A q \in requests' : q.nr \in 1 .. Together
          BY <1>1 DEF NumbersInv
        <5> QED BY <4>4, <5>1, <5>2, RequestsCounted
      <4>8. /\ Cardinality(Q) \in Nat /\ Cardinality(Makers(requests')) \in Nat
            /\ Cardinality(requests') \in Nat /\ Cardinality(Kept(Q)) \in Nat
        BY <4>1, <4>2, <4>4, FS_Subset, FS_CardinalityType
      <4>9. MaxVersions \in Nat /\ Together \in Nat
        BY DEF VersionConstants, Together
      <4> QED BY <3>1, <4>3, <4>5, <4>6, <4>7, <4>8, <4>9
    <3> QED BY <3>2, <3>3
  <2> QED BY <1>1, <2>4 DEF RoomInv, Kept
<1> QED BY <1>2, <1>3

\* Who marks what it read gives up as many as it is counted for.
LEMMA MarkRoom ==
    ASSUME VersionConstants, TypeInv, TypeInv', RoomInv, alone' = alone,
           NEW r \in requests, updateStatusBatch(r)
    PROVE  RoomInv'
<1> DEFINE s == [r EXCEPT !.step = "write", !.ids = {}]
<1>1. s.step = "write" /\ s.todo = r.todo /\ r.step = "mark"
  BY RequestType DEF Request, updateStatusBatch
<1>2. requests' = (requests \ {r}) \cup {s}
  BY DEF updateStatusBatch, Continue
<1> HIDE DEF s
<1>3. Existing' = Existing \ r.ids
  BY MarkExisting DEF updateStatusBatch, TypeInv
<1>4. Together' = Together
  BY DEF Together
<1>5. CASE "create" \in r.todo
  <2>1. r \in Readers(requests) /\ Readers(requests') \subseteq Readers(requests) \ {r}
        /\ Makers(requests') \subseteq Makers(requests) \cup {s}
    BY <1>1, <1>2, <1>5 DEF Readers, Makers
  <2>2. ASSUME NEW Q \in SUBSET Readers(requests')
        PROVE  Cardinality(Kept(Q)') + Cardinality(Makers(requests')) + Cardinality(Q)
                  <= MaxVersions - 1 + Together
    <3> DEFINE P == Q \cup {r}
    <3>1. P \in SUBSET Readers(requests) /\ r \notin Q /\ Q \in SUBSET Readers(requests)
      BY <2>1
    <3>2. Kept(Q)' = Kept(P)
      BY <1>3 DEF Kept
    <3>3. Cardinality(P) = Cardinality(Q) + 1
      BY <3>1, RoomIsFinite, FS_AddElement
    <3>4. Cardinality(Kept(P)) + Cardinality(Makers(requests)) + Cardinality(P) <= MaxVersions - 1 + Together
      BY <3>1 DEF RoomInv
    <3>5. IsFiniteSet(Makers(requests))
      BY RoomIsFinite
    <3>6. /\ Cardinality(Makers(requests')) <= Cardinality(Makers(requests)) + 1
          /\ Cardinality(Makers(requests')) \in Nat
      BY <2>1, <3>5, SetStep
    <3>7. /\ Cardinality(Kept(P)) \in Nat /\ Cardinality(Makers(requests)) \in Nat /\ Cardinality(Q) \in Nat
          /\ MaxVersions \in Nat /\ Together \in Nat
      BY <3>1, RoomIsFinite
    <3> HIDE DEF P
    <3> QED BY <3>2, <3>3, <3>4, <3>6, <3>7
  <2> QED BY <1>4, <2>2 DEF RoomInv, Kept
<1>6. CASE "create" \notin r.todo
  <2>1. Readers(requests') \subseteq Readers(requests) /\ Makers(requests') \subseteq Makers(requests)
    BY <1>1, <1>2, <1>6 DEF Readers, Makers
  <2>2. Cardinality(Makers(requests')) <= Cardinality(Makers(requests))
    BY <2>1, RoomIsFinite, FS_Subset
  <2> QED BY <1>3, <2>1, <2>2, RoomStays
<1> QED BY <1>5, <1>6

\* A version that comes is of one that was about to create it.
LEMMA CreateRoom ==
    ASSUME VersionConstants, TypeInv, TypeInv', RoomInv, alone' = alone,
           NEW r \in requests, createVersion(r)
    PROVE  RoomInv'
<1>1. r \in Makers(requests)
  BY DEF createVersion, Makers
<1>2. PICK s \in Request :
         /\ requests' \in {requests \ {r}, (requests \ {r}) \cup {s}}
         /\ s.todo = r.todo \ {"create"}
  BY WroteOne DEF createVersion, Writes
<1>3. /\ Makers(requests') \subseteq Makers(requests) \ {r}
      /\ Readers(requests') \subseteq Readers(requests)
  BY <1>2 DEF Makers, Readers
<1>4. Existing' \subseteq Existing \cup {Len(versions) + 1}
  <2>1. CASE CanCreate(r.old)
    <3>1. versions' = Append(versions, [content |-> r.old, status |-> "EXISTS"])
      BY <2>1 DEF createVersion
    <3> QED BY <3>1, AppendExisting DEF TypeInv
  <2>2. CASE ~ CanCreate(r.old)
    BY <2>2 DEF createVersion, Existing
  <2> QED BY <2>1, <2>2
<1>5. Together' = Together
  BY DEF Together
<1>6. ASSUME NEW Q \in SUBSET Readers(requests')
      PROVE  Cardinality(Kept(Q)') + Cardinality(Makers(requests')) + Cardinality(Q)
                <= MaxVersions - 1 + Together
  <2>1. /\ Q \in SUBSET Readers(requests)
        /\ Cardinality(Kept(Q)) + Cardinality(Makers(requests)) + Cardinality(Q) <= MaxVersions - 1 + Together
    BY <1>3 DEF RoomInv
  <2>2. /\ IsFiniteSet(Kept(Q)) /\ IsFiniteSet(Makers(requests))
        /\ Cardinality(Kept(Q)) \in Nat /\ Cardinality(Makers(requests)) \in Nat /\ Cardinality(Q) \in Nat
        /\ MaxVersions \in Nat /\ Together \in Nat
    BY <2>1, RoomIsFinite
  <2>3. Kept(Q)' \subseteq Kept(Q) \cup {Len(versions) + 1}
    BY <1>4 DEF Kept
  <2>4. Cardinality(Kept(Q)') <= Cardinality(Kept(Q)) + 1 /\ Cardinality(Kept(Q)') \in Nat
    BY <2>2, <2>3, SetStep
  <2>5. Cardinality(Makers(requests')) <= Cardinality(Makers(requests)) - 1
    BY <1>1, <1>3, <2>2, SetStep
  <2>6. Cardinality(Makers(requests')) \in Nat
    BY <1>3, <2>2, FS_Subset, FS_CardinalityType
  <2> QED BY <2>1, <2>2, <2>4, <2>5, <2>6
<1> QED BY <1>5, <1>6 DEF RoomInv, Kept

\* Whatever else a request writes.
LEMMA OtherWriteRoom ==
    ASSUME VersionConstants, TypeInv, TypeInv', RoomInv, alone' = alone, NEW r \in requests,
           updateFile(r) \/ deleteOldContent(r) \/ destroyVersion(r)
    PROVE  /\ RoomInv'
           /\ \E s : s.nr = r.nr /\ requests' \in {requests \ {r}, (requests \ {r}) \cup {s}}
<1>1. r \in Request /\ r.step = "write" /\ TypeOK
  BY RequestType DEF updateFile, deleteOldContent, destroyVersion, TypeInv
<1>2. \E s : /\ s.nr = r.nr /\ s.step = r.step /\ ("create" \in s.todo <=> "create" \in r.todo)
             /\ requests' \in {requests \ {r}, (requests \ {r}) \cup {s}}
  <2>1. ASSUME NEW w \in Writes \ {"create"}, Wrote(r, w)
        PROVE  \E s : /\ s.nr = r.nr /\ s.step = r.step /\ ("create" \in s.todo <=> "create" \in r.todo)
                      /\ requests' \in {requests \ {r}, (requests \ {r}) \cup {s}}
    <3> DEFINE s == [r EXCEPT !.todo = @ \ {w}]
    <3>1. s.nr = r.nr /\ s.step = r.step /\ s.todo = r.todo \ {w}
      BY <1>1 DEF Request
    <3>2. requests' \in {requests \ {r}, (requests \ {r}) \cup {s}}
      BY <2>1 DEF Wrote, Finish, Continue
    <3> HIDE DEF s
    <3> QED BY <3>1, <3>2
  <2>2. ASSUME Continue(r, [r EXCEPT !.todo = (@ \ {"update"}) \cup {"purge"}])
        PROVE  \E s : /\ s.nr = r.nr /\ s.step = r.step /\ ("create" \in s.todo <=> "create" \in r.todo)
                      /\ requests' \in {requests \ {r}, (requests \ {r}) \cup {s}}
    <3> DEFINE s == [r EXCEPT !.todo = (@ \ {"update"}) \cup {"purge"}]
    <3>1. s.nr = r.nr /\ s.step = r.step /\ s.todo = (r.todo \ {"update"}) \cup {"purge"}
      BY <1>1 DEF Request
    <3>2. requests' \in {requests \ {r}, (requests \ {r}) \cup {s}}
      BY <2>2 DEF Continue
    <3> HIDE DEF s
    <3> QED BY <3>1, <3>2
  <2> QED BY <2>1, <2>2 DEF updateFile, deleteOldContent, destroyVersion, Writes
<1>3. PICK s : /\ s.nr = r.nr /\ s.step = r.step /\ ("create" \in s.todo <=> "create" \in r.todo)
               /\ requests' \in {requests \ {r}, (requests \ {r}) \cup {s}}
  BY <1>2
<1>4. Readers(requests') \subseteq Readers(requests)
  BY <1>1, <1>3 DEF Readers
<1>5. Cardinality(Makers(requests')) <= Cardinality(Makers(requests))
  <2>1. IsFiniteSet(Makers(requests))
    BY RoomIsFinite
  <2>2. CASE r \in Makers(requests)
    <3>1. Makers(requests') \subseteq (Makers(requests) \ {r}) \cup {s}
      BY <1>3 DEF Makers
    <3> QED BY <2>1, <2>2, <3>1, SetStep
  <2>3. CASE r \notin Makers(requests)
    <3>1. Makers(requests') \subseteq Makers(requests)
      BY <1>1, <1>3, <2>3 DEF Makers
    <3> QED BY <2>1, <3>1, FS_Subset
  <2> QED BY <2>2, <2>3
<1>6. Existing' \subseteq Existing
  <2>1. CASE destroyVersion(r)
    <3>1. versions' = [versions EXCEPT ![r.v].status = "GONE"]
      BY <2>1 DEF destroyVersion
    <3>2. ASSUME NEW i \in Existing' PROVE i \in Existing
      <4>1. i \in DOMAIN versions /\ versions'[i].status = "EXISTS" /\ versions[i] \in Version
        BY <1>1, <3>1, VersionsByOne DEF Existing
      <4>2. i # r.v
        BY <3>1, <4>1 DEF Version
      <4> QED BY <3>1, <4>1, <4>2 DEF Existing
    <3> QED BY <3>2
  <2>2. CASE UNCHANGED versions
    BY <2>2 DEF Existing
  <2> QED BY <2>1, <2>2 DEF updateFile, deleteOldContent
<1> QED BY <1>3, <1>4, <1>5, <1>6, RoomStays

LEMMA RoomStep ==
    ASSUME VersionConstants, TypeInv, TypeInv', NumbersInv, RoomInv, [Next]_vars
    PROVE  NumbersInv' /\ RoomInv'
<1>0. alone' = alone /\ TypeOK
  BY DEF Next, vars, TypeInv
<1>1. ASSUME UNCHANGED requests, Existing' \subseteq Existing PROVE NumbersInv' /\ RoomInv'
  <2>1. Together' = Together
    BY <1>0 DEF Together
  <2>2. NumbersInv'
    BY <1>1, <2>1 DEF NumbersInv
  <2>3. Cardinality(Makers(requests')) <= Cardinality(Makers(requests))
    BY <1>1, RoomIsFinite
  <2> QED BY <1>0, <1>1, <2>2, <2>3, RoomStays
<1>2. ASSUME NEW r \in Request, Start(r), UNCHANGED versions,
             r.step \notin {"mark", "write"} \/ "create" \notin r.todo
      PROVE  NumbersInv' /\ RoomInv'
  <2>1. PICK s \in Request : requests' = requests \cup {s} /\ s.step = r.step /\ s.todo = r.todo
    BY <1>0, <1>2, StartNumbers
  <2>2. Readers(requests') \subseteq Readers(requests) /\ Makers(requests') = Makers(requests)
    BY <1>2, <2>1 DEF Readers, Makers
  <2>3. Existing' = Existing
    BY <1>2 DEF Existing
  <2>4. Cardinality(Makers(requests')) <= Cardinality(Makers(requests))
    BY <2>2, RoomIsFinite
  <2> QED BY <1>0, <1>2, <2>2, <2>3, <2>4, StartNumbers, RoomStays
<1>3. ASSUME NEW c \in Contents \cup {Empty}, NEW b \in BOOLEAN, replaceFile(c, b)
      PROVE  NumbersInv' /\ RoomInv'
  <2> DEFINE r == [nr |-> 0, op |-> IF b THEN "version" ELSE "plain",
                   step |-> IF b THEN "retain" ELSE "write",
                   old |-> file.content, new |-> c, v |-> 0, ids |-> {},
                   todo |-> IF b THEN {"create", "update"} ELSE {"update"}]
  <2>1. r \in Request
    BY <1>0 DEF Request, TypeOK
  <2>2. r.step \notin {"mark", "write"} \/ "create" \notin r.todo
    OBVIOUS
  <2>3. Start(r) /\ UNCHANGED versions
    BY <1>3 DEF replaceFile
  <2> HIDE DEF r
  <2> QED BY <1>2, <2>1, <2>2, <2>3
<1>4. ASSUME NEW i \in DOMAIN versions, restoreFileVersion(i) PROVE NumbersInv' /\ RoomInv'
  <2> DEFINE r == [nr |-> 0, op |-> "restore", step |-> "mark",
                   old |-> file.content, new |-> versions[i].content,
                   v |-> i, ids |-> newerVersions(i), todo |-> {"destroy", "update"}]
  <2>1. r \in Request
    <3>1. versions[i].content \in Contents
      BY <1>0, VersionsByOne DEF Version
    <3>2. newerVersions(i) \in SUBSET Ids /\ i \in Ids
      BY <1>0, VersionsByOne DEF newerVersions, Existing, Ids, TypeOK, VersionConstants
    <3> QED BY <1>0, <3>1, <3>2 DEF Request, TypeOK
  <2>2. "create" \notin r.todo
    OBVIOUS
  <2>3. Start(r) /\ UNCHANGED versions
    BY <1>4 DEF restoreFileVersion
  <2> HIDE DEF r
  <2> QED BY <1>2, <2>1, <2>2, <2>3
<1>5. ASSUME NEW ids, markDeleted(ids), UNCHANGED requests PROVE NumbersInv' /\ RoomInv'
  BY <1>0, <1>1, <1>5, MarkExisting
<1>6. ASSUME NEW i \in DOMAIN versions, deleteFileVersion(i) PROVE NumbersInv' /\ RoomInv'
  BY <1>5, <1>6 DEF deleteFileVersion, Atomic
<1>7. ASSUME NEW S \in SUBSET Existing,
             \/ deleteUserVersionsBatch(S) \/ deleteUserVersionsByLimits(S)
             \/ deleteExpiredVersions(S)
      PROVE  NumbersInv' /\ RoomInv'
  BY <1>5, <1>7 DEF deleteUserVersionsBatch, deleteUserVersionsByLimits, deleteExpiredVersions, Atomic
<1>8. ASSUME destroyFile PROVE NumbersInv' /\ RoomInv'
  <2>1. versions' = [i \in DOMAIN versions |-> [versions[i] EXCEPT !.status = "GONE"]] /\ UNCHANGED requests
    BY <1>8 DEF destroyFile, Atomic
  <2>2. Existing' = {}
    BY <1>0, <2>1, VersionsByOne DEF Existing, Version
  <2> QED BY <1>1, <2>1, <2>2
<1>9. ASSUME \/ deleteFile \/ trashOrRestore \/ expireOne
             \/ \E c \in Contents : purgeContent(c)
             \/ UNCHANGED vars
      PROVE  NumbersInv' /\ RoomInv'
  <2>1. UNCHANGED <<requests, versions>>
    BY <1>9 DEF deleteFile, trashOrRestore, expireOne, purgeContent, Atomic, vars
  <2>2. Existing' = Existing
    BY <2>1 DEF Existing
  <2> QED BY <1>1, <2>1, <2>2
<1>10. ASSUME NEW r \in requests, applyRetentionPolicy(r) PROVE NumbersInv' /\ RoomInv'
  <2> DEFINE s == [r EXCEPT !.step = "mark", !.ids = Retention]
  <2>1. s.nr = r.nr
    BY RequestType DEF Request
  <2>2. requests' \in {requests \ {r}, (requests \ {r}) \cup {s}}
    BY <1>10 DEF applyRetentionPolicy, Finish, Continue
  <2> HIDE DEF s
  <2>3. NumbersInv'
    BY <1>0, <2>1, <2>2, StepNumbers
  <2> QED BY <1>0, <1>10, <2>3, ReadRoom
<1>11. ASSUME NEW r \in requests, updateStatusBatch(r) PROVE NumbersInv' /\ RoomInv'
  <2> DEFINE s == [r EXCEPT !.step = "write", !.ids = {}]
  <2>1. s.nr = r.nr
    BY RequestType DEF Request
  <2>2. requests' \in {requests \ {r}, (requests \ {r}) \cup {s}}
    BY <1>11 DEF updateStatusBatch, Continue
  <2> HIDE DEF s
  <2>3. NumbersInv'
    BY <1>0, <2>1, <2>2, StepNumbers
  <2> QED BY <1>0, <1>11, <2>3, MarkRoom
<1>12. ASSUME NEW r \in requests, createVersion(r) PROVE NumbersInv' /\ RoomInv'
  <2> DEFINE s == [r EXCEPT !.todo = @ \ {"create"}]
  <2>1. s.nr = r.nr
    BY RequestType DEF Request
  <2>2. requests' \in {requests \ {r}, (requests \ {r}) \cup {s}}
    BY <1>12 DEF createVersion, Wrote, Finish, Continue
  <2> HIDE DEF s
  <2>3. NumbersInv'
    BY <1>0, <2>1, <2>2, StepNumbers
  <2> QED BY <1>0, <1>12, <2>3, CreateRoom
<1>13. ASSUME NEW r \in requests, updateFile(r) \/ deleteOldContent(r) \/ destroyVersion(r)
       PROVE  NumbersInv' /\ RoomInv'
  <2>1. RoomInv' /\ \E s : s.nr = r.nr /\ requests' \in {requests \ {r}, (requests \ {r}) \cup {s}}
    BY <1>0, <1>13, OtherWriteRoom
  <2>2. PICK s : s.nr = r.nr /\ requests' \in {requests \ {r}, (requests \ {r}) \cup {s}}
    BY <2>1
  <2> QED BY <1>0, <2>1, <2>2, StepNumbers
<1>14. CASE RequestStep
  BY <1>10, <1>11, <1>12, <1>13, <1>14 DEF RequestStep
<1>15. CASE Next
  BY <1>3, <1>4, <1>6, <1>7, <1>8, <1>9, <1>14, <1>15 DEF Next, Step
<1> QED BY <1>9, <1>15

\* However many replacements race, restorations and jobs among them, a file has no more versions than
\* the plan allows, but for one per request in flight but the first; and with requests one at a time it
\* has no more.
THEOREM VersionsAreBounded == Spec => []VersionsBounded
<1>1. Init => NumbersInv /\ RoomInv
  <2> SUFFICES ASSUME Init PROVE NumbersInv /\ RoomInv
    OBVIOUS
  <2>1. requests = {} /\ Existing = {}
    BY DEF Init, Existing
  <2>2. \A Q \in SUBSET Readers(requests) : Kept(Q) = {} /\ Makers(requests) = {} /\ Q = {}
    BY <2>1 DEF Kept, Readers, Makers
  <2>3. MaxVersions \in Nat /\ Together \in Nat /\ Together >= 1
    BY VersionConstants DEF VersionConstants, Together
  <2> QED BY <2>1, <2>2, <2>3, FS_EmptySet DEF NumbersInv, RoomInv
<1>2. TypeInv /\ TypeInv' /\ NumbersInv /\ RoomInv /\ [Next]_vars => NumbersInv' /\ RoomInv'
  BY RoomStep, VersionConstants
<1>3. TypeInv /\ RoomInv => VersionsBounded
  <2> SUFFICES ASSUME TypeInv, RoomInv PROVE VersionsBounded
    OBVIOUS
  <2>1. Kept({}) = Existing /\ Cardinality({}) = 0
    BY FS_EmptySet DEF Kept
  <2>2. {} \in SUBSET Readers(requests)
    OBVIOUS
  <2>3. Cardinality(Kept({})) + Cardinality(Makers(requests)) + Cardinality({}) <= MaxVersions - 1 + Together
    BY <2>2 DEF RoomInv
  <2>4. /\ Cardinality(Kept({})) \in Nat /\ Cardinality(Makers(requests)) \in Nat
        /\ MaxVersions \in Nat /\ Together \in Nat
    BY <2>2, VersionConstants, RoomIsFinite
  <2>5. Cardinality(Existing) < MaxVersions + Together
    BY <2>1, <2>3, <2>4
  <2> QED BY <2>5 DEF VersionsBounded, Together
<1> QED BY <1>1, <1>2, <1>3, TypeInvariant, PTL DEF Spec

============================================================================
