---------------------------- MODULE FileVersions ----------------------------
(***************************************************************************)
(* One file of a versionable type and its version history: the row in      *)
(* files, its rows in file_versions, the contents they name on the storage *)
(* network, and the queues through which contents are purged.              *)
(*                                                                         *)
(* A request is a record that is read at one await and written at the      *)
(* next ones; the two writes of a Promise.all come in either order.  In    *)
(* the behaviours where alone is FALSE requests interleave at every await, *)
(* in the others each runs alone.                                          *)
(***************************************************************************)
EXTENDS Naturals, Sequences, FiniteSets

CONSTANTS
    Contents,     \* network file ids; the client uploads each one once
    Empty,        \* the null fileId of a file of size 0
    MaxVersions,  \* limit file-version-max-number of the user's tier
    MaxInFlight,  \* bound: requests between two of their awaits
    MaxRows       \* bound: rows of file_versions ever created

ASSUME VersionConstants ==
    /\ Empty \notin Contents
    /\ MaxVersions \in Nat
    /\ MaxInFlight \in Nat \ {0} /\ MaxRows \in Nat

VARIABLES
    file,         \* the row: its status and the content it names
    versions,     \* the rows of file_versions ever created, by createdAt
    expiredUpTo,  \* the versions of the first expiredUpTo are past retention
    net,          \* the contents on the storage network
    pending,      \* contents queued by the triggers and not purged yet
    fileQueued,   \* does deleted_files_new have a row for the file's uuid?
    requests,     \* requests in flight
    owned,        \* history: contents the server is still answerable for
    alone         \* does each request of this behaviour run alone?

vars == <<file, versions, expiredUpTo, net, pending, fileQueued, requests, owned, alone>>

----------------------------------------------------------------------------
FileStatus == {"EXISTS", "TRASHED", "DELETED", "GONE"}

Live == {"EXISTS", "TRASHED"}

\* GONE: the row was destroyed.  The place in the sequence is the row's id.
Version == [content : Contents, status : {"EXISTS", "DELETED", "GONE"}]

Ids == 1 .. MaxRows

\* op: a replacement that keeps the old content as a version, one that does
\* not, or the restoration of version v.  old and new are the contents read
\* and to be written, ids the versions to be marked, todo the writes left.  nr
\* tells apart requests that read the same.
Request ==
    [nr : Nat, op : {"version", "plain", "restore"}, step : {"retain", "mark", "write"},
     old : Contents \cup {Empty}, new : Contents \cup {Empty},
     v : Ids \cup {0}, ids : SUBSET Ids,
     todo : SUBSET {"create", "destroy", "update", "purge"}]

Existing == {i \in DOMAIN versions : versions[i].status = "EXISTS"}

\* The rows still in the table.
Rows == {i \in DOMAIN versions : versions[i].status # "GONE"}

Init ==
    /\ \E c \in Contents \cup {Empty} :
          /\ file = [status |-> "EXISTS", content |-> c]
          /\ net = [d \in Contents |-> IF d = c THEN "stored" ELSE "none"]
          /\ owned = Contents \cap {c}
    /\ versions = <<>>
    /\ expiredUpTo = 0
    /\ pending = {}
    /\ fileQueued = FALSE
    /\ requests = {}
    /\ alone \in BOOLEAN

----------------------------------------------------------------------------
(* The database.                                                           *)

\* Mutant: a status the enum does not have.
MarkedRemoved(ids) ==
    [i \in DOMAIN versions |->
        IF i \in ids \cap Rows THEN [versions[i] EXCEPT !.status = "REMOVED"]
        ELSE versions[i]]

\* The versions as an UPDATE of the status of some rows leaves them.
Marked(ids) ==
    [i \in DOMAIN versions |->
        IF i \in ids \cap Rows THEN [versions[i] EXCEPT !.status = "DELETED"]
        ELSE versions[i]]

\* Mutant: the trigger was dropped.
markDeletedUnqueued(ids) ==
    /\ versions' = Marked(ids)
    /\ UNCHANGED pending

\* UPDATE file_versions SET status = 'DELETED' and the trigger on it: what was
\* not DELETED before is queued.
markDeleted(ids) ==
    /\ versions' = Marked(ids)
    /\ pending' = pending \cup {versions[i].content : i \in ids \cap Existing}

\* The INSERT is refused for a null content, for a content that already has a
\* row, and once the file's row is gone.
CanCreate(c) ==
    /\ c # Empty /\ file.status # "GONE"
    /\ \A i \in Rows : versions[i].content # c

----------------------------------------------------------------------------
\* Nothing comes between the steps of a request that runs alone.
Quiet == alone => requests = {}

\* The first number no request in flight has.
Free(k) == {r.nr : r \in requests} \cap 1 .. k = 1 .. (k - 1)

Start(r) ==
    /\ Quiet
    /\ \E k \in 1 .. MaxInFlight :
          Free(k) /\ requests' = requests \cup {[r EXCEPT !.nr = k]}

Continue(r, s) == requests' = (requests \ {r}) \cup {s}

Finish(r) == requests' = requests \ {r}

\* After the last write of a request there is nothing left to keep it for.
Wrote(r, w) ==
    LET s == [r EXCEPT !.todo = @ \ {w}]
    IN  IF s.todo = {} THEN Finish(r) ELSE Continue(r, s)

\* PUT /files/:uuid, sent by a client that has just uploaded the new content.
\* isFileVersionable goes by type, size and plan, and so does versioned here.
replaceFile(c, versioned) ==
    /\ file.status = "EXISTS"
    /\ Len(versions) + Cardinality(requests) < MaxRows
    /\ c \in {Empty} \cup {d \in Contents : net[d] = "none"}
    /\ net' = [d \in Contents |-> IF d = c THEN "stored" ELSE net[d]]
    /\ Start([nr |-> 0, op |-> IF versioned THEN "version" ELSE "plain",
              step |-> IF versioned THEN "retain" ELSE "write",
              old |-> file.content, new |-> c, v |-> 0, ids |-> {},
              todo |-> IF versioned THEN {"create", "update"} ELSE {"update"}])
    /\ UNCHANGED <<file, versions, expiredUpTo, pending, fileQueued, owned>>

\* The versions of a set by age, newest first: those from the n-th on.
From(n, S) == {i \in S : Cardinality({j \in S : j >= i}) >= n}

\* Mutant: only one version goes, however many are beyond the limit.
RetentionOfOldest ==
    LET fresh == {i \in Existing : i > expiredUpTo}
    IN  (Existing \ fresh)
          \cup {i \in From(MaxVersions, fresh) : \A j \in fresh : i <= j}

\* applyRetentionPolicy: what is past retention or beyond the limit, and the
\* oldest of what is kept when that makes exactly the limit.
Retention ==
    LET fresh == {i \in Existing : i > expiredUpTo}
    IN  (Existing \ fresh) \cup From(MaxVersions, fresh)

\* With a limit of 0 the policy takes the id of no version and throws.
applyRetentionPolicy(r) ==
    /\ r.step = "retain"
    /\ IF MaxVersions = 0 THEN Finish(r)
       ELSE Continue(r, [r EXCEPT !.step = "mark", !.ids = Retention])
    /\ UNCHANGED <<file, versions, expiredUpTo, net, pending, fileQueued, owned>>

\* updateStatusBatch, by retention or by a restoration.
updateStatusBatch(r) ==
    /\ r.step = "mark"
    /\ markDeleted(r.ids)
    /\ Continue(r, [r EXCEPT !.step = "write", !.ids = {}])
    /\ UNCHANGED <<file, expiredUpTo, net, fileQueued, owned>>

\* fileVersionRepository.create, of the content that was read at the start.
\* A refusal fails the request and stops none of its other writes.
createVersion(r) ==
    /\ r.step = "write" /\ "create" \in r.todo
    /\ versions' = IF CanCreate(r.old)
                   THEN Append(versions, [content |-> r.old, status |-> "EXISTS"])
                   ELSE versions
    /\ Wrote(r, "create")
    /\ UNCHANGED <<file, expiredUpTo, net, pending, fileQueued, owned>>

\* Mutant: the old content goes even when a version keeps it.
PurgesOldAlways(r) == r.old # Empty

PurgesOld(r) == r.op = "plain" /\ r.old # Empty

\* updateByUuidAndUserId, whatever the row holds by now.  A replacement
\* without a version then asks the network to delete the content it read.
\* Restoring gives up the content in place, and restoring into a deleted file
\* the restored one.
updateFile(r) ==
    /\ r.step = "write" /\ "update" \in r.todo
    /\ file' = IF file.status = "GONE" THEN file ELSE [file EXCEPT !.content = r.new]
    /\ IF PurgesOld(r)
       THEN Continue(r, [r EXCEPT !.todo = (@ \ {"update"}) \cup {"purge"}])
       ELSE Wrote(r, "update")
    /\ owned' = CASE r.op # "restore" -> owned \cup ({r.new} \ {Empty})
                  [] r.op = "restore" /\ file.status \in Live -> (owned \ {file.content}) \cup {r.new}
                  [] OTHER -> owned \ {r.new}
    /\ UNCHANGED <<versions, expiredUpTo, net, pending, fileQueued>>

\* network.deleteFile may fail; the failure is logged and the content stays.
deleteOldContent(r) ==
    /\ r.step = "write" /\ "purge" \in r.todo
    /\ \/ net' = [net EXCEPT ![r.old] = "purged"] /\ UNCHANGED owned
       \/ owned' = owned \ {r.old} /\ UNCHANGED net
    /\ Wrote(r, "purge")
    /\ UNCHANGED <<file, versions, expiredUpTo, pending, fileQueued>>

newerVersions(i) == {j \in Existing : j > i}

\* POST /files/:uuid/versions/:versionId/restore.  The status of the file is
\* not looked at.
restoreFileVersion(i) ==
    /\ file.status # "GONE"
    /\ i \in Existing
    /\ Start([nr |-> 0, op |-> "restore", step |-> "mark",
              old |-> file.content, new |-> versions[i].content,
              v |-> i, ids |-> newerVersions(i), todo |-> {"destroy", "update"}])
    /\ UNCHANGED <<file, versions, expiredUpTo, net, pending, fileQueued, owned>>

\* fileVersionRepository.delete: the row goes without firing the trigger.
destroyVersion(r) ==
    /\ r.step = "write" /\ "destroy" \in r.todo
    /\ versions' = [versions EXCEPT ![r.v].status = "GONE"]
    /\ Wrote(r, "destroy")
    /\ UNCHANGED <<file, expiredUpTo, net, pending, fileQueued, owned>>

----------------------------------------------------------------------------
(* Handlers and jobs that are one UPDATE.                                  *)

Atomic == Quiet /\ UNCHANGED <<net, requests>>

\* DELETE /files/:uuid/versions/:versionId, whatever the version's status.
deleteFileVersion(i) ==
    /\ Atomic
    /\ file.status # "GONE" /\ i \in Rows
    /\ markDeleted({i})
    /\ UNCHANGED <<file, expiredUpTo, fileQueued, owned>>

\* One batch of the undo that follows the loss of the feature.
deleteUserVersionsBatch(S) ==
    /\ Atomic
    /\ S # {} /\ S \subseteq Existing
    /\ markDeleted(S)
    /\ UNCHANGED <<file, expiredUpTo, fileQueued, owned>>

\* One batch of the undo that follows a change of limits.
deleteUserVersionsByLimits(S) ==
    /\ Atomic
    /\ S # {} /\ S \subseteq Existing
    /\ \A i \in S : \/ MaxVersions > 0 /\ i \in From(MaxVersions + 1, Existing)
                    \/ i <= expiredUpTo
    /\ markDeleted(S)
    /\ UNCHANGED <<file, expiredUpTo, fileQueued, owned>>

\* One batch of the task that expires versions.  It reads ids and then marks
\* them; what expired stays so, and a row that went meanwhile is not marked.
deleteExpiredVersions(S) ==
    /\ Atomic
    /\ S # {} /\ \A i \in S : i \in Existing /\ i <= expiredUpTo
    /\ markDeleted(S)
    /\ UNCHANGED <<file, expiredUpTo, fileQueued, owned>>

\* Any way to delete the file, with the trigger on its row: the queue has one
\* row per uuid.
deleteFile ==
    /\ Atomic
    /\ file.status \in Live
    /\ file' = [file EXCEPT !.status = "DELETED"]
    /\ IF file.content # Empty /\ ~ fileQueued
       THEN fileQueued' = TRUE /\ pending' = pending \cup {file.content}
       ELSE UNCHANGED <<fileQueued, pending>>
    /\ UNCHANGED <<versions, expiredUpTo, owned>>

\* The trash and back.
trashOrRestore ==
    /\ Atomic
    /\ file.status \in Live
    /\ file' = [file EXCEPT !.status = IF @ = "EXISTS" THEN "TRASHED" ELSE "EXISTS"]
    /\ UNCHANGED <<versions, expiredUpTo, pending, fileQueued, owned>>

\* The hard-delete job; the foreign key takes the versions along, and no
\* trigger sees them go.
destroyFile ==
    /\ Atomic
    /\ file.status = "DELETED"
    /\ file' = [file EXCEPT !.status = "GONE"]
    /\ versions' = [i \in DOMAIN versions |-> [versions[i] EXCEPT !.status = "GONE"]]
    /\ owned' = owned \ {versions[i].content : i \in Existing}
    /\ UNCHANGED <<expiredUpTo, pending, fileQueued>>

\* The service that reads the two queues.
purgeContent(c) ==
    /\ Quiet
    /\ c \in pending
    /\ pending' = pending \ {c}
    /\ net' = [net EXCEPT ![c] = "purged"]
    /\ UNCHANGED <<file, versions, expiredUpTo, fileQueued, requests, owned>>

\* Time passes: one more version is past its retention.
expireOne ==
    /\ Atomic
    /\ expiredUpTo < Len(versions)
    /\ expiredUpTo' = expiredUpTo + 1
    /\ UNCHANGED <<file, versions, pending, fileQueued, owned>>

----------------------------------------------------------------------------
RequestStep ==
    \E r \in requests :
        \/ applyRetentionPolicy(r) \/ updateStatusBatch(r)
        \/ createVersion(r) \/ updateFile(r)
        \/ deleteOldContent(r) \/ destroyVersion(r)

Step ==
    \/ \E c \in Contents \cup {Empty}, b \in BOOLEAN : replaceFile(c, b)
    \/ \E i \in DOMAIN versions : restoreFileVersion(i) \/ deleteFileVersion(i)
    \/ RequestStep
    \/ \E S \in SUBSET Existing : \/ deleteUserVersionsBatch(S)
                                  \/ deleteUserVersionsByLimits(S)
                                  \/ deleteExpiredVersions(S)
    \/ deleteFile \/ trashOrRestore \/ destroyFile
    \/ \E c \in Contents : purgeContent(c)
    \/ expireOne

Next == Step /\ UNCHANGED alone

Spec == Init /\ [][Next]_vars

----------------------------------------------------------------------------
(* Properties of every schedule.                                           *)

\* The row, its versions and the queues keep their types: no request marks a
\* version that was never created or writes a content nobody uploaded.
TypeOK ==
    /\ file \in [status : FileStatus, content : Contents \cup {Empty}]
    /\ versions \in Seq(Version) /\ Len(versions) <= MaxRows
    /\ expiredUpTo \in 0 .. Len(versions)
    /\ net \in [Contents -> {"none", "stored", "purged"}]
    /\ pending \subseteq Contents
    /\ fileQueued \in BOOLEAN
    /\ requests \subseteq Request
    /\ owned \subseteq Contents
    /\ alone \in BOOLEAN

\* A version marked DELETED has its content purged or queued, whichever of the
\* five ways marked it and whatever raced with it.
DeletedVersionsQueued ==
    \A i \in DOMAIN versions : versions[i].status = "DELETED" =>
        versions[i].content \in pending \/ net[versions[i].content] = "purged"

\* Retention makes room for the version that comes, so that the plan's number of
\* versions is kept; racing replacements can leave more, by at most one per
\* request in flight but the first.
VersionsBounded ==
    Cardinality(Existing) < MaxVersions + (IF alone THEN 1 ELSE MaxInFlight)

(* Properties of requests that run one at a time.                          *)

Safe(c) == net[c] = "stored" /\ c \notin pending

\* The content of a file that is not deleted is on the network, and nothing is
\* going to take it away.
LiveContentStored == file.status \in Live /\ file.content # Empty => Safe(file.content)

\* And so is the content of every version that can be restored.
VersionContentStored == \A i \in Existing : Safe(versions[i].content)

\* The server loses track of no content but the ones it gives up knowingly:
\* the current content on a restore, the versions of a file that is hard
\* deleted, a content the network refuses to delete.
NoUntrackedContent ==
    requests = {} => \A c \in owned :
        \/ file.status \in Live /\ c = file.content
        \/ \E i \in Existing : versions[i].content = c
        \/ c \in pending
        \/ net[c] = "purged"

\* After any sequence of replacements, restorations, retentions and jobs the
\* content of a file that is not deleted, and that of every version that can be
\* restored, is on the network with nothing queued that would take it away; and
\* the server loses track of no content but the ones it gives up knowingly.
ContentsTrackedAlone ==
    alone => LiveContentStored /\ VersionContentStored /\ NoUntrackedContent

============================================================================
