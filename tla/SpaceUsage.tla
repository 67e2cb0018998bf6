------------------------------ MODULE SpaceUsage ------------------------------
(***************************************************************************)
(* How much space an account uses.  The sizes of its files are not summed  *)
(* anew: table usages keeps what every day added, and only the time since  *)
(* its latest row is read from table files.  A gap is filled when somebody *)
(* asks, a file that is replaced adds a row of its own.  The answer is     *)
(* remembered until the next upload, or until it expires.                  *)
(***************************************************************************)
EXTENDS Integers, FiniteSets, Functions

CONSTANTS
    Files,        \* files the account may have
    Sizes,        \* their sizes
    Uploads,      \* identifiers of uploaded contents
    DaysPerMonth,
    MaxDay,       \* bound: days
    MaxInFlight,  \* bound: requests at work
    Overlap,      \* requests that may interleave: "none", "usage", "retry"
    Hasty,        \* may a file be emptied while the lock of its upload is held?
    Versioned     \* are replaced files kept as versions?

VARIABLES
    today,     \* the day
    files,     \* table files, with the sum of the sizes of each one's versions
    usages,    \* table usages
    cache,     \* the usage remembered
    locks,     \* locks of replacements
    requests,  \* requests at work
    recent     \* history: usages that were true since the last upload

usageVars == <<today, files, usages, cache, locks, requests, recent>>

----------------------------------------------------------------------------
None == -1

NoFile == [status |-> "NONE", size |-> 0, created |-> None, updated |-> None, fileId |-> None, versions |-> 0]

Existing == {f \in Files : files[f].status = "EXISTS"}

Deleted == {f \in Files : files[f].status = "DELETED"}

Days == -1 .. MaxDay

Month(d) == d \div DaysPerMonth

\* Of a day or a month there is one row at most, of replacements what they sum up to.
UsageModel == [daily : [Days -> Int], dailyOf : SUBSET Days, monthly : [Days -> Int],
               monthlyOf : SUBSET Days, replacement : [Days -> Int]]

NoUsages ==
    LET zeros == [d \in Days |-> 0]
    IN  [daily |-> zeros, dailyOf |-> {}, monthly |-> zeros, monthlyOf |-> {}, replacement |-> zeros]

SizesOf(F, size(_)) == FoldFunctionOnSet(+, 0, [f \in Files |-> size(f)], F)

DeltasOf(D, deltas) == FoldFunctionOnSet(+, 0, deltas, D)

\* What the account really uses.
UsedSpace(fs) ==
    LET space == [f \in Files |-> (IF fs[f].status = "EXISTS" THEN fs[f].size ELSE 0) + fs[f].versions]
    IN  FoldFunction(+, 0, space)

Init ==
    /\ today = 0 /\ files = [f \in Files |-> NoFile] /\ usages = NoUsages
    /\ cache = None /\ locks = {} /\ requests = {} /\ recent = {0}

----------------------------------------------------------------------------
(* Queries.                                                                *)

\* A month's row is dated with its first day.
getLatestTemporalUsage ==
    IF usages.dailyOf \cup usages.monthlyOf = {} THEN [type |-> "none", period |-> None]
    ELSE LET last == CHOOSE d \in usages.dailyOf \cup usages.monthlyOf :
                         \A e \in usages.dailyOf \cup usages.monthlyOf : e <= d
         IN  [type |-> IF last \in usages.dailyOf THEN "daily" ELSE "monthly", period |-> last]

getNextPeriodStartDate(usage) ==
    IF usage.type = "daily" THEN usage.period + 1 ELSE (Month(usage.period) + 1) * DaysPerMonth

isAtOrBeforePeriod(usage, d) ==
    IF usage.type = "daily" THEN d <= usage.period ELSE Month(d) <= Month(usage.period)

\* A month that has a row stands for its days.
calculateAggregatedUsage ==
    LET closed == {d \in Days : \E m \in usages.monthlyOf : Month(m) = Month(d)}
    IN  DeltasOf(usages.monthlyOf, usages.monthly) + DeltasOf(usages.dailyOf \ closed, usages.daily)
            + DeltasOf(Days \ closed, usages.replacement)

sumFileSizeDeltaFromDate(since) ==
    SizesOf({f \in Existing : files[f].created >= since}, LAMBDA f : files[f].size)
        - SizesOf({f \in Deleted : files[f].updated >= since /\ files[f].created < since},
                  LAMBDA f : files[f].size)

sumFileSizeDeltaBetweenDates(since, until) ==
    LET created == {f \in Files : files[f].created \in since .. until}
        deleted == {f \in Deleted : files[f].created < since /\ files[f].updated \in since .. until}
    IN  SizesOf({f \in created : f \in Existing \/ files[f].updated > until}, LAMBDA f : files[f].size)
            - SizesOf(deleted, LAMBDA f : files[f].size)

firstDelta ==
    SizesOf({f \in Existing \cup Deleted :
                files[f].created < today /\ (f \in Deleted => files[f].updated >= today)},
            LAMBDA f : files[f].size)

sumExistingSizesByUser == SizesOf(Files, LAMBDA f : files[f].versions)

----------------------------------------------------------------------------
(* Requests.                                                               *)

NewRequest(op) ==
    [nr |-> 0, op |-> op, file |-> CHOOSE f \in Files : TRUE, fileId |-> None, key |-> None, delta |-> 0,
     usage |-> [type |-> "none", period |-> None], sum |-> 0]

Quiet == requests = {}

Begin(w) ==
    /\ Cardinality(requests) < MaxInFlight
    /\ requests' = requests \cup {[w EXCEPT !.nr = CHOOSE k \in 1 .. MaxInFlight :
                                      \A v \in requests : v.nr # k]}

Goes(w, to) == requests' = (requests \ {w}) \cup {to}

Done(w) == requests' = requests \ {w}

Changes(fs) == files' = fs /\ recent' = recent \cup {UsedSpace(fs)}

----------------------------------------------------------------------------
(* Files.                                                                  *)

\* An empty file has no content.
IdentifierOf(s, i) == IF s = 0 THEN None ELSE i

createFile(f, s, i) ==
    /\ Quiet \/ Overlap = "usage"
    /\ files[f] = NoFile
    /\ Changes([files EXCEPT ![f] = [status |-> "EXISTS", size |-> s, created |-> today,
                                     updated |-> today, fileId |-> IdentifierOf(s, i), versions |-> 0]])
    /\ Begin([NewRequest("expire") EXCEPT !.file = f])
    /\ UNCHANGED <<today, usages, cache, locks>>

expireUserUsage == cache' = None

afterUpload(w) ==
    /\ w.op = "expire"
    /\ expireUserUsage
    /\ recent' = {UsedSpace(files)}
    /\ Done(w)
    /\ UNCHANGED <<today, files, usages, locks>>

\* Its versions stay, and count, until the row is removed.
deleteFile(f) ==
    /\ Quiet \/ Overlap = "usage"
    /\ files[f].status = "EXISTS"
    /\ Changes([files EXCEPT ![f].status = "DELETED", ![f].updated = today])
    /\ UNCHANGED <<today, usages, cache, locks, requests>>

\* The upload of a file that is emptied lends its identifier.
lockFileId(f, s, i) == IF s # 0 THEN i ELSE files[f].fileId

\* A request that is sent twice comes with the same content, and both are read before either
\* is written; every other content has a new identifier.
MayReplace(f, s, i) ==
    \/ /\ Quiet
       /\ s = 0 => (Hasty \/ locks = {})
       /\ i \notin locks \/ (files[f].fileId = i /\ files[f].size = s)
    \/ /\ Overlap = "retry" /\ ~ Quiet
       /\ \A w \in requests : /\ w.op = "row" /\ w.file = f
                             /\ w.fileId = IdentifierOf(s, i) /\ w.sum = s

\* The file as it is read: what is added is what it has more than then.
replaceFile(f, s, i) ==
    /\ ~ Versioned /\ MayReplace(f, s, i)
    /\ files[f].status = "EXISTS"
    /\ Begin([NewRequest("row") EXCEPT !.file = f, !.fileId = IdentifierOf(s, i), !.key = lockFileId(f, s, i),
                                       !.sum = s, !.delta = s - files[f].size])
    /\ UNCHANGED <<today, files, usages, cache, locks, recent>>

updateByUuidAndUserId(w) ==
    /\ w.op = "row"
    /\ Changes([files EXCEPT ![w.file].size = w.sum, ![w.file].fileId = w.fileId])
    /\ Goes(w, [w EXCEPT !.op = "lock"])
    /\ UNCHANGED <<today, usages, cache, locks>>

\* Mutant: the lock is always got.
alwaysAcquireLock(i) == TRUE

tryAcquireLock(i) == i \notin locks

\* A retry of the same upload does not add it again.
fileSizeChangeLock(w) ==
    /\ w.op = "lock"
    /\ IF tryAcquireLock(w.key)
         THEN locks' = locks \cup {w.key} /\ Goes(w, [w EXCEPT !.op = "latestBefore"])
         ELSE Done(w) /\ UNCHANGED locks
    /\ UNCHANGED <<today, files, usages, cache, recent>>

\* Of a file that no row counts yet nothing is added.
addFileReplacementDelta(w) ==
    /\ w.op = "latestBefore"
    /\ LET latest == getLatestTemporalUsage
       IN  IF latest.type = "none" \/ w.delta = 0
              \/ ~ isAtOrBeforePeriod(latest, files[w.file].created)
             THEN UNCHANGED usages
             ELSE usages' = [usages EXCEPT !.replacement[today] = @ + w.delta]
    /\ Done(w)
    /\ UNCHANGED <<today, files, cache, locks, recent>>

\* The content before becomes a version; no row is added.
createFileVersion(f, s, i) ==
    /\ Versioned
    /\ Quiet
    /\ files[f].status = "EXISTS"
    /\ Changes([files EXCEPT ![f].versions = @ + files[f].size, ![f].size = s,
                                     ![f].fileId = IdentifierOf(s, i)])
    /\ UNCHANGED <<today, usages, cache, locks, requests>>

\* After 3 seconds: bound, requests have ended.
lockExpires ==
    /\ Quiet /\ locks # {} /\ locks' = {}
    /\ UNCHANGED <<today, files, usages, cache, requests, recent>>

----------------------------------------------------------------------------
(* The usage.                                                              *)

getUserUsage ==
    /\ Quiet \/ Overlap = "usage"
    /\ cache = None
    /\ Begin(NewRequest("latest"))
    /\ UNCHANGED <<today, files, usages, cache, locks, recent>>

getUserUsedStorageIncrementally(w) ==
    /\ w.op = "latest"
    /\ Goes(w, [w EXCEPT !.usage = getLatestTemporalUsage,
                         !.op = IF getLatestTemporalUsage.type = "none" THEN "first" ELSE "aggregate"])
    /\ UNCHANGED <<today, files, usages, cache, locks, recent>>

\* One transaction: the row that is found or made.
createFirstUsageCalculation(w) ==
    /\ w.op = "first"
    /\ usages' = IF today - 1 \in usages.dailyOf THEN usages
                 ELSE [usages EXCEPT !.dailyOf = @ \cup {today - 1}, !.daily[today - 1] = firstDelta]
    /\ Goes(w, [w EXCEPT !.op = "since", !.usage = [type |-> "daily", period |-> today - 1],
                         !.sum = usages'.daily[today - 1]])
    /\ UNCHANGED <<today, files, cache, locks, recent>>

readAggregated(w) ==
    /\ w.op = "aggregate"
    /\ Goes(w, [w EXCEPT !.op = "since", !.sum = calculateAggregatedUsage])
    /\ UNCHANGED <<today, files, usages, cache, locks, recent>>

readSince(w) ==
    /\ w.op = "since"
    /\ LET start == getNextPeriodStartDate(w.usage)
       IN  Goes(w, [w EXCEPT !.op = IF start = today THEN "remember" ELSE "gap",
                             !.sum = @ + sumFileSizeDeltaFromDate(start) + sumExistingSizesByUser])
    /\ UNCHANGED <<today, files, usages, cache, locks, recent>>

backfillUsageUntilYesterday(w) ==
    /\ w.op = "gap"
    /\ Goes(w, [w EXCEPT !.op = "daily",
                         !.delta = sumFileSizeDeltaBetweenDates(getNextPeriodStartDate(w.usage), today - 1)])
    /\ UNCHANGED <<today, files, usages, cache, locks, recent>>

\* A second row of the same day is refused; the failure is only logged.
createDailyUsage(delta) ==
    usages' = IF today - 1 \in usages.dailyOf THEN usages
              ELSE [usages EXCEPT !.dailyOf = @ \cup {today - 1}, !.daily[today - 1] = delta]

backfill(w) ==
    /\ w.op = "daily"
    /\ createDailyUsage(w.delta)
    /\ Goes(w, [w EXCEPT !.op = "remember"])
    /\ UNCHANGED <<today, files, cache, locks, recent>>

calculateAndCacheDriveUsage(w) ==
    /\ w.op = "remember"
    /\ cache' = w.sum
    /\ Done(w)
    /\ UNCHANGED <<today, files, usages, locks, recent>>

\* After ten minutes.
cacheExpires ==
    /\ cache # None /\ cache' = None
    /\ UNCHANGED <<today, files, usages, locks, requests, recent>>

midnight ==
    /\ Quiet /\ today < MaxDay /\ today' = today + 1 /\ cache' = None
    /\ UNCHANGED <<files, usages, locks, requests, recent>>

\* Outside this program the days of a month are summed up in a row, when all of them are over
\* and a later row exists, so that none of them is filled any more.
closeMonth(m) ==
    /\ Quiet /\ m * DaysPerMonth \notin usages.monthlyOf
    /\ \E d \in usages.dailyOf : Month(d) > m
    /\ LET days == {d \in Days : Month(d) = m}
       IN  usages' = [usages EXCEPT !.monthlyOf = @ \cup {m * DaysPerMonth},
                          !.monthly[m * DaysPerMonth] =
                              DeltasOf(days \cap usages.dailyOf, usages.daily)
                                  + DeltasOf(days, usages.replacement)]
    /\ UNCHANGED <<today, files, cache, locks, requests, recent>>

Next ==
    \/ getUserUsage \/ cacheExpires \/ midnight \/ lockExpires
    \/ \E m \in 0 .. Month(MaxDay) : closeMonth(m)
    \/ \E f \in Files :
          \/ deleteFile(f)
          \/ \E s \in Sizes, i \in Uploads :
                createFile(f, s, i) \/ replaceFile(f, s, i) \/ createFileVersion(f, s, i)
    \/ \E w \in requests :
          \/ afterUpload(w) \/ updateByUuidAndUserId(w) \/ fileSizeChangeLock(w)
          \/ addFileReplacementDelta(w) \/ getUserUsedStorageIncrementally(w)
          \/ createFirstUsageCalculation(w) \/ readAggregated(w) \/ readSince(w)
          \/ backfillUsageUntilYesterday(w) \/ backfill(w) \/ calculateAndCacheDriveUsage(w)

Spec == Init /\ [][Next]_usageVars

----------------------------------------------------------------------------
(* Properties.                                                             *)

\* What is answered to one who asks now and is not disturbed.
getUserUsedStorage ==
    LET latest == getLatestTemporalUsage
    IN  sumExistingSizesByUser +
        IF latest.type = "none" THEN firstDelta + sumFileSizeDeltaFromDate(today)
        ELSE calculateAggregatedUsage + sumFileSizeDeltaFromDate(getNextPeriodStartDate(latest))

\* Rows are those of the table, and none is of today or later.
TypeOK ==
    /\ usages \in UsageModel /\ today \in 0 .. MaxDay
    /\ usages.dailyOf \subseteq -1 .. today - 1
    /\ Cardinality(requests) <= MaxInFlight

\* The rows of every day, the replacements and the time since sum up to the sizes of the files
\* there are, however many days went by, whatever was deleted or replaced in between.
UsageIsSumOfFiles == Quiet => getUserUsedStorage = UsedSpace(files)

\* What is remembered was true after the last upload.
RememberedSinceUpload == Quiet /\ cache # None => cache \in recent

=============================================================================
