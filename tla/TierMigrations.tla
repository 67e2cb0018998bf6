---------------------------- MODULE TierMigrations ----------------------------
(***************************************************************************)
(* The tables of plans: which tier has which limits.  Only migrations      *)
(* write them.  They are applied one after the other and undone from the   *)
(* last; each is recorded as applied after all it does, and some of them   *)
(* do it in one transaction and others statement by statement.             *)
(***************************************************************************)
EXTENDS Naturals, Sequences, FiniteSets

CONSTANTS
    FREE_INDIVIDUAL_TIER_ID,  \* the tier that gets no CLI access
    MaxCrashes,               \* bound: times a process of migration dies
    MaxUndone                 \* bound: migrations undone

VARIABLES
    tables,      \* tiers, limits, tiers_limits and paid_plans
    done,        \* migrations recorded as applied
    crashes, undone,
    stuck        \* history: a migration has failed

migrationVars == <<tables, done, crashes, undone, stuck>>

----------------------------------------------------------------------------
Counter(v) == [type |-> "counter", value |-> v]
Switch(v) == [type |-> "boolean", value |-> v]

\* An identifier is written down or made up; what is made up is new at every attempt.
TierRow == [id : STRING \X {0, 1}, label : STRING]

LimitRow == [id : STRING \X STRING \X {0, 1}, label : STRING, type : {"counter", "boolean"}, value : STRING]

\* Rows that say the same are one.
TierLimitRow == [tier : STRING \X {0, 1}, limit : STRING \X STRING \X {0, 1}]

PaidPlanRow == [planId : STRING, tier : STRING \X {0, 1}]

NoTables == [tiers |-> {}, limits |-> {}, tiersLimits |-> {}, paidPlans |-> {}]

Init ==
    /\ tables = NoTables /\ done = 0 /\ crashes = 0 /\ undone = 0 /\ stuck = FALSE

----------------------------------------------------------------------------
(* What migrations are made of.                                            *)

\* Every attempt after one that died makes up other identifiers.
attempt == IF crashes = 0 THEN 0 ELSE 1

Limit(id, label, v) == [id |-> id, label |-> label, type |-> v.type, value |-> v.value]

MadeUp(label, of) == <<label, of, attempt>>

LimitsOf(d, label) == {l \in d.limits : l.label = label}

Valued(d, label, v) == {l \in LimitsOf(d, label) : l.value = v}

TiersLabelled(d, labels) == {t \in d.tiers : t.label \in labels}

Relate(T, limitOf(_)) == {[tier |-> t.id, limit |-> limitOf(t)] : t \in T}

Any(S) == CHOOSE x \in S : TRUE

\* Inserts refuse identifiers there are, deletes rows that are referred to.
Consistent(d) ==
    LET ids == {t.id : t \in d.tiers}
    IN  /\ Cardinality(ids) = Cardinality(d.tiers)
        /\ {r.tier : r \in d.tiersLimits} \cup {p.tier : p \in d.paidPlans} \subseteq ids
        /\ {r.limit : r \in d.tiersLimits} \subseteq {l.id : l \in d.limits}

Failed == <<>>

\* A migration goes on as long as the database takes what it writes.
Statements(ds) == IF \A k \in DOMAIN ds : Consistent(ds[k]) THEN ds ELSE Failed

Insert(d, limits, relations) ==
    [d EXCEPT !.limits = @ \cup limits, !.tiersLimits = @ \cup relations]

WithoutLimits(d, limits) ==
    [d EXCEPT !.tiersLimits = {r \in @ : \A l \in limits : r.limit # l.id}]

DropLimits(d, limits) == [d EXCEPT !.limits = @ \ limits]

\* One limit per value, for tiers to share.
AddValues(label, values) ==
    Statements(<<Insert(tables, {Limit(MadeUp(label, v.value), label, v) : v \in values}, {})>>)

\* What tiers have of a label is taken from them and, perhaps, deleted.
DropLabel(label) == Statements(<<DropLimits(tables, LimitsOf(tables, label))>>)

Unassign(label) == Statements(<<WithoutLimits(tables, LimitsOf(tables, label))>>)

UnassignAndDrop(label) ==
    Statements(<<DropLimits(WithoutLimits(tables, LimitsOf(tables, label)), LimitsOf(tables, label))>>)

\* A tier changes from one limit to another; insert and update differ in what stays.
Swap(d, T, from, to) ==
    [d EXCEPT !.tiersLimits = {IF r.limit = from /\ \E t \in T : t.id = r.tier THEN [r EXCEPT !.limit = to] ELSE r : r \in @}]

SetValue(d, labels, T, v) ==
    LET ids == {r.limit : r \in {s \in d.tiersLimits : \E t \in T : t.id = s.tier}}
    IN  [d EXCEPT !.limits = {IF l.id \in ids /\ l.label \in labels THEN [l EXCEPT !.value = v] ELSE l : l \in @}]

----------------------------------------------------------------------------
(* Tiers.                                                                  *)

LegacyTiers == {"10gb_individual", "200gb_individual", "2tb_individual", "5tb_individual", "10tb_individual"}

\* Of the limits seeded per tier those of sharing stand for all.
SeededLimits(tier) ==
    CASE tier = "10gb_individual" -> {<<"max-shared-items", Counter("10")>>, <<"max-shared-invites", Counter("5")>>}
      [] tier \in {"200gb_individual", "2tb_individual"} ->
            {<<"max-shared-items", Counter("50")>>, <<"max-shared-invites", Counter("50")>>}
      [] OTHER -> {<<"max-shared-items", Counter("1000")>>, <<"max-shared-invites", Counter("100")>>}

InsertTiers(d, ids, labels) == [d EXCEPT !.tiers = @ \cup {[id |-> ids[l], label |-> l] : l \in labels}]

seedTiersAndLimits ==
    LET ids == [l \in LegacyTiers |-> <<l, attempt>>]
        pairs == {<<l, s>> : l \in LegacyTiers, s \in UNION {SeededLimits(k) : k \in LegacyTiers}}
        seeded == {p \in pairs : p[2] \in SeededLimits(p[1])}
        tiers == InsertTiers(tables, ids, LegacyTiers)
        limits == Insert(tiers, {Limit(MadeUp(p[2][1], p[1]), p[2][1], p[2][2]) : p \in seeded}, {})
    IN  Statements(<<tiers, limits,
            Insert(limits, {}, {[tier |-> ids[p[1]], limit |-> MadeUp(p[2][1], p[1])] : p \in seeded})>>)

unseedTiersAndLimits ==
    LET gone == {t.id : t \in TiersLabelled(tables, LegacyTiers)}
        unrelated == [tables EXCEPT !.tiersLimits = {r \in @ : r.tier \notin gone}]
        fewer == [unrelated EXCEPT !.tiers = {t \in @ : t.id \notin gone}]
    IN  Statements(<<unrelated, fewer,
            [fewer EXCEPT !.limits = {l \in @ : \E r \in fewer.tiersLimits : r.limit = l.id}]>>)

seedFreePlan ==
    LET tiers == TiersLabelled(tables, {"10gb_individual"})
    IN  Statements(<<IF tiers = {} THEN tables
                     ELSE [tables EXCEPT !.paidPlans =
                               @ \cup {[planId |-> "free_000000", tier |-> Any(tiers).id]}]>>)

unseedFreePlan ==
    Statements(<<[tables EXCEPT !.paidPlans = {p \in @ : p.planId # "free_000000"}]>>)

PricingTiers == {"free_individual", "essential_individual", "premium_individual", "ultimate_individual",
                 "standard_business", "pro_business"}

\* Identifiers that are written down are those of every attempt.
Written(labels) == [l \in labels |-> <<l, 0>>]

WrittenLimit(label, v) == <<label, v, 0>>

seedNewPricingTiers ==
    LET with == {"ultimate_individual", "standard_business", "pro_business"}
        tiers == InsertTiers(tables, Written(PricingTiers), PricingTiers)
        limits == Insert(tiers, {Limit(WrittenLimit("webdav-access", v), "webdav-access", Switch(v)) :
                                     v \in {"false", "true"}}, {})
    IN  IF \E l \in PricingTiers, t \in tables.tiers : t.id = Written(PricingTiers)[l] THEN Failed
        ELSE Statements(<<tiers, limits,
                Insert(limits, {}, {[tier |-> Written(PricingTiers)[l],
                                     limit |-> WrittenLimit("webdav-access", IF l \in with THEN "true" ELSE "false")] :
                                        l \in PricingTiers})>>)

unseedTiers(ids) ==
    LET unrelated == [tables EXCEPT !.tiersLimits = {r \in @ : r.tier \notin ids}]
    IN  <<unrelated, [unrelated EXCEPT !.tiers = {t \in @ : t.id \notin ids}]>>

unseedNewPricingTiers ==
    LET two == unseedTiers({Written(PricingTiers)[l] : l \in PricingTiers})
    IN  Statements(Append(two, DropLimits(two[2], LimitsOf(two[2], "webdav-access"))))

LifetimeTiers == {"essential_lifetime_individual", "premium_lifetime_individual", "ultimate_lifetime_individual"}

seedLifetimeTiers ==
    LET ids == Written(LifetimeTiers)
        tiers == InsertTiers(tables, ids, LifetimeTiers)
        webdav(v) == Any(Valued(tables, "webdav-access", v)).id
    IN  IF \/ Valued(tables, "webdav-access", "false") = {} \/ Valued(tables, "webdav-access", "true") = {}
           \/ \E l \in LifetimeTiers, t \in tables.tiers : t.id = ids[l]
        THEN Failed
        ELSE Statements(<<tiers,
                Insert(tiers, {}, {[tier |-> ids[l],
                                    limit |-> webdav(IF l = "ultimate_lifetime_individual" THEN "true" ELSE "false")] :
                                       l \in LifetimeTiers})>>)

unseedLifetimeTiers == Statements(unseedTiers({Written(LifetimeTiers)[l] : l \in LifetimeTiers}))

IncorrectFreeTier == <<"free_individual", 0>>

\* What was the free tier takes the place, and what it has, of the one just seeded.
reassignFreeTierLabel ==
    LET tiers == TiersLabelled(tables, {"10gb_individual"})
        new == Any(tiers).id
        moved == [tables EXCEPT !.tiersLimits =
                      {IF r.tier = IncorrectFreeTier THEN [r EXCEPT !.tier = new] ELSE r : r \in @}]
        fewer == [moved EXCEPT !.tiers = {t \in @ : t.id # IncorrectFreeTier}]
    IN  IF tiers = {} THEN Failed
        ELSE Statements(<<moved, fewer,
                [fewer EXCEPT !.tiers = {IF t \in tiers THEN [t EXCEPT !.label = "free_individual"] ELSE t : t \in @}]>>)

\* All that the tier has goes, not only what came.
restoreFreeTierLabel ==
    LET more == [tables EXCEPT !.tiers = @ \cup {[id |-> IncorrectFreeTier, label |-> "free_individual"]}]
        current == {t \in TiersLabelled(more, {"free_individual"}) : t.id # IncorrectFreeTier}
        moved == IF current = {} THEN more
                 ELSE [more EXCEPT !.tiersLimits =
                           {IF r.tier = Any(current).id THEN [r EXCEPT !.tier = IncorrectFreeTier] ELSE r : r \in @}]
    IN  Statements(<<more, moved,
            [moved EXCEPT !.tiers = {IF t \in current THEN [t EXCEPT !.label = "10gb_individual"] ELSE t : t \in @}]>>)

----------------------------------------------------------------------------
(* Access to the command line, WebDAV's successor, and to rclone.          *)

OnOff == {Switch("false"), Switch("true")}

addCliAccessLimit == AddValues("cli-access", OnOff)

dropCliAccessLimit == DropLabel("cli-access")

HasBoth(d, label, a, b) == Valued(d, label, a) # {} /\ Valued(d, label, b) # {}

assignCliAccess ==
    LET limit(t) == Any(Valued(tables, "cli-access", IF t.id = FREE_INDIVIDUAL_TIER_ID THEN "false" ELSE "true")).id
    IN  IF ~ HasBoth(tables, "cli-access", "true", "false") THEN Failed
        ELSE Statements(<<Insert(tables, {}, Relate(tables.tiers, limit))>>)

unassignCliAccess == Unassign("cli-access")

CLI_DISABLED_TIER_LABELS ==
    (LegacyTiers \ {"10gb_individual"}) \cup LifetimeTiers
        \cup {"essential_individual", "premium_individual", "standard_business"}

SwapCliAccess(labels, from, to) ==
    IF ~ HasBoth(tables, "cli-access", from, to) THEN Failed
    ELSE Statements(<<Swap(tables, TiersLabelled(tables, labels), Any(Valued(tables, "cli-access", from)).id,
                           Any(Valued(tables, "cli-access", to)).id)>>)

updateCliAccess == SwapCliAccess(CLI_DISABLED_TIER_LABELS, "true", "false")

undoUpdateCliAccess == SwapCliAccess(CLI_DISABLED_TIER_LABELS, "false", "true")

updateCliAccessUltimateLifetime == SwapCliAccess({"ultimate_lifetime_individual"}, "false", "true")

undoUpdateCliAccessUltimateLifetime == SwapCliAccess({"ultimate_lifetime_individual"}, "true", "false")

\* A switch every tier has, turned on for some; all in one transaction.
AddSwitch(label, on) ==
    LET limit(t) == MadeUp(label, IF t.label \in on THEN "true" ELSE "false")
    IN  IF tables.tiers = {} THEN Failed
        ELSE Statements(<<Insert(tables, {Limit(MadeUp(label, v.value), label, v) : v \in OnOff},
                                 Relate(tables.tiers, limit))>>)

addRcloneAccessLimit ==
    AddSwitch("rclone-access", {"ultimate_individual", "ultimate_lifetime_individual", "pro_business"})

dropRcloneAccessLimit == UnassignAndDrop("rclone-access")

addPhotosAccessLimit == AddSwitch("photos-access", {"ultimate_individual", "ultimate_lifetime_individual"})

dropPhotosAccessLimit == UnassignAndDrop("photos-access")

----------------------------------------------------------------------------
(* Versions of files.                                                      *)

VersionLabels == {"file-version-enabled", "file-version-max-number"}

\* Size and retention go along with the number.
Versioning(tier) ==
    CASE tier = "free_individual" -> <<Switch("false"), Counter("0")>>
      [] tier = "essential_individual" -> <<Switch("true"), Counter("1")>>
      [] tier \in {"premium_individual", "standard_business", "premium_lifetime_individual"} ->
            <<Switch("true"), Counter("10")>>
      [] OTHER -> <<Switch("true"), Counter("20")>>

VersionLimit(t, label) ==
    Limit(MadeUp(label, t.label), label,
          Versioning(t.label)[IF label = "file-version-enabled" THEN 1 ELSE 2])

VersionLimits(T) == {VersionLimit(t, label) : t \in T, label \in VersionLabels}

RelateVersions(T) ==
    {[tier |-> t.id, limit |-> MadeUp(label, t.label)] : t \in T, label \in VersionLabels}

\* Of tiers with the same label one is found.
OneOfEach(labels) == {Any(TiersLabelled(tables, {l})) : l \in {k \in labels : TiersLabelled(tables, {k}) # {}}}

addFileVersioningLimits ==
    LET T == OneOfEach(PricingTiers)
        limits == Insert(tables, VersionLimits(T), {})
    IN  Statements(<<limits, Insert(limits, {}, RelateVersions(T))>>)

\* Mutant: the limits are deleted before what refers to them.
dropFileVersioningLimitsFirst ==
    LET limits == UNION {LimitsOf(tables, label) : label \in VersionLabels}
    IN  Statements(<<DropLimits(tables, limits), WithoutLimits(DropLimits(tables, limits), limits)>>)

dropFileVersioningLimits ==
    LET limits == UNION {LimitsOf(tables, label) : label \in VersionLabels}
    IN  Statements(<<WithoutLimits(tables, limits), DropLimits(WithoutLimits(tables, limits), limits)>>)

updateFileVersioningLimits ==
    LET T == TiersLabelled(tables, {"essential_individual"})
        off == SetValue(tables, {"file-version-enabled"}, T, "false")
    IN  Statements(<<off, SetValue(off, {"file-version-max-number"}, T, "0")>>)

undoUpdateFileVersioningLimits ==
    LET T == TiersLabelled(tables, {"essential_individual"})
        on == SetValue(tables, {"file-version-enabled"}, T, "true")
    IN  Statements(<<on, SetValue(on, {"file-version-max-number"}, T, "1")>>)

enableFileVersioningPremiumPlans ==
    LET T == TiersLabelled(tables, {"premium_individual", "standard_business", "ultimate_individual", "pro_business"})
        L == OneOfEach({"premium_lifetime_individual", "ultimate_lifetime_individual"})
    IN  Statements(<<Insert(SetValue(tables, {"file-version-enabled"}, T, "true"), VersionLimits(L), RelateVersions(L))>>)

\* There is nothing to undo it.
keepFileVersioningPremiumPlans == Statements(<<tables>>)

----------------------------------------------------------------------------
(* Empty files, days in the trash, referrals, sizes of uploads.            *)

addMaxZeroSizeFilesLimit == AddValues("max-zero-size-files", {Counter("1000"), Counter("0")})

dropMaxZeroSizeFilesLimit == DropLabel("max-zero-size-files")

assignEmptyFileLimits ==
    LET limit(t) == Any(Valued(tables, "max-zero-size-files",
                               IF t.label \in (PricingTiers \ {"free_individual"}) \cup LifetimeTiers
                               THEN "1000" ELSE "0")).id
    IN  IF tables.tiers = {} \/ ~ HasBoth(tables, "max-zero-size-files", "1000", "0") THEN Failed
        ELSE Statements(<<Insert(tables, {}, Relate(tables.tiers, limit))>>)

unassignEmptyFileLimits == Unassign("max-zero-size-files")

ChangeEmptyFiles(from, to) ==
    LET limits == Valued(tables, "max-zero-size-files", from)
    IN  IF limits = {} THEN Failed
        ELSE Statements(<<[tables EXCEPT !.limits =
                               {IF l = Any(limits) THEN [l EXCEPT !.value = to] ELSE l : l \in @}]>>)

increaseEmptyFileLimits == ChangeEmptyFiles("1000", "10000")

undoIncreaseEmptyFileLimits == ChangeEmptyFiles("10000", "1000")

\* These identifiers are written down.
AddWritten(label, values) ==
    IF \E l \in tables.limits, v \in values : l.id = WrittenLimit(label, v) THEN Failed
    ELSE Statements(<<Insert(tables, {Limit(WrittenLimit(label, v), label, Counter(v)) : v \in values}, {})>>)

addTrashRetentionDaysLimits == AddWritten("trash-retention-days", {"7", "15", "30"})

dropTrashRetentionDaysLimits == DropLabel("trash-retention-days")

RetentionDays(tier) ==
    CASE tier \in {"essential_individual", "essential_lifetime_individual"} -> "7"
      [] tier \in {"premium_individual", "premium_lifetime_individual", "standard_business"} -> "15"
      [] OTHER -> "30"

AssignValues(label, labels, value(_)) ==
    LET T == OneOfEach(labels)
    IN  IF \E t \in T : Valued(tables, label, value(t.label)) = {} THEN Failed
        ELSE Statements(<<Insert(tables, {}, Relate(T, LAMBDA t : Any(Valued(tables, label, value(t.label))).id))>>)

assignTrashRetentionDays ==
    LET labels == (PricingTiers \ {"free_individual"}) \cup LifetimeTiers
    IN  IF \E l \in labels : TiersLabelled(tables, {l}) = {} THEN Failed
        ELSE AssignValues("trash-retention-days", labels, RetentionDays)

unassignTrashRetentionDays == Unassign("trash-retention-days")

addTrashRetention2Days == AddWritten("trash-retention-days", {"2"})

dropTrashRetention2Days == Statements(<<DropLimits(tables, Valued(tables, "trash-retention-days", "2"))>>)

OldTiers == {"free_individual"} \cup (LegacyTiers \ {"10gb_individual"})

assignTrashRetentionDaysToOldTiers ==
    IF Valued(tables, "trash-retention-days", "2") = {} THEN Failed
    ELSE AssignValues("trash-retention-days", OldTiers, LAMBDA l : "2")

unassignTrashRetentionDaysFromOldTiers ==
    LET ids == {l.id : l \in Valued(tables, "trash-retention-days", "2")}
        old == {t.id : t \in TiersLabelled(tables, OldTiers)}
    IN  Statements(<<[tables EXCEPT !.tiersLimits = {r \in @ : ~ (r.limit \in ids /\ r.tier \in old)}]>>)

addReferralAccessLimit == AddValues("referral-access", OnOff)

dropReferralAccessLimit == DropLabel("referral-access")

activateReferralAccess ==
    LET T == TiersLabelled(tables, PricingTiers \cup LifetimeTiers)
        on == Valued(tables, "referral-access", "true")
    IN  IF T = {} \/ on = {} THEN Failed
        ELSE Statements(<<Insert(tables, {}, Relate(T, LAMBDA t : Any(on).id))>>)

deactivateReferralAccess == Unassign("referral-access")

addMaxUploadFileSizeLimit ==
    AddValues("max-upload-file-size", {Counter(v) : v \in {"100MB", "1GB", "10GB", "50GB", "100GB"}})

dropMaxUploadFileSizeLimit == DropLabel("max-upload-file-size")

UploadSize(tier) ==
    CASE tier = "free_individual" -> "100MB"
      [] tier \in {"premium_individual", "premium_lifetime_individual", "standard_business"} -> "50GB"
      [] tier \in {"ultimate_individual", "ultimate_lifetime_individual", "pro_business"} -> "100GB"
      [] OTHER -> "10GB"

assignMaxUploadFileSize ==
    AssignValues("max-upload-file-size", PricingTiers \cup OldTiers \cup LifetimeTiers, UploadSize)

unassignMaxUploadFileSize == Unassign("max-upload-file-size")

----------------------------------------------------------------------------
(* Their order, which is that of the names of their files.                 *)

Last == 25

Up(k) ==
    CASE k = 1 -> seedTiersAndLimits [] k = 2 -> seedFreePlan [] k = 3 -> seedNewPricingTiers
      [] k = 4 -> seedLifetimeTiers [] k = 5 -> reassignFreeTierLabel [] k = 6 -> addCliAccessLimit
      [] k = 7 -> assignCliAccess [] k = 8 -> addFileVersioningLimits [] k = 9 -> addMaxZeroSizeFilesLimit
      [] k = 10 -> updateFileVersioningLimits [] k = 11 -> updateCliAccess
      [] k = 12 -> updateCliAccessUltimateLifetime [] k = 13 -> addRcloneAccessLimit
      [] k = 14 -> assignEmptyFileLimits [] k = 15 -> enableFileVersioningPremiumPlans
      [] k = 16 -> increaseEmptyFileLimits [] k = 17 -> addTrashRetentionDaysLimits
      [] k = 18 -> assignTrashRetentionDays [] k = 19 -> addTrashRetention2Days
      [] k = 20 -> assignTrashRetentionDaysToOldTiers [] k = 21 -> addReferralAccessLimit
      [] k = 22 -> activateReferralAccess [] k = 23 -> addMaxUploadFileSizeLimit
      [] k = 24 -> addPhotosAccessLimit [] k = 25 -> assignMaxUploadFileSize

Down(k) ==
    CASE k = 1 -> unseedTiersAndLimits [] k = 2 -> unseedFreePlan [] k = 3 -> unseedNewPricingTiers
      [] k = 4 -> unseedLifetimeTiers [] k = 5 -> restoreFreeTierLabel [] k = 6 -> dropCliAccessLimit
      [] k = 7 -> unassignCliAccess [] k = 8 -> dropFileVersioningLimits [] k = 9 -> dropMaxZeroSizeFilesLimit
      [] k = 10 -> undoUpdateFileVersioningLimits [] k = 11 -> undoUpdateCliAccess
      [] k = 12 -> undoUpdateCliAccessUltimateLifetime [] k = 13 -> dropRcloneAccessLimit
      [] k = 14 -> unassignEmptyFileLimits [] k = 15 -> keepFileVersioningPremiumPlans
      [] k = 16 -> undoIncreaseEmptyFileLimits [] k = 17 -> dropTrashRetentionDaysLimits
      [] k = 18 -> unassignTrashRetentionDays [] k = 19 -> dropTrashRetention2Days
      [] k = 20 -> unassignTrashRetentionDaysFromOldTiers [] k = 21 -> dropReferralAccessLimit
      [] k = 22 -> deactivateReferralAccess [] k = 23 -> dropMaxUploadFileSizeLimit
      [] k = 24 -> dropPhotosAccessLimit [] k = 25 -> unassignMaxUploadFileSize

\* Recorded when all of it is written.
Migrate ==
    /\ done < Last /\ ~ stuck
    /\ LET written == Up(done + 1)
       IN  IF written = Failed THEN stuck' = TRUE /\ UNCHANGED <<tables, done>>
           ELSE /\ tables' = written[Len(written)]
                /\ done' = done + 1 /\ UNCHANGED stuck
    /\ UNCHANGED <<crashes, undone>>

Undo ==
    /\ done > 0 /\ ~ stuck /\ undone < MaxUndone
    /\ LET written == Down(done)
       IN  IF written = Failed THEN stuck' = TRUE /\ UNCHANGED <<tables, done>>
           ELSE tables' = written[Len(written)] /\ done' = done - 1 /\ UNCHANGED stuck
    /\ undone' = undone + 1
    /\ UNCHANGED crashes

\* Some statements, or all of them, are written and nothing is recorded.
Crash ==
    /\ done < Last /\ ~ stuck /\ crashes < MaxCrashes
    /\ LET written == Up(done + 1) IN \E n \in DOMAIN written : tables' = written[n]
    /\ crashes' = crashes + 1
    /\ UNCHANGED <<done, undone, stuck>>

Next == Migrate \/ Undo \/ Crash

Spec == Init /\ [][Next]_migrationVars

----------------------------------------------------------------------------
(* Queries of the tables.                                                  *)

findLimitsOfTier(t, label) ==
    {l \in LimitsOf(tables, label) : [tier |-> t.id, limit |-> l.id] \in tables.tiersLimits}

getFreeTier == {t \in tables.tiers : [planId |-> "free_000000", tier |-> t.id] \in tables.paidPlans}

----------------------------------------------------------------------------
(* Properties.                                                             *)

\* The rows are those of the tables, and nothing refers to a row there is not.
TypeOK ==
    /\ tables.tiers \subseteq TierRow /\ tables.limits \subseteq LimitRow
    /\ tables.tiersLimits \subseteq TierLimitRow /\ tables.paidPlans \subseteq PaidPlanRow
    /\ Consistent(tables)

\* A tier never has two values of a limit, of which the program would take whichever comes
\* first, whatever was undone, and wherever a migration died and began again.
OneValueEach ==
    \A t \in tables.tiers :
        LET limits == UNION {findLimitsOfTier(t, label) : label \in {l.label : l \in tables.limits}}
        IN  \A k, l \in limits : k.label = l.label => k.value = l.value

\* Migrations that were not disturbed can all be applied, undone and applied again: what each
\* looks for has been left there by those before.
NeverStuckAlone == crashes = 0 => ~ stuck

\* In the end every tier has a value of what its accounts are asked for, and the tier of the
\* free plan is the one with the name and with the fewest rights.
EveryTierServedAlone ==
    crashes = 0 /\ undone = 0 /\ done = Last =>
        /\ \A t \in tables.tiers, label \in {"cli-access", "rclone-access", "photos-access", "max-zero-size-files",
                                             "trash-retention-days", "max-upload-file-size"} :
              findLimitsOfTier(t, label) # {}
        /\ \A t \in getFreeTier :
              /\ t.label = "free_individual"
              /\ \A label \in {"cli-access", "rclone-access", "file-version-enabled"} :
                    \A l \in findLimitsOfTier(t, label) : l.value = "false"

=============================================================================
