--------------------------------- MODULE Plans ---------------------------------
(***************************************************************************)
(* What an account may do.  Its tier and the limits overridden for it say  *)
(* how many versions a file keeps, how large an upload may be and which    *)
(* clients have access; how much space it has the network knows, and the   *)
(* answer is remembered.  The gateway changes the plan: tier, space, and   *)
(* then the versions that are too many; credits of referrals add space.    *)
(***************************************************************************)
EXTENDS Integers, FiniteSets

CONSTANTS
    Tiers,
    TierLimits,     \* tier and label to value, None where there is no row
    Spaces,         \* sizes the network grants
    Credit,         \* what a referral adds
    MAX_FREE_PLAN_BYTES,
    Referrals,      \* rows of referrals the account begins with
    MaxVersions,    \* bound: versions of the file
    MaxInFlight,    \* bound: requests at work
    MaxChanges,     \* bound: changes of plan and overrides
    Together,       \* may requests interleave?
    Failures,       \* may the network and the database fail?
    Repeated        \* is a limit overridden more than once?

VARIABLES
    tier,         \* of the account
    businessTier, \* of the account of its workspace, None without one
    overrides,    \* table user_overridden_limits: label and value
    space,        \* granted by the network
    limitCache,   \* space remembered
    tierCache,    \* sizes of uploads remembered by tier
    versions,     \* of the file
    pending,      \* rows of referrals not applied
    credited,     \* history: referrals the network was asked to credit
    requests,
    changes,      \* bound: changes so far
    granted,      \* history: spaces since the plan last changed
    trimmed,      \* history: has the last change of what versions are allowed been carried out?
    lastSet       \* history: the value last set for a label

planVars == <<tier, businessTier, overrides, space, limitCache, tierCache, versions, pending, credited,
              requests, changes, granted, trimmed, lastSet>>

----------------------------------------------------------------------------
None == -1

\* Switches are on at 1.
Labels == {"file-version-enabled", "file-version-max-number", "max-upload-file-size", "photos-access"}
    \cup {"cli-access", "rclone-access"}

Switches == Labels \ {"file-version-max-number", "max-upload-file-size"}

\* The rows of table limits, which are those some tier has.
Limits == {<<l, TierLimits[t][l]>> : l \in Labels, t \in Tiers} \ {<<l, None>> : l \in Labels}

UserOverriddenLimitRow == Limits

Quiet == requests = {}

NewRequest(op) == [nr |-> 0, op |-> op, tier |-> tier, space |-> None, limits |-> [enabled |-> FALSE, maxVersions |-> 0]]

NoLimitSet == [l \in Labels |-> None]

Init ==
    /\ tier \in Tiers /\ businessTier = None /\ overrides = {} /\ space \in Spaces
    /\ limitCache = None /\ tierCache = [t \in Tiers |-> None]
    /\ versions = 0 /\ pending = Referrals /\ credited = 0
    /\ requests = {} /\ changes = 0 /\ granted = {space} /\ trimmed = TRUE /\ lastSet = NoLimitSet

----------------------------------------------------------------------------
(* Queries.                                                                *)

findTierById(t) == t \in Tiers

findLimitByLabelAndTier(t, label) == TierLimits[t][label]

findLimitsByLabelAndTiers(T, label) == {TierLimits[t][label] : t \in T} \ {None}

\* Of several rows any is found.
findUserOverriddenLimit(label) == {o[2] : o \in {p \in overrides : p[1] = label}}

findLimitByLabelAndValue(label, v) == <<label, v>> \in Limits

\* What an account is asked for: what is overridden goes first.
getUserLimitByLabel(t, label) ==
    IF findUserOverriddenLimit(label) # {} THEN findUserOverriddenLimit(label)
    ELSE {findLimitByLabelAndTier(t, label)}

\* With no row versions are off.
getFileVersioningLimitsByTier(t) ==
    LET value(label) == {IF v = None THEN 0 ELSE v : v \in getUserLimitByLabel(t, label)}
    IN  [enabled : {e = 1 : e \in value("file-version-enabled")}, maxVersions : value("file-version-max-number")]

getFileVersioningLimits == getFileVersioningLimitsByTier(tier)

getMaxUploadFileSize(t) == getUserLimitByLabel(t, "max-upload-file-size")

\* The tier of the workspace it owns counts too.
getUserBussinessTiers == {businessTier} \ {None}

isFeatureEnabled(v) == v = 1

\* Where no tier has a row everybody has access.
canUserAccessPlatform(label) ==
    IF findUserOverriddenLimit(label) # {} THEN {isFeatureEnabled(v) : v \in findUserOverriddenLimit(label)}
    ELSE LET limits == findLimitsByLabelAndTiers({tier} \cup getUserBussinessTiers, label)
         IN  {limits = {} \/ \E v \in limits : isFeatureEnabled(v)}

\* A guard fails where there is no row at all.
enforceLimit(label) ==
    {v # None /\ (label \in Switches => isFeatureEnabled(v)) : v \in getUserLimitByLabel(tier, label)}

\* What an account is shown.
getFileLimits ==
    [versioning : getFileVersioningLimits, maxUploadFileSize : getMaxUploadFileSize(tier),
     photosAccess : {isFeatureEnabled(v) : v \in getUserLimitByLabel(tier, "photos-access")}]

hasUserBeenSubscribedAnyTime(hasSubscriptions) == hasSubscriptions \/ space > MAX_FREE_PLAN_BYTES

hasReferralsProgram(hasSubscriptions) == ~ hasUserBeenSubscribedAnyTime(hasSubscriptions)

----------------------------------------------------------------------------
(* Requests go on one at a time or interleave.                             *)

May == Quiet \/ Together

Begin(w) ==
    /\ Cardinality(requests) < MaxInFlight
    /\ requests' = requests \cup {[w EXCEPT !.nr = CHOOSE k \in 1 .. MaxInFlight : \A v \in requests : v.nr # k]}

Goes(w, to) == requests' = (requests \ {w}) \cup {to}

Done(w) == requests' = requests \ {w}

Changes == changes < MaxChanges /\ changes' = changes + 1

----------------------------------------------------------------------------
(* The plan changes.                                                       *)

\* PATCH users/:uuid with a tier, a space or both; a tier there is not is refused.
patchUser(t, s) ==
    /\ May /\ Changes
    /\ t = None \/ findTierById(t)
    /\ t # None \/ s # None
    /\ Begin([NewRequest("tier") EXCEPT !.space = s, !.tier = IF t = None THEN tier ELSE t])
    /\ UNCHANGED <<tier, businessTier, overrides, space, limitCache, tierCache, versions, pending, credited,
                   granted, trimmed, lastSet>>

\* Without a space nothing more is done.
updateUser(w) ==
    /\ w.op = "tier"
    /\ tier' = w.tier
    /\ trimmed' = (trimmed /\ tier' = tier)
    /\ IF w.space = None THEN Done(w) ELSE Goes(w, [w EXCEPT !.op = "storage"])
    /\ UNCHANGED <<businessTier, overrides, space, limitCache, tierCache, versions, pending, credited, changes,
                   granted, lastSet>>

\* The answer may be lost after the network has done what it was asked for.
updateUserStorage(w) ==
    /\ w.op = "storage"
    /\ \/ space' = w.space /\ granted' = granted \cup {w.space} /\ Goes(w, [w EXCEPT !.op = "expire"])
       \/ Failures /\ space' \in {space, w.space} /\ granted' = granted \cup {space'} /\ Done(w)
    /\ UNCHANGED <<tier, businessTier, overrides, limitCache, tierCache, versions, pending, credited, changes,
                   trimmed, lastSet>>

expireLimit(w) ==
    /\ w.op = "expire"
    /\ limitCache' = None
    /\ Goes(w, [w EXCEPT !.op = "remember"])
    /\ UNCHANGED <<tier, businessTier, overrides, space, tierCache, versions, pending, credited, changes, granted,
                   trimmed, lastSet>>

setUserStorageLimit(w) ==
    /\ w.op = "remember"
    /\ limitCache' = w.space
    /\ granted' = {w.space, space}
    /\ Goes(w, [w EXCEPT !.op = "limits"])
    /\ UNCHANGED <<tier, businessTier, overrides, space, tierCache, versions, pending, credited, changes, trimmed, lastSet>>

readVersioningLimits(w) ==
    /\ w.op = "limits"
    /\ \E l \in getFileVersioningLimitsByTier(w.tier) : Goes(w, [w EXCEPT !.op = "undo", !.limits = l])
    /\ UNCHANGED <<tier, businessTier, overrides, space, limitCache, tierCache, versions, pending, credited, changes,
                   granted, trimmed, lastSet>>

\* Mutant: one more is left.
undoesToTheLimit(w) ==
    /\ w.op = "undo"
    /\ versions' = IF ~ w.limits.enabled THEN 0
                   ELSE IF versions > w.limits.maxVersions + 1 THEN w.limits.maxVersions + 1 ELSE versions
    /\ trimmed' = TRUE
    /\ Done(w)
    /\ UNCHANGED <<tier, businessTier, overrides, space, limitCache, tierCache, pending, credited, changes, granted, lastSet>>

\* After three attempts it gives up.
undoFileVersioning(w) ==
    /\ w.op = "undo"
    /\ \/ /\ versions' = IF ~ w.limits.enabled THEN 0
                         ELSE IF versions > w.limits.maxVersions THEN w.limits.maxVersions ELSE versions
          /\ trimmed' = TRUE
       \/ Failures /\ UNCHANGED <<versions, trimmed>>
    /\ Done(w)
    /\ UNCHANGED <<tier, businessTier, overrides, space, limitCache, tierCache, pending, credited, changes, granted, lastSet>>

\* PUT users/:uuid/limits/overrides: a value some tier has; one row per value.
overrideLimitForUser(label, v) ==
    /\ May /\ Changes
    /\ findLimitByLabelAndValue(label, v)
    /\ Repeated \/ lastSet[label] = None
    /\ overrides' = overrides \cup {<<label, v>>}
    /\ lastSet' = [lastSet EXCEPT ![label] = v]
    /\ UNCHANGED <<tier, businessTier, space, limitCache, tierCache, versions, pending, credited, requests, granted,
                   trimmed>>

\* The names features have outside.
FeatureNameLimitMap == [cli |-> "cli-access", rclone |-> "rclone-access"]

overrideUserLimit(feature, v) ==
    feature \in DOMAIN FeatureNameLimitMap /\ overrideLimitForUser(FeatureNameLimitMap[feature], v)

\* A workspace is set up for it, or destroyed.
changeWorkspace(t) ==
    /\ May /\ Changes
    /\ businessTier' = t
    /\ UNCHANGED <<tier, overrides, space, limitCache, tierCache, versions, pending, credited, requests, granted,
                   trimmed, lastSet>>

----------------------------------------------------------------------------
(* What is asked for.                                                      *)

getSpaceLimit ==
    /\ May /\ limitCache = None
    /\ Begin([NewRequest("limit") EXCEPT !.space = space])
    /\ UNCHANGED <<tier, businessTier, overrides, space, limitCache, tierCache, versions, pending, credited, changes,
                   granted, trimmed, lastSet>>

rememberSpaceLimit(w) ==
    /\ w.op = "limit"
    /\ limitCache' = w.space
    /\ Done(w)
    /\ UNCHANGED <<tier, businessTier, overrides, space, tierCache, versions, pending, credited, changes, granted,
                   trimmed, lastSet>>

\* The size the check goes by: overridden, remembered or read.
enforcedUploadFileSize(t) ==
    IF findUserOverriddenLimit("max-upload-file-size") # {} THEN findUserOverriddenLimit("max-upload-file-size")
    ELSE IF tierCache[t] # None THEN {tierCache[t]}
    ELSE {findLimitByLabelAndTier(t, "max-upload-file-size")}

remembersTierLimit(t) ==
    tierCache' = [tierCache EXCEPT ![t] = findLimitByLabelAndTier(t, "max-upload-file-size")]

\* An upload is checked; only what is read from the table is remembered.
enforceMaxUploadFileSize ==
    /\ May
    /\ findUserOverriddenLimit("max-upload-file-size") = {} /\ tierCache[tier] = None
    /\ findLimitByLabelAndTier(tier, "max-upload-file-size") # None
    /\ remembersTierLimit(tier)
    /\ UNCHANGED <<tier, businessTier, overrides, space, limitCache, versions, pending, credited, requests, changes,
                   granted, trimmed, lastSet>>

\* A file is replaced.
isFileVersionable ==
    /\ May
    /\ \E l \in getFileVersioningLimits : l.enabled /\ Begin(NewRequest("retention"))
    /\ UNCHANGED <<tier, businessTier, overrides, space, limitCache, tierCache, versions, pending, credited, changes,
                   granted, trimmed, lastSet>>

\* The limits are read again, and the oldest versions go; where none may be kept it fails.
applyRetentionPolicy(w) ==
    /\ w.op = "retention"
    /\ \E l \in getFileVersioningLimits :
          IF l.maxVersions = 0 THEN Done(w) /\ UNCHANGED versions
          ELSE /\ versions' = IF versions >= l.maxVersions THEN l.maxVersions - 1 ELSE versions
               /\ Goes(w, [w EXCEPT !.op = "version"])
    /\ UNCHANGED <<tier, businessTier, overrides, space, limitCache, tierCache, pending, credited, changes, granted,
                   trimmed, lastSet>>

createFileVersion(w) ==
    /\ w.op = "version"
    /\ versions < MaxVersions
    /\ versions' = versions + 1
    /\ Done(w)
    /\ UNCHANGED <<tier, businessTier, overrides, space, limitCache, tierCache, pending, credited, changes, granted,
                   trimmed, lastSet>>

cacheExpires ==
    /\ limitCache # None \/ \E t \in Tiers : tierCache[t] # None
    /\ limitCache' \in {limitCache, None} /\ tierCache' \in {tierCache, [t \in Tiers |-> None]}
    /\ <<limitCache', tierCache'>> # <<limitCache, tierCache>>
    /\ UNCHANGED <<tier, businessTier, overrides, space, versions, pending, credited, requests, changes, granted,
                   trimmed, lastSet>>

----------------------------------------------------------------------------
(* Referrals.                                                              *)

\* Somebody who was invited signs up.
invitationAccepted ==
    /\ May
    /\ pending > 0 /\ \E hasSubscriptions \in BOOLEAN : hasReferralsProgram(hasSubscriptions)
    /\ Begin(NewRequest("apply"))
    /\ UNCHANGED <<tier, businessTier, overrides, space, limitCache, tierCache, versions, pending, credited, changes,
                   granted, trimmed, lastSet>>

\* The row that was found is written as applied, whoever wrote it meanwhile.
applyReferral(w) ==
    /\ w.op = "apply"
    /\ pending' = IF pending = 0 THEN 0 ELSE pending - 1
    /\ Goes(w, [w EXCEPT !.op = "credit"])
    /\ UNCHANGED <<tier, businessTier, overrides, space, limitCache, tierCache, versions, credited, changes, granted,
                   trimmed, lastSet>>

\* A failure of the network is only logged; what is remembered stays.
redeemUserReferral(w) ==
    /\ w.op = "credit"
    /\ credited' = credited + 1
    /\ \/ space' = space + Credit /\ granted' = granted \cup {space'}
       \/ Failures /\ UNCHANGED <<space, granted>>
    /\ Done(w)
    /\ UNCHANGED <<tier, businessTier, overrides, limitCache, tierCache, versions, pending, changes, trimmed, lastSet>>

----------------------------------------------------------------------------
Next ==
    \/ \E t \in Tiers \cup {None}, s \in Spaces \cup {None} : patchUser(t, s)
    \/ \E feature \in DOMAIN FeatureNameLimitMap, v \in {p[2] : p \in Limits} : overrideUserLimit(feature, v)
    \/ \E t \in Tiers \cup {None} : changeWorkspace(t)
    \/ getSpaceLimit \/ enforceMaxUploadFileSize \/ isFileVersionable \/ cacheExpires \/ invitationAccepted
    \/ \E w \in requests :
          \/ updateUser(w) \/ updateUserStorage(w) \/ expireLimit(w) \/ setUserStorageLimit(w)
          \/ readVersioningLimits(w) \/ undoFileVersioning(w) \/ rememberSpaceLimit(w)
          \/ applyRetentionPolicy(w) \/ createFileVersion(w) \/ applyReferral(w) \/ redeemUserReferral(w)

Spec == Init /\ [][Next]_planVars

----------------------------------------------------------------------------
(* Properties.                                                             *)

\* Rows are those of the tables; values of limits are those of some tier.
TypeOK ==
    /\ tier \in Tiers /\ businessTier \in Tiers \cup {None}
    /\ overrides \subseteq UserOverriddenLimitRow
    /\ \A t \in Tiers : tierCache[t] # None => <<"max-upload-file-size", tierCache[t]>> \in Limits
    /\ versions \in 0 .. MaxVersions /\ pending \in 0 .. Referrals
    /\ Cardinality(requests) <= MaxInFlight

\* Once a change of plan was carried out a file has no more versions than the plan keeps.
VersionsWithinPlan ==
    Quiet /\ trimmed =>
        \A l \in getFileVersioningLimits : versions <= (IF l.enabled THEN l.maxVersions ELSE 0)

\* The space remembered is one that was granted by this plan or since.
SpaceOfThisPlan == Quiet /\ limitCache # None => limitCache \in granted

\* What is refused is what was shown not to be allowed: an upload by its size, whichever way
\* that is found, and the photos, by the guard in front of them.
ShownIsEnforced ==
    \A shown \in getFileLimits :
        /\ shown.maxUploadFileSize \in enforcedUploadFileSize(tier)
        /\ shown.photosAccess \in enforceLimit("photos-access")

\* A referral is credited once.
ReferralsCreditedOnce == credited <= Referrals - pending

\* The limit that was set for an account is the one it is asked for.
LimitSetIsInForce ==
    \A label \in {"cli-access", "rclone-access"} :
        lastSet[label] # None => canUserAccessPlatform(label) = {isFeatureEnabled(lastSet[label])}

=============================================================================
