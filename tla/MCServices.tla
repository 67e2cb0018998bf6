----------------------------- MODULE MCServices -----------------------------
(***************************************************************************)
(* Plans, SpaceUsage, TierMigrations, Devices and SendLinks for TLC: part  *)
(* tells which of them a behaviour is about and which requests interleave. *)
(***************************************************************************)
EXTENDS Plans, TLC

CONSTANTS free, premium, business, Files, mac, windows

VARIABLES
    part,
    today, files, usages, cache, locks, usageRequests, recent,
    tables, done, crashes, undone, stuck,
    user, buckets, folders, devices, backups, legacy, stored, forgotten, deviceRequests,
    now, links, items, sent, mailed, opened, linkRequests

usageVars == <<today, files, usages, cache, locks, usageRequests, recent>>

migrationVars == <<tables, done, crashes, undone, stuck>>

deviceVars == <<user, buckets, folders, devices, backups, legacy, stored, forgotten, deviceRequests>>

linkVars == <<now, links, items, sent, mailed, opened, linkRequests>>

LimitsRow(enabled, number, size, clients, photos) ==
    [l \in Labels |->
        CASE l = "file-version-enabled" -> enabled [] l = "file-version-max-number" -> number
          [] l = "max-upload-file-size" -> size [] l = "photos-access" -> photos [] OTHER -> clients]

LimitsOfTiers ==
    free :> LimitsRow(0, 0, 1, 0, 0) @@ premium :> LimitsRow(1, 2, 2, 1, 1)
        @@ business :> LimitsRow(1, 1, None, 0, None)

PlansTogether == INSTANCE Plans WITH MaxInFlight <- 2, MaxChanges <- 1, Together <- TRUE, Failures <- FALSE

UsageAlone ==
    INSTANCE SpaceUsage WITH
        Sizes <- {0, 2}, Uploads <- {1, 2}, DaysPerMonth <- 2, MaxDay <- 3, MaxInFlight <- 1,
        Overlap <- "none", Hasty <- FALSE, Versioned <- FALSE, requests <- usageRequests

UsageWhileUploading ==
    INSTANCE SpaceUsage WITH
        Sizes <- {2}, Uploads <- {1}, DaysPerMonth <- 2, MaxDay <- 3, MaxInFlight <- 2,
        Overlap <- "usage", Hasty <- FALSE, Versioned <- FALSE, requests <- usageRequests

UsageRetried ==
    INSTANCE SpaceUsage WITH
        Sizes <- {0, 2}, Uploads <- {1}, DaysPerMonth <- 2, MaxDay <- 2, MaxInFlight <- 2,
        Overlap <- "retry", Hasty <- FALSE, Versioned <- FALSE, requests <- usageRequests

Migrations ==
    INSTANCE TierMigrations WITH
        FREE_INDIVIDUAL_TIER_ID <- <<"10gb_individual", 0>>, MaxCrashes <- 1, MaxUndone <- 2

DevicesAlone ==
    INSTANCE Devices WITH
        Keys <- {1}, Hosts <- {}, Platforms <- {mac, windows}, Names <- {1, 2}, Contents <- {1, 2},
        MaxFolders <- 2, MaxDevices <- 2, MaxBuckets <- 2, MaxInFlight <- 1, Together <- FALSE, Crashes <- FALSE,
        Trash <- FALSE, Unactivated <- FALSE, Legacy <- FALSE, requests <- deviceRequests

DevicesDying ==
    INSTANCE Devices WITH
        Keys <- {1}, Hosts <- {1}, Platforms <- {mac}, Names <- {1, 2}, Contents <- {1, 2},
        MaxFolders <- 2, MaxDevices <- 2, MaxBuckets <- 2, MaxInFlight <- 1, Together <- FALSE, Crashes <- TRUE,
        Trash <- TRUE, Unactivated <- FALSE, Legacy <- FALSE, requests <- deviceRequests

DevicesTogether ==
    INSTANCE Devices WITH
        Keys <- {1}, Hosts <- {}, Platforms <- {mac}, Names <- {1}, Contents <- {1, 2},
        MaxFolders <- 2, MaxDevices <- 2, MaxBuckets <- 2, MaxInFlight <- 2, Together <- TRUE, Crashes <- FALSE,
        Trash <- FALSE, Unactivated <- FALSE, Legacy <- FALSE, requests <- deviceRequests

LegacyDevices ==
    INSTANCE Devices WITH
        Keys <- {1}, Hosts <- {}, Platforms <- {mac}, Names <- {1}, Contents <- {1, 2},
        MaxFolders <- 2, MaxDevices <- 2, MaxBuckets <- 2, MaxInFlight <- 2, Together <- TRUE, Crashes <- TRUE,
        Trash <- FALSE, Unactivated <- FALSE, Legacy <- TRUE, requests <- deviceRequests

LinksAlone ==
    INSTANCE SendLinks WITH
        Links <- 1 .. 2, Items <- 1 .. 3, Folders <- {1}, parent_folder <- <<-1, 1, -1>>, size <- <<2, 2, 1>>,
        DAILY_LIMIT <- 2, Day <- 2, Expires <- 0, MaxTime <- 1, MaxOpened <- 1, MaxInFlight <- 1,
        requests <- linkRequests

LinksTogether ==
    INSTANCE SendLinks WITH
        Links <- 1 .. 2, Items <- 1 .. 3, Folders <- {1}, parent_folder <- <<-1, 1, -1>>, size <- <<2, 2, 1>>,
        DAILY_LIMIT <- 2, Day <- 2, Expires <- 2, MaxTime <- 0, MaxOpened <- 0, MaxInFlight <- 2,
        requests <- linkRequests

\* The parts a behaviour is not about do not move.
MCInit ==
    /\ part \in {"plans alone", "plans together", "usage alone", "usage while uploading", "usage retried",
                 "migrations", "devices alone", "devices dying", "devices together", "legacy devices",
                 "links alone", "links together"}
    /\ Init /\ UsageAlone!Init /\ Migrations!Init /\ LinksAlone!Init
    /\ IF part = "legacy devices" THEN LegacyDevices!Init ELSE DevicesAlone!Init
    /\ part \notin {"plans alone", "plans together"} => tier = free /\ space = 1

MCNext ==
    /\ UNCHANGED part
    /\ \/ /\ \/ part = "plans alone" /\ Next
             \/ part = "plans together" /\ PlansTogether!Next
          /\ UNCHANGED <<usageVars, migrationVars, deviceVars, linkVars>>
       \/ /\ \/ part = "usage alone" /\ UsageAlone!Next
             \/ part = "usage while uploading" /\ UsageWhileUploading!Next
             \/ part = "usage retried" /\ UsageRetried!Next
          /\ UNCHANGED <<planVars, migrationVars, deviceVars, linkVars>>
       \/ /\ part = "migrations" /\ Migrations!Next
          /\ UNCHANGED <<planVars, usageVars, deviceVars, linkVars>>
       \/ /\ \/ part = "devices alone" /\ DevicesAlone!Next
             \/ part = "devices dying" /\ DevicesDying!Next
             \/ part = "devices together" /\ DevicesTogether!Next
             \/ part = "legacy devices" /\ LegacyDevices!Next
          /\ UNCHANGED <<planVars, usageVars, migrationVars, linkVars>>
       \/ /\ \/ part = "links alone" /\ LinksAlone!Next
             \/ part = "links together" /\ LinksTogether!Next
          /\ UNCHANGED <<planVars, usageVars, migrationVars, deviceVars>>

MCSpec == MCInit /\ [][MCNext]_<<part, planVars, usageVars, migrationVars, deviceVars, linkVars>>

About == CASE part \in {"plans alone", "plans together"} -> "plans"
           [] part \in {"usage alone", "usage while uploading", "usage retried"} -> "usage"
           [] part \in {"links alone", "links together"} -> "links"
           [] part = "migrations" -> "migrations"
           [] OTHER -> "devices"

\* What is shown to be allowed is what is enforced, and a limit set for an account
\* is the one it is asked for.  With requests one at a time a file has no more
\* versions than a new plan keeps, the space remembered is this plan's, and a
\* referral is credited once.
PlanInForce ==
    /\ ShownIsEnforced /\ LimitSetIsInForce
    /\ part = "plans alone" => VersionsWithinPlan /\ SpaceOfThisPlan /\ ReferralsCreditedOnce

\* The rows of every day, the replacements and the time since sum up to the sizes
\* of the files there are, whatever overlaps; and what is remembered was true
\* after the last upload, with requests one at a time.
UsageIsSumOfFiles ==
    /\ About = "usage" => UsageAlone!UsageIsSumOfFiles
    /\ part = "usage alone" => UsageAlone!RememberedSinceUpload

\* Migrations that were not disturbed can be applied, undone and applied again and
\* serve every tier; however often they died, no tier has two values of a limit.
TiersServed ==
    About = "migrations" =>
        Migrations!NeverStuckAlone /\ Migrations!EveryTierServedAlone /\ Migrations!OneValueEach

\* A platform has one device with a key, folders of the drive stay, and contents
\* go before the backup they are of, whatever races.  With requests one at a time
\* a listed device has its folder and no other's, and names tell devices apart.
DevicesHaveTheirFolders ==
    /\ About = "devices" => DevicesAlone!KeysUnique /\ DevicesAlone!DriveFoldersKept
    /\ About = "devices" /\ part # "devices together" =>
          DevicesAlone!FoldersOfTheirDevices /\ DevicesAlone!DevicesToldApart
    /\ part = "devices alone" => DevicesAlone!NoOrphanedDevices
    /\ part = "legacy devices" => LegacyDevices!ContentsGoFirst

\* However many links are made at once, fewer than the limit are mailed in a day,
\* and a link holds all that was to be sent, whose size its page and its mail tell.
LinksSentWhole ==
    /\ About = "links" => LinksAlone!MailsWithinDailyLimit /\ LinksAlone!SentIsWhole /\ LinksAlone!SizesAgree
    /\ part = "links alone" => LinksAlone!ViewsCounted

=============================================================================
