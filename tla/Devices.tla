-------------------------------- MODULE Devices --------------------------------
(***************************************************************************)
(* Backups and photos.  What a device backs up is a folder without parent  *)
(* in a bucket of its own kind, made when it is first needed; a row of     *)
(* table devices names its folder.  Folder and row are made, renamed and   *)
(* deleted one after the other, without a transaction; folders can be      *)
(* reached without their rows, too.  Legacy devices have contents instead. *)
(***************************************************************************)
EXTENDS Integers, FiniteSets

CONSTANTS
    Keys, Hosts, Platforms, Names,
    Contents,     \* of a legacy device
    MaxFolders,   \* bound: folders made
    MaxDevices,   \* bound: rows of devices
    MaxBuckets,   \* bound: buckets made
    MaxInFlight,  \* bound: requests at work
    Together,     \* may requests interleave?
    Crashes,      \* may a request stop half way?
    Trash,        \* may folders of devices be moved to the trash?
    Unactivated,  \* may folders be deleted as devices before there is a bucket?
    Legacy        \* is this about legacy devices?

VARIABLES
    user,       \* buckets of the user
    buckets,    \* made by the network so far
    folders,    \* table folders: those of devices, and 0 of the drive
    devices,    \* table devices
    backups,    \* table backups: contents of the legacy device
    legacy,     \* is the legacy device there?
    stored,     \* contents the network has
    forgotten,  \* history: contents whose row alone was deleted
    requests

deviceVars == <<user, buckets, folders, devices, backups, legacy, stored, forgotten, requests>>

----------------------------------------------------------------------------
None == -1

Kinds == {"backups", "photos"}

\* One folder of the drive below its root stands for all: it has no bucket.
DriveFolder == 0

FolderIds == 0 .. MaxFolders

DeviceIds == 1 .. MaxDevices

NoFolder == [status |-> "NONE", bucket |-> None, name |-> None]

\* Without a key, or without a name of its host, a default stands there.
DeviceRow == [key : Keys \cup {None}, hostname : Hosts \cup {None}, platform : Platforms, name : Names,
              folderUuid : FolderIds]

NoDevice == [folderUuid |-> None]

Init ==
    /\ user = [k \in Kinds |-> None] /\ buckets = 0
    /\ folders = [f \in FolderIds |-> IF f = DriveFolder THEN [NoFolder EXCEPT !.status = "EXISTS"] ELSE NoFolder]
    /\ devices = [d \in DeviceIds |-> NoDevice]
    /\ backups = Contents /\ legacy = Legacy /\ stored = Contents /\ forgotten = {}
    /\ requests = {}

----------------------------------------------------------------------------
(* Queries.                                                                *)

Registered == {d \in DeviceIds : devices[d] # NoDevice}

hasBucketEnabled(k) == user[k] # None

Visible == {f \in FolderIds : folders[f].status = "EXISTS"}

\* A folder of the user that is neither removed nor in the trash.
getFolderByUuid(f) == f \in Visible

verifyFolderIsPhotoDevice(f) == folders[f].bucket = user["photos"]

findFolderByName(bucket, n) == {f \in Visible : folders[f].bucket = bucket /\ folders[f].name = n}

getFoldersByUserId(k) == {f \in Visible : folders[f].bucket = user[k]}

getDevicesAsFolder == IF hasBucketEnabled("backups") THEN getFoldersByUserId("backups") ELSE {}

getPhotoDevicesAsFolder == IF hasBucketEnabled("photos") THEN getFoldersByUserId("photos") ELSE {}

findUserDevicesBy == Registered

findOneUserDeviceBy(f) == {d \in Registered : devices[d].folderUuid = f}

findOneUserDeviceByName(n) == {d \in Registered : devices[d].name = n}

findDeviceByUserAndKey(k) == {d \in Registered : devices[d].key = k}

findConflictingUserDevice(row) ==
    {d \in Registered : /\ devices[d].platform = row.platform
                        /\ \/ row.key # None /\ devices[d].key = row.key
                           \/ row.hostname # None /\ devices[d].hostname = row.hostname
                           \/ devices[d].name = row.name}

\* Devices are shown with their folders, or without if these are gone.
getUserDevices == [d \in findUserDevicesBy |-> {f \in Visible : f = devices[d].folderUuid}]

----------------------------------------------------------------------------
Quiet == requests = {}

May == Quiet \/ Together

NewRequest(op) ==
    [nr |-> 0, op |-> op, kind |-> "backups", bucket |-> None, then |-> "none", row |-> CHOOSE r \in DeviceRow : r.key = None, name |-> None,
     folder |-> None, device |-> None, contents |-> {}]

Begin(w) ==
    /\ Cardinality(requests) < MaxInFlight
    /\ requests' = requests \cup {[w EXCEPT !.nr = CHOOSE k \in 1 .. MaxInFlight : \A v \in requests : v.nr # k]}

Goes(w, to) == requests' = (requests \ {w}) \cup {to}

Done(w) == requests' = requests \ {w}

rows == <<user, buckets, folders, devices>>

contents == <<backups, legacy, stored, forgotten>>

requestDies(w) == Crashes /\ Done(w) /\ UNCHANGED <<rows, contents>>

----------------------------------------------------------------------------
(* Buckets, one of each kind.                                              *)

activate(k) ==
    /\ May /\ ~ hasBucketEnabled(k)
    /\ Begin([NewRequest("bucket") EXCEPT !.kind = k])
    /\ UNCHANGED <<rows, contents>>

createBucket(w) ==
    /\ w.op = "bucket" /\ buckets < MaxBuckets
    /\ buckets' = buckets + 1
    /\ Goes(w, [w EXCEPT !.op = "saveBucket", !.bucket = buckets + 1])
    /\ UNCHANGED <<user, folders, devices, contents>>

saveBucket(w) ==
    /\ w.op = "saveBucket"
    /\ user' = [user EXCEPT ![w.kind] = w.bucket]
    /\ IF w.name = None THEN Done(w) ELSE Goes(w, [w EXCEPT !.op = "findName"])
    /\ UNCHANGED <<buckets, folders, devices, contents>>

----------------------------------------------------------------------------
(* Devices are made.                                                       *)

MakesFolder(k, n, w) ==
    Begin([w EXCEPT !.kind = k, !.name = n, !.bucket = user[k],
                    !.op = IF hasBucketEnabled(k) THEN "findName" ELSE "bucket"])

createDeviceAsFolder(k, n) ==
    /\ May
    /\ MakesFolder(k, n, NewRequest("findName"))
    /\ UNCHANGED <<rows, contents>>

\* A key or the name of the host is required; nothing like it may be there.
createDeviceAndFolder(row) ==
    /\ May
    /\ row.key # None \/ row.hostname # None
    /\ findConflictingUserDevice(row) = {}
    /\ MakesFolder("backups", row.name, [NewRequest("findName") EXCEPT !.then = "device", !.row = row])
    /\ UNCHANGED <<rows, contents>>

findName(w) ==
    /\ w.op = "findName"
    /\ IF findFolderByName(w.bucket, w.name) # {} THEN Done(w) ELSE Goes(w, [w EXCEPT !.op = "folder"])
    /\ UNCHANGED <<rows, contents>>

createFolder(w) ==
    /\ w.op = "folder"
    /\ \E f \in FolderIds \ {DriveFolder} :
          /\ folders[f] = NoFolder
          /\ \A g \in 1 .. f - 1 : folders[g] # NoFolder
          /\ folders' = [folders EXCEPT ![f] = [status |-> "EXISTS", bucket |-> w.bucket, name |-> w.name]]
          /\ IF w.then = "device" THEN Goes(w, [w EXCEPT !.op = "device", !.row.folderUuid = f]) ELSE Done(w)
    /\ UNCHANGED <<user, buckets, devices, contents>>

devices_key_platform_user_unique(row) ==
    \A d \in Registered : row.key = None \/ <<devices[d].key, devices[d].platform>> # <<row.key, row.platform>>

createDevice(w) ==
    /\ w.op = "device"
    /\ IF devices_key_platform_user_unique(w.row)
         THEN \E d \in DeviceIds : /\ devices[d] = NoDevice /\ \A v \in requests : v.device # d
                                   /\ \A e \in 1 .. d - 1 : devices[e] # NoDevice
                                   /\ devices' = [devices EXCEPT ![d] = w.row]
         ELSE UNCHANGED devices
    /\ Done(w)
    /\ UNCHANGED <<user, buckets, folders, contents>>

createDeviceForExistingFolder(row) ==
    /\ May /\ hasBucketEnabled("backups")
    /\ row.key # None \/ row.hostname # None
    /\ findConflictingUserDevice(row) = {} /\ findOneUserDeviceBy(row.folderUuid) = {}
    /\ getFolderByUuid(row.folderUuid) /\ folders[row.folderUuid].bucket = user["backups"]
    /\ Begin([NewRequest("device") EXCEPT !.row = row])
    /\ UNCHANGED <<rows, contents>>

----------------------------------------------------------------------------
(* Devices are deleted.                                                    *)

\* Mutant: the row of the device stays.
deletesFolderOnly(f) ==
    /\ May /\ getFolderByUuid(f) /\ folders[f].bucket = user["backups"]
    /\ hasBucketEnabled("backups") \/ Unactivated
    /\ Begin([NewRequest("removeFolder") EXCEPT !.folder = f])
    /\ UNCHANGED <<rows, contents>>

\* A folder and a user without a bucket are said to have the same.
deleteDeviceAsFolder(f) ==
    /\ May /\ getFolderByUuid(f) /\ folders[f].bucket = user["backups"]
    /\ hasBucketEnabled("backups") \/ Unactivated
    /\ Begin([NewRequest("removeFolder") EXCEPT !.folder = f, !.then = "deviceOfFolder"])
    /\ UNCHANGED <<rows, contents>>

deletePhotoDeviceAsFolder(f) ==
    /\ May /\ getFolderByUuid(f) /\ verifyFolderIsPhotoDevice(f)
    /\ hasBucketEnabled("photos") \/ Unactivated
    /\ Begin([NewRequest("removeFolder") EXCEPT !.folder = f])
    /\ UNCHANGED <<rows, contents>>

\* The folder must be found, whatever its bucket.
deleteDeviceAndFolderByKey(d) ==
    /\ May /\ d \in Registered /\ devices[d].key # None
    /\ getFolderByUuid(devices[d].folderUuid)
    /\ LET f == devices[d].folderUuid
       IN  Begin([NewRequest(IF folders[f].bucket = user["backups"] THEN "removeFolder" ELSE "deleteDevice") EXCEPT
                      !.folder = f, !.device = d, !.then = "device"])
    /\ UNCHANGED <<rows, contents>>

deleteByUser(w) ==
    /\ w.op = "removeFolder"
    /\ folders' = [folders EXCEPT ![w.folder].status = "DELETED"]
    /\ CASE w.then = "deviceOfFolder" -> Goes(w, [w EXCEPT !.op = "deleteDevices"])
         [] w.then = "device" -> Goes(w, [w EXCEPT !.op = "deleteDevice"])
         [] OTHER -> Done(w)
    /\ UNCHANGED <<user, buckets, devices, contents>>

deleteDevicesBy(w) ==
    /\ w.op \in {"deleteDevices", "deleteDevice"}
    /\ devices' = [d \in DeviceIds |->
                      IF d \in Registered /\ (IF w.op = "deleteDevice" THEN d = w.device
                                              ELSE devices[d].folderUuid = w.folder)
                      THEN NoDevice ELSE devices[d]]
    /\ Done(w)
    /\ UNCHANGED <<user, buckets, folders, contents>>

\* The trash removes folders of devices at once and does not know the rows.
moveFoldersToTrash(f) ==
    /\ May /\ Trash /\ f \in Visible \ {DriveFolder}
    /\ folders' = [folders EXCEPT ![f].status = "DELETED"]
    /\ UNCHANGED <<user, buckets, devices, contents, requests>>

\* When an account is reset or deactivated.
deleteUserBackups ==
    /\ Quiet /\ (legacy \/ Registered # {})
    /\ devices' = [d \in DeviceIds |-> NoDevice]
    /\ legacy' = FALSE /\ forgotten' = forgotten \cup backups /\ backups' = {}
    /\ UNCHANGED <<user, buckets, folders, stored, requests>>

----------------------------------------------------------------------------
(* Devices get another name.                                               *)

updateDeviceAndFolderNameByKey(d, n) ==
    /\ May /\ d \in Registered /\ devices[d].key # None
    /\ findOneUserDeviceByName(n) = {} /\ findFolderByName(user["backups"], n) = {}
    /\ getFolderByUuid(devices[d].folderUuid)
    /\ Begin([NewRequest("renameFolder") EXCEPT !.folder = devices[d].folderUuid, !.device = d, !.name = n])
    /\ UNCHANGED <<rows, contents>>

updateOneAndReturn(w) ==
    /\ w.op = "renameFolder"
    /\ folders' = [folders EXCEPT ![w.folder].name = w.name]
    /\ Goes(w, [w EXCEPT !.op = "renameDevice"])
    /\ UNCHANGED <<user, buckets, devices, contents>>

updateDeviceName(w) ==
    /\ w.op = "renameDevice"
    /\ devices' = IF w.device \in Registered THEN [devices EXCEPT ![w.device].name = w.name] ELSE devices
    /\ Done(w)
    /\ UNCHANGED <<user, buckets, folders, contents>>

\* Any folder, and any name.
updateDeviceAsFolder(f, n) ==
    /\ May /\ getFolderByUuid(f)
    /\ folders' = [folders EXCEPT ![f].name = n]
    /\ UNCHANGED <<user, buckets, devices, contents, requests>>

updatePhotoDeviceAsFolder(f, n) == verifyFolderIsPhotoDevice(f) /\ updateDeviceAsFolder(f, n)

----------------------------------------------------------------------------
(* Legacy devices.                                                         *)

getAllLegacyDevices == IF legacy THEN backups ELSE {}

deleteDevice ==
    /\ May /\ legacy
    /\ Begin([NewRequest("contents") EXCEPT !.contents = backups])
    /\ UNCHANGED <<rows, contents>>

\* All of them are tried, and one that fails is enough to fail.
deleteFile(w) ==
    /\ w.op = "contents"
    /\ \E S \in SUBSET w.contents :
          /\ stored' = stored \ S
          /\ IF S = w.contents THEN Goes(w, [w EXCEPT !.op = "rows"]) ELSE Done(w)
    /\ UNCHANGED <<rows, backups, legacy, forgotten>>

deleteBackupsBy(w) ==
    /\ w.op = "rows"
    /\ backups' = {}
    /\ Goes(w, [w EXCEPT !.op = "row"])
    /\ UNCHANGED <<rows, legacy, stored, forgotten>>

deleteLegacyDevice(w) ==
    /\ w.op = "row"
    /\ legacy' = FALSE
    /\ Done(w)
    /\ UNCHANGED <<rows, backups, stored, forgotten>>

\* The content stays.
deleteBackup(c) ==
    /\ May /\ c \in backups
    /\ backups' = backups \ {c} /\ forgotten' = forgotten \cup {c}
    /\ UNCHANGED <<rows, legacy, stored, requests>>

----------------------------------------------------------------------------
LegacyNext ==
    \/ deleteDevice \/ \E c \in Contents : deleteBackup(c)
    \/ \E w \in requests : deleteFile(w) \/ deleteBackupsBy(w) \/ deleteLegacyDevice(w)

FoldersNext ==
    \/ \E k \in Kinds : activate(k) \/ \E n \in Names : createDeviceAsFolder(k, n)
    \/ \E row \in DeviceRow : (row.folderUuid = DriveFolder /\ createDeviceAndFolder(row)) \/ createDeviceForExistingFolder(row)
    \/ \E d \in DeviceIds : deleteDeviceAndFolderByKey(d) \/ \E n \in Names : updateDeviceAndFolderNameByKey(d, n)
    \/ \E f \in FolderIds :
          \/ deleteDeviceAsFolder(f) \/ deletePhotoDeviceAsFolder(f) \/ moveFoldersToTrash(f)
          \/ \E n \in Names : updateDeviceAsFolder(f, n) \/ updatePhotoDeviceAsFolder(f, n)
    \/ \E w \in requests :
          \/ createBucket(w) \/ saveBucket(w) \/ findName(w) \/ createFolder(w) \/ createDevice(w)
          \/ deleteByUser(w) \/ deleteDevicesBy(w) \/ updateOneAndReturn(w) \/ updateDeviceName(w)

Next ==
    \/ Legacy /\ LegacyNext
    \/ ~ Legacy /\ FoldersNext
    \/ deleteUserBackups
    \/ \E w \in requests : requestDies(w)

Spec == Init /\ [][Next]_deviceVars

----------------------------------------------------------------------------
(* Properties.                                                             *)

\* Rows are those of the tables, and buckets those the network made.
TypeOK ==
    /\ \A d \in Registered : devices[d] \in DeviceRow
    /\ \A f \in FolderIds : folders[f].bucket \in {None} \cup 1 .. buckets
    /\ \A k \in Kinds : user[k] \in {None} \cup 1 .. buckets
    /\ backups \subseteq Contents /\ Cardinality(requests) <= MaxInFlight

\* A device that is listed has a folder that is there: it can be shown, renamed, and deleted
\* to be registered anew.
NoOrphanedDevices == Quiet => \A d \in Registered : getUserDevices[d] # {}

\* A folder is the one of one device, and is listed among the folders of devices.
FoldersOfTheirDevices ==
    Quiet => \A d, e \in Registered :
                /\ devices[d].folderUuid = devices[e].folderUuid => d = e
                /\ getUserDevices[d] \subseteq getDevicesAsFolder

\* A key, the name of a host and a name tell devices of a platform apart.
DevicesToldApart ==
    Quiet => \A d \in Registered : findConflictingUserDevice(devices[d]) = {d}

\* Whatever happens at the same time, a platform has one device with a key.
KeysUnique ==
    \A d, e \in Registered :
        devices[d].key # None /\ devices[d].key = devices[e].key /\ devices[d].platform = devices[e].platform => d = e

\* A legacy device is deleted after all contents it had.
ContentsGoFirst == Legacy /\ ~ legacy => stored \subseteq forgotten

\* Folders of the drive are none of a device's, and not deleted as such.
DriveFoldersKept == folders[DriveFolder].status = "EXISTS"

=============================================================================
