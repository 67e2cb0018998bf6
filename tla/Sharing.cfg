SPECIFICATION MCSpec
CONSTANTS
    Files = {f}
    Folders = {d}
    Owner = o
    Invitees = {a, b, g}
    Guests = {g}
    Roles = {viewer}
    Anyone = anyone
    NoRole = none
    Limit = 2
    MaxRows = 2
    MaxInFlight = 2
    NavFolders = {r, s, c, x}
    Root = r
    Shared = {s}
    Teams = {t1, t2}
    Public = p
    NoFolder = null
    NoToken = none
    MaxMoves = 1
CHECK_DEADLOCK FALSE
INVARIANTS NobodyUninvited  WalkFollowsSharings
