SPECIFICATION MCSpec
CONSTANTS
    Users = {o, a, b}
    Owner = o
    Elsewhere = {b}
    Teams = {dt, t, s}
    DefaultTeam = dt
    Items = {i}
    MaxTeams = 2
    MaxMembers = 1
    MaxRows = 2
    MaxInFlight = 2
    Crashes = TRUE
    RacingUsers = {o, a}
    RacingTeams = {dt, t}
    RacingIds = {r, x}
    Members = {a}
    Ids = {r, x, y, z}
    OwnerRoot = r
    WorkspaceRoot = wr
    NoOne = no
    OwnerLimit = 2
    Chunk = 1
    MaxTasks = 2
SYMMETRY Symmetry
CHECK_DEADLOCK FALSE
INVARIANTS TeamsCoherent NothingLostWithItsMemberAlone EmptyingSound
