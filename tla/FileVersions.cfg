SPECIFICATION Spec
CONSTANTS
    Contents = {1, 2, 3, 4, 5, 6, 7}
    Empty = Empty
    MaxVersions = 2
    MaxInFlight = 2
    MaxRows = 6
CONSTRAINT Focus
INVARIANTS TypeOK DeletedVersionsQueued VersionsBounded ContentsTrackedAlone
CHECK_DEADLOCK FALSE
