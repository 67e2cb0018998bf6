SPECIFICATION MCSpec
CONSTANTS
    Users = {o, u1, u2}
    Owner = o
    Plans <- FourPlans
    Spaces = {1, 2}
    MaxUse = 1
    MaxLimit = 3
    MaxInvites = 2
    MaxInFlight = 2
SYMMETRY MemberSymmetry
CONSTRAINT NothingExcused
INVARIANTS TypeOK SpaceAccountedAlone
PROPERTIES SeatsBounded
