CONSTANTS
    r1 = r1
    r2 = r2
    c1 = c1
    c2 = c2
    Null = Null
    Deleted = Deleted
    Spaces = {s1}
    Ids <- MCIds
    Times = {1, 2, 3}
    Days = {0, 1}
    Bookers = {b1}
    Releasers = {c1}
    LastNow = 1
SYMMETRY Symmetry
SPECIFICATION Spec
INVARIANTS
    TypeOK
    NoDoubleBooking
    RemovedSpaceWasFree
