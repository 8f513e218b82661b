CONSTANTS
    a = a
    b = b
    u1 = u1
    u2 = u2
    m1 = m1
    m2 = m2
    p1 = p1
    p2 = p2
    Null = Null
    Rooms <- MCRooms
    Users <- MCUsers
    Messages <- MCMessages
    Requests <- MCRequests
    Tidy <- MCTidy
SYMMETRY Symmetry
SPECIFICATION Spec
INVARIANTS
    TypeOK
    UnreadNeverOvercounts
    UnreadExact
    DirectRoomsConverge
    CountedAreNotified
