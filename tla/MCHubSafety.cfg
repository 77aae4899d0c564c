\* Three clients and connections, a room for two or for nobody, and a client that stays away.
CONSTANTS
    c1 = c1
    Client = {c1, c2, c3}
    Socket = {s1, s2, s3}
    Room = {r1}
    Agent = {a1}
    Owner <- MCOwner
    None = none
    Limits = {0, 2}
    Crashing = TRUE
SPECIFICATION FairSpec
INVARIANT TypeOK
INVARIANT IndexSound
INVARIANT FeedsAreAlive
INVARIANT RoomsInOrder
INVARIANT OnlineMeansConnected
PROPERTY GoneMeansOffline
CHECK_DEADLOCK FALSE
