\* The close event of a connection that was replaced.
CONSTANTS
    c1 = c1
    Client = {c1}
    Socket = {s1, s2}
    Room = {r1}
    Agent = {a1}
    Owner <- MCOwner
    None = none
    Limits = {1}
    Crashing = FALSE
SPECIFICATION Spec
INVARIANT IndexCoversClients
CHECK_DEADLOCK FALSE
