\* A client, its second connection and a third party; pages of one message.
CONSTANTS
    Client = {c1, c2}
    Socket = {s1, s2, s3}
    None = none
    Crashing = TRUE
    Message = {m1, m2}
    MinStamp <- MCMinStamp
    MaxStamp = 2
    Limit = 1
SPECIFICATION Spec
SYMMETRY MCSymmetry
INVARIANT TypeOK
INVARIANT MembersReached
INVARIANT NoGap
CHECK_DEADLOCK FALSE
