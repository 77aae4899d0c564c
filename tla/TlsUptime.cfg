SPECIFICATION TlsSpec
CONSTANTS
    Device = {d1}
    Validity = 4
    RenewBefore = 1
    Missing = Missing
    Unreadable = Unreadable
    MaxDay = 7
    MaxKeys = 3
INVARIANT RenewsItself
CHECK_DEADLOCK FALSE
