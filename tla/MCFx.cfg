SPECIFICATION FairSpec
CONSTANTS
    l1 = l1  l2 = l2  l3 = l3
    u1 = u1  u2 = u2
    short = short  full = full
    p1 = p1  p2 = p2
    w1 = w1  w2 = w2
    None = None
    Locks = {l1, l2, l3}
    Owner <- MCOwner
    AmountSent <- MCAmountSent
    Column <- MCColumn
    ExpiresAt <- MCExpiresAt
    Horizon = 2
    Requests <- MCRequests
    Procs = {p1, p2}
    Sweepers = {w1, w2}
    Limit = 0
CHECK_DEADLOCK FALSE
INVARIANTS
    TypeOK
    EndsOneWay
PROPERTY
    EveryLockEnds
