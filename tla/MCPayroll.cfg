\* Once every batch is over nothing is left to do.
CHECK_DEADLOCK FALSE
SPECIFICATION FairSpec
CONSTANTS
    b1 = b1  b2 = b2  b3 = b3
    i1 = i1  i2 = i2  i3 = i3  i4 = i4
    k = k  k2 = k2
    p1 = p1  p2 = p2
    None = None
    Batches = {b1, b2, b3}
    KeyOf <- MCKeyOf
    Lines = {i1, i2, i3, i4}
    BatchOf <- MCBatchOf
    Total <- MCTotal
    Amount <- MCAmount
    Procs = {p1, p2}
INVARIANTS
    TypeOK
    MoneyMatchesRows
    VerdictsAreTrue
    FundedOncePerKey
PROPERTIES
    SettledLinesStay
    FundedBatchEnds
