SPECIFICATION FairSpec
CONSTANTS
    l1 = l1  l2 = l2
    a = a
    k1 = k1  k2 = k2  k3 = k3
    p1 = p1  p2 = p2
    w1 = w1
    None = None
    LoanIds = {l1, l2}
    ApplyKeyOf <- MCApplyKeyOf
    Principal <- MCPrincipal
    Keys = {k1, k2, k3}
    Requests <- MCRequests
    Procs = {p1, p2}
    Sweepers = {w1}
INVARIANTS
    TypeOK
    OutstandingAddsUp
    MoneyMatchesLoans
PROPERTIES
    StatusMovesForward
    MaturedLoanIsMarked
