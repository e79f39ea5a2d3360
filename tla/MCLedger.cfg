SPECIFICATION Spec
CONSTANTS
    p1 = p1  p2 = p2
    t1 = t1  t2 = t2  t3 = t3
    k1 = k1  k2 = k2  k3 = k3
    usd = usd
    None = None
    Accounts = {1, 2}
    Currencies = {usd}
    CurrencyOf <- MCCurrencyOf
    Overdraft <- MCOverdraft
    Procs = {p1, p2}
    TxIds = {t1, t2, t3}
    Correlations = {k1, k2, k3}
    CreatedAs = {"PENDING"}
    Posts <- MCPosts
    ReverseKeys = {k3}
SYMMETRY MCSymmetry
VIEW MCView
INVARIANTS
    TypeOK
    OverdraftFloor
    RepeatsGetTheRow
    NoDeadlock
    DoubleEntry
    ReversedAtMostOnce
PROPERTIES
    OnlyActiveAccountsMove
    DriftOnlyByStaleSave
