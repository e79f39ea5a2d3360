SPECIFICATION Spec
CONSTANTS
    k1 = k1  k2 = k2
    ann = ann  bob = bob
    usd = usd  eur = eur
    None = None
    Accounts = {1, 2, 3}
    Opened = {1, 2}
    Users = {ann, bob}
    Currencies = {usd, eur}
    OwnerOf <- MCOwnerOf
    CurrencyOf <- MCCurrencyOf
    Keys = {k1, k2}
    Bodies <- MCBodies
    Requests <- MCRequests
    p1 = p1  p2 = p2
    Procs = {p1, p2}
    PoolSize = 3
INVARIANT
    DuplicatesAreAnswered
