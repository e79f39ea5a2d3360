SPECIFICATION FairSpec
CONSTANTS
    e1 = e1  e2 = e2
    ann = ann
    s1 = s1  s2 = s2
    shop = shop
    r1 = r1  r2 = r2
    phone = phone
    None = None
    Evaluations = {e1, e2}
    Ctx <- MCCtx
    Window <- MCWindow
    VELOCITY_THRESHOLD = 1
    RECIPIENT_DISTINCT_SENDER_THRESHOLD = 1
    Resolvers = 2
    Parallel = 2
    Horizon = 1
CHECK_DEADLOCK FALSE
INVARIANTS
    TypeOK
    ApprovedMeansClean
    ProfileNeverForgets
    DecisionsAnnounced
PROPERTY
    EveryEvaluationEnds
