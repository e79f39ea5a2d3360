SPECIFICATION FairSpec
CONSTANTS
    w1 = w1  w2 = w2
    Events = {1, 2}
    Workers = {w1, w2}
    BatchSize <- MCBatchSize
    MarkRetries = 2
INVARIANTS
    TypeOK
    PublishedWasDelivered
PROPERTIES
    SettledIsFinal
    EveryRowSettles
