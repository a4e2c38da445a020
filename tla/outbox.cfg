SPECIFICATION FairSpec
CONSTANTS
    r1 = r1
    loop = loop
    answer = answer
    Requests = {r1}
    Workers = {loop, answer}
    NoWorker = NoWorker
    Broken <- ErrorRoute
    Batch = 10
    RetryLimit = 1
    MaxSetbacks = 1
INVARIANTS
    OutboxSound
    NoNeedlessRepeat
PROPERTIES
    SilentStaysSilent
    EverythingIsTold
CHECK_DEADLOCK FALSE
