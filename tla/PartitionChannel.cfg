CONSTANTS
    t1 = t1
    t2 = t2
    Threads = {t1, t2}
    Cids = {1, 2}
    MaxComms = 2
    MaxRequests = 3
    None = None
SPECIFICATION FairSpec
INVARIANTS
    AnswerIsMine
PROPERTIES
    ImplementsChannel
    PinAnswered
