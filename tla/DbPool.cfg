\* A ring of three slots and at most two queries ahead of the worker.
CONSTANTS
    backup = backup
    server = server
    reader = reader
    save1 = save1
    save2 = save2
    ask = ask
    Queries = {backup, server, reader, save1, ask}
    Kind <- MCKind
    NoQuery = NoQuery
    Size = 3
    MaxPending = 2
SPECIFICATION FairSpec
INVARIANTS InOrder ExitAfterAllJobs
PROPERTIES NoRankLost ResultFinal GoesDown Answered
CHECK_DEADLOCK FALSE
