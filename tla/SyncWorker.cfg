SPECIFICATION FairWorkerSpec
CONSTANTS
    MaxRows = 3
    tA = tA
    tB = tB
    ann = ann
    Tokens = {tA, tB}
    NoToken = NoToken
    Owner <- OneCashier
INVARIANTS
    WorkerTypeOK
    InflightIsHead
    RefusedSessionReadsBlocked
    NoDrainWhileBackingOff
PROPERTIES
    DoneStaysDone
    EveryWriteJudged
