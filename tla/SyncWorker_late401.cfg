SPECIFICATION FairWorkerSpec
CONSTANTS
    MaxRows = 1
    tA = tA
    tB = tB
    ann = ann
    Tokens = {tA, tB}
    NoToken = NoToken
    Owner <- OneCashier
PROPERTIES
    SuccessClearsBlocked
