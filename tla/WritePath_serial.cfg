SPECIFICATION FairPathSpec
CONSTANTS
    MaxRows = 2
    tA = tA
    tB = tB
    ann = ann
    bob = bob
    h1 = h1
    h2 = h2
    Tokens = {tA, tB}
    NoToken = NoToken
    Owner <- TwoCashiers
    Handlers = {h1}
    NoHandler = NoHandler
    Nobody = Nobody
    K1 = "guarded"
    K2 = "absolute"
    K3 = "claimed"
    Kind <- MCKind
    Author <- MCAuthor
    PinGated <- MCPinGated
    Parent <- TabOpener
    Faults = {"expire"}
    KeyMayBeLost = FALSE
INVARIANTS
    RefusalTruthful
    OnlyExpiredTokensRefused
PROPERTIES
    ImplementsTruthfully
    EveryWriteJudged
