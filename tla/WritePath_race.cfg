SPECIFICATION PathSpec
CONSTANTS
    MaxRows = 1
    tA = tA
    tB = tB
    ann = ann
    bob = bob
    h1 = h1
    h2 = h2
    Tokens = {tA, tB}
    NoToken = NoToken
    Owner <- TwoCashiers
    Handlers = {h1, h2}
    NoHandler = NoHandler
    Nobody = Nobody
    K1 = "checked"
    K2 = "claimed"
    K3 = "claimed"
    Kind <- MCKind
    Author <- MCAuthor
    PinGated <- MCPinGated
    Parent <- NoParent
    Faults = {"expire", "auth_unreachable", "staff_inactive", "station_retired", "die"}
    KeyMayBeLost = TRUE
SYMMETRY HandlerSymmetry
INVARIANTS
    AckTruthful
    AppliedAtMostOnce
    AckAgreesWithRecord
