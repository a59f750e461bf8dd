SPECIFICATION PathSpec
CONSTANTS
    MaxRows = 1
    tA = tA
    tB = tB
    ann = ann
    bob = bob
    h1 = h1
    h2 = h2
    Tokens = {tA}
    NoToken = NoToken
    Owner <- OneCashier
    Handlers = {h1}
    NoHandler = NoHandler
    Nobody = Nobody
    K1 = "absolute"
    K2 = "claimed"
    K3 = "claimed"
    Kind <- MCKind
    Author <- MCAuthor
    PinGated <- MCPinGated
    Parent <- NoParent
    Faults = {"record_fails"}
    KeyMayBeLost = FALSE
INVARIANTS
    AppliedAtMostOnce
