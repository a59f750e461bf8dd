SPECIFICATION PathSpec
CONSTANTS
    MaxRows = 1
    tA = tA
    tB = tB
    ann = ann
    bob = bob
    h1 = h1
    h2 = h2
    Tokens = {tA, tB}
    NoToken = NoToken
    Owner <- TwoCashiers
    Handlers = {h1}
    NoHandler = NoHandler
    Nobody = Nobody
    K1 = "claimed"
    K2 = "claimed"
    K3 = "claimed"
    Kind <- MCKind
    Author <- MCAuthor
    PinGated <- MCPinGated
    Parent <- NoParent
    Faults = {"die"}
    KeyMayBeLost = FALSE
INVARIANTS
    ResendIsSafe
