SPECIFICATION PathSpec
CONSTANTS
    MaxRows = 2
    tA = tA
    tB = tB
    ann = ann
    bob = bob
    h1 = h1
    h2 = h2
    Tokens = {tA}
    NoToken = NoToken
    Owner <- OneCashier
    Handlers = {h1, h2}
    NoHandler = NoHandler
    Nobody = Nobody
    K1 = "claimed"
    K2 = "stated"
    K3 = "claimed"
    Kind <- MCKind
    Author <- MCAuthor
    PinGated <- MCPinGated
    Parent <- NoParent
    Faults = {"record_fails", "die"}
    KeyMayBeLost = FALSE
SYMMETRY HandlerSymmetry
INVARIANTS
    PathTypeOK
    AckedInOrder
PROPERTIES
    ImplementsDurableWrites
