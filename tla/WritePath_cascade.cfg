SPECIFICATION PathSpec
CONSTANTS
    MaxRows = 2
    tA = tA
    tB = tB
    ann = ann
    bob = bob
    h1 = h1
    h2 = h2
    Tokens = {tA}
    NoToken = NoToken
    Owner <- OneCashier
    Handlers = {h1, h2}
    NoHandler = NoHandler
    Nobody = Nobody
    K1 = "claimed"
    K2 = "recallable"
    K3 = "claimed"
    Kind <- MCKind
    Author <- MCAuthor
    PinGated = {}
    Parent <- TabOpener
    Faults = {"die"}
    KeyMayBeLost = TRUE
SYMMETRY HandlerSymmetry
INVARIANTS
    OrphanIsCascade
