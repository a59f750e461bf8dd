SPECIFICATION FairBookingSpec
CONSTANTS
    g1 = g1
    Guests = {g1}
    NoGuest = NoGuest
    Places <- ThreePlaces
    Cards <- FirstSlotCards
    MaxRows = 2
    MaxPays = 2
    MaxClock = 6
    Lag = 2
    Ttl = 1
    Window = 1
    Grace = 2
    MaxAttempts = 3
    MaxCancels = 1
    MaxTries = 2
    MaxHolds = 1
    CancelWindow = 2
    PayFirst = {g1}
    LastStart = 2
    MaxStarts = 3
    Followed = {1}
    PaidRows = {1}
INVARIANTS
    BookingTypeOK
    NoOverlap
    SlotIsWaitedFor
    PaidIsBooked
    PaidOnce
    ReturnedOnce
    HoldCap
PROPERTIES
    ConfirmedStays
    KeepsItsPromise
    PaidIsSettled
    SlotComesBack
CHECK_DEADLOCK FALSE
