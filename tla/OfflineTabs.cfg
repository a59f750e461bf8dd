SPECIFICATION FairOfflineSpec
CONSTANTS
    MaxPays = 3
    MaxCrashes = 2
INVARIANTS
    PaymentIsKept
    GuestPaysOnce
PROPERTIES
    RefusedPaymentReturns
    PaymentComesToRest
CHECK_DEADLOCK FALSE
