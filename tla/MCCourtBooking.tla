--------------------------- MODULE MCCourtBooking ---------------------------
EXTENDS CourtBooking

Slot(c, a, b) == [court |-> c, from |-> a, to |-> b]

ThreePlaces == {Slot(1, 3, 5), Slot(1, 5, 7), Slot(1, 3, 7)}

\* A card that keeps the first slot, and one that keeps none.
FirstSlotCards == {{}, {Slot(1, 3, 5), Slot(1, 3, 7)}}
=============================================================================
