------------------------------ MODULE CourtRows ------------------------------
(***************************************************************************)
(* The reservations table: who has which court when, and the clock its     *)
(* holds run out by.                                                       *)
(*                                                                         *)
(* now() is the time a transaction STARTED.  One that waits for its locks  *)
(* works with a time already past; Began is the set of times the           *)
(* transaction that runs next may have started at.  Once it has its locks  *)
(* (the court's advisory lock, then the rows it changes) its statements    *)
(* are one step.                                                           *)
(*                                                                         *)
(* Times are halves of a unit: the clock is even, whatever the server adds *)
(* to it is odd, so an instant is always before or after a deadline.       *)
(***************************************************************************)
EXTENDS Naturals, FiniteSets

CONSTANTS Guests, NoGuest,
          Places,       \* [court, from, to]: what a reservation takes
          Cards,        \* the gender hours cards a branch may have, each the
                        \* places it keeps from the guests of this instance
          MaxRows,      \* reservations made by hold_slot or at the desk
          MaxPays,      \* attempts to pay a deposit online
          MaxClock,     \* bound: when the model's clock stops
          Lag,          \* how long a transaction may wait for its locks
          Ttl           \* hold_ttl_seconds

ASSUME RowsAssumption ==
    /\ MaxRows \in Nat /\ MaxPays \in Nat /\ MaxClock \in Nat
    /\ Lag \in Nat /\ Ttl \in Nat
    /\ NoGuest \notin Guests
    /\ Places # {} /\ Cards \subseteq SUBSET Places
    /\ \A p \in Places : p.from \in Nat /\ p.to \in Nat /\ p.from < p.to

\* Row MaxRows + p is the one a late payment p may book its slot again with.
Rows == 1..(MaxRows + MaxPays)
Pays == 1..MaxPays

VARIABLES clock,
          res,          \* hold_expires_at is kept while it can be asked for
          ruled         \* court_gender_rules: the places kept from the guests

rowVars == <<clock, res, ruled>>

Statuses == {"none", "pending", "expired", "confirmed", "arrived",
             "completed", "no_show", "cancelled"}

RowsTypeOK == /\ clock \in 0..MaxClock
              /\ res \in [Rows -> [st : Statuses, guest : Guests \cup {NoGuest},
                                   place : Places, exp : Nat]]
              /\ ruled \in SUBSET Places

NoRow == [st |-> "none", guest |-> NoGuest,
          place |-> CHOOSE p \in Places : TRUE, exp |-> 0]

RowsInit == clock = 0 /\ res = [r \in Rows |-> NoRow] /\ ruled = {}

-----------------------------------------------------------------------------

Began == {t \in 0..MaxClock : t <= clock /\ clock <= t + Lag}

\* reservations_no_overlap: the rows it counts, and when two of them clash.
Live(r) == res[r].st \in {"pending", "confirmed", "arrived"}

Clash(p, q) == p.court = q.court /\ p.from < q.to /\ q.from < p.to

\* Mutant: a hold does not keep its slot.
FreeBut_bookings(gone, place) ==
    \A r \in Rows \ gone : res[r].st \in {"confirmed", "arrived"}
                              => ~Clash(res[r].place, place)

FreeBut(gone, place) ==
    \A r \in Rows \ gone : Live(r) => ~Clash(res[r].place, place)

Booked(r) == res[r].st \in {"confirmed", "arrived", "completed"}

\* reservations_gender_guard raises: the row of a guest comes to be a booking
\* or a hold at this place, and the place is kept from the guest.  Changes of
\* status alone are not judged.
Barred(guest, place) == guest # NoGuest /\ place \in ruled

\* upsert_court_gender_rule: a rule is saved, switched on or off.
SaveRules(card) == /\ ruled # card /\ ruled' = card
                   /\ UNCHANGED <<clock, res>>

\* The row hold_slot or the desk inserts next.
IsNextRow(r) == /\ r \in 1..MaxRows
                /\ res[r].st = "none"
                /\ \A q \in 1..(r - 1) : res[q].st # "none"

\* expire_stale_holds(court, period): the holds it expires, where `paying`
\* are the holds whose payment is still open or within its ten minutes.
StaleHolds(now, place, paying) ==
    {r \in Rows \ paying : /\ res[r].st = "pending" /\ res[r].exp < now
                           /\ Clash(res[r].place, place)}

Expired(rows) == [r \in Rows |-> IF r \in rows
                                   THEN [res[r] EXCEPT !.st = "expired",
                                                       !.exp = 0]
                                   ELSE res[r]]

Tick == /\ clock + 2 <= MaxClock
        /\ clock' = clock + 2
        /\ UNCHANGED <<res, ruled>>
=============================================================================
