---------------------------- MODULE CourtBooking ----------------------------
(***************************************************************************)
(* Booking a court: the RPCs of the guest app and of the desk, the sweep   *)
(* of lapsed holds, and the trigger that settles a cancelled booking's     *)
(* deposit, together with the online deposits.                             *)
(***************************************************************************)
EXTENDS OnlineDeposits

CONSTANTS MaxHolds,     \* max_live_holds_per_guest
          CancelWindow, \* cancellation_window_hours
          PayFirst,     \* guests whose deposit_mode_for is `required`
          LastStart,    \* bound: when the last row or payment may begin
          MaxStarts,    \* bound: rows and payments begun, together
          Followed,     \* bound: payments that meet trouble or a refund
          PaidRows      \* bound: rows a deposit is paid for

ASSUME BookingAssumption == /\ MaxHolds \in Nat /\ CancelWindow \in Nat
                            /\ LastStart \in Nat /\ MaxStarts \in Nat
                            /\ PayFirst \subseteq Guests
                            /\ Followed \subseteq Pays
                            /\ PaidRows \subseteq Rows

-----------------------------------------------------------------------------
(* trg_reservation_deposit *)

Succeeded(r) == {p \in Pays : /\ pay[p].res = r /\ pay[p].st = "succeeded"
                              /\ ~pay[p].kept}

\* A cancelled booking's deposit goes back.
RefundAll(r) == [p \in Pays |-> IF p \in Succeeded(r)
                                  THEN BeginRefund(pay[p], FALSE)
                                       ELSE pay[p]]

KeepAll(r) == [p \in Pays |-> IF p \in Succeeded(r)
                                THEN [pay[p] EXCEPT !.kept = TRUE]
                                ELSE pay[p]]

-----------------------------------------------------------------------------
(* The guest app *)

\* Mutant: the cap is counted on the slot asked for.
LiveHolds_slot(g, now, place) ==
    {r \in Rows : /\ res[r].st = "pending" /\ res[r].guest = g
                  /\ res[r].exp > now /\ Clash(res[r].place, place)}

\* The caller's holds that count towards the cap, on every court.
LiveHolds(g, now, place) == {r \in Rows : /\ res[r].st = "pending"
                                          /\ res[r].guest = g
                                          /\ res[r].exp > now}

HoldSlot(r, g, place, now) ==
    LET gone == StaleHolds(now, place, Paying(now, Pays)) IN
      /\ IsNextRow(r)
      /\ now < place.from
      /\ Cardinality(LiveHolds(g, now, place)) < MaxHolds
      /\ FreeBut(gone, place) /\ ~Barred(g, place)
      /\ res' = [Expired(gone) EXCEPT ![r] =
                   [st |-> "pending", guest |-> g, place |-> place,
                    exp |-> now + Ttl]]
      /\ UNCHANGED <<clock, ruled, payVars, refundVars>>

\* confirm_booking: by the guest, or by the desk for the guest.
ConfirmBooking(r, desk, now) ==
    /\ res[r].st = "pending" /\ ~(res[r].exp < now)
    /\ ~desk /\ res[r].guest \in PayFirst =>
         \E p \in Pays : pay[p].hold = r /\ pay[p].st = "succeeded"
    /\ ~Barred(res[r].guest, res[r].place)
    /\ res' = [res EXCEPT ![r].st = "confirmed", ![r].exp = 0]
    /\ UNCHANGED <<clock, ruled, payVars, refundVars>>

\* Mutant: a hold is released under its open payment.
ReleaseHold_paying(r) == /\ res[r].st = "pending"
                         /\ res' = Expired({r})
                         /\ UNCHANGED <<clock, ruled, payVars, refundVars>>

ReleaseHold(r) == /\ res[r].st = "pending"
                  /\ OpenOn(r) = {}
                  /\ res' = Expired({r})
                  /\ UNCHANGED <<clock, ruled, payVars, refundVars>>

-----------------------------------------------------------------------------
(* The desk *)

\* For a typed name: no guest account, so no gender rule.
StaffCreate(r, place, now) ==
    LET gone == StaleHolds(now, place, Paying(now, Pays)) IN
      /\ IsNextRow(r)
      /\ FreeBut(gone, place)
      /\ res' = [Expired(gone) EXCEPT ![r] =
                   [st |-> "confirmed", guest |-> NoGuest, place |-> place,
                    exp |-> 0]]
      /\ UNCHANGED <<clock, ruled, payVars, refundVars>>

\* Mutant: the booking's deposit stays where it is.
CancelReservation_keeps(r, desk, now) ==
    /\ Live(r)
    /\ desk \/ ~(res[r].place.from < now + CancelWindow)
    /\ res' = [res EXCEPT ![r].st = "cancelled", ![r].exp = 0]
    /\ UNCHANGED <<clock, ruled, payVars, refundVars>>

CancelReservation(r, desk, now) ==
    /\ Live(r)
    /\ desk \/ ~(res[r].place.from < now + CancelWindow)
    /\ res' = [res EXCEPT ![r].st = "cancelled", ![r].exp = 0]
    /\ pay' = RefundAll(r)
    /\ UNCHANGED <<clock, ruled, bank, refundVars>>

MarkArrived(r) == /\ res[r].st = "confirmed"
                  /\ res' = [res EXCEPT ![r].st = "arrived"]
                  /\ UNCHANGED <<clock, ruled, payVars, refundVars>>

MarkCompleted(r, now) == /\ res[r].st \in {"confirmed", "arrived"}
                         /\ ~(now < res[r].place.from)
                         /\ res' = [res EXCEPT ![r].st = "completed"]
                         /\ UNCHANGED <<clock, ruled, payVars, refundVars>>

\* A no-show; deposit_forfeit_no_show says whether the deposit is kept.
MarkNoShow(r, now, keep) ==
    /\ res[r].st = "confirmed"
    /\ ~(now < res[r].place.from)
    /\ res' = [res EXCEPT ![r].st = "no_show"]
    /\ pay' = IF keep THEN KeepAll(r) ELSE RefundAll(r)
    /\ UNCHANGED <<clock, ruled, bank, refundVars>>

\* Mutant: every hold in the way is expired, lapsed or not.
Relocate_pushes(r, place, now) ==
    LET gone == {q \in Rows \ {r} : /\ res[q].st \in {"pending", "confirmed"}
                                    /\ Clash(res[q].place, place)} IN
      /\ FreeBut(gone \cup {r}, place)
      /\ res' = [Expired(gone) EXCEPT ![r].place = place]
      /\ UNCHANGED <<clock, ruled, payVars, refundVars>>

\* The row changes place, after the lapsed holds in the way are expired: the
\* row itself among them, when it is one, and then no gender rule minds it.
Relocate(r, place, now) ==
    LET gone == StaleHolds(now, place, Paying(now, Pays)) IN
      /\ \/ r \in gone
         \/ FreeBut(gone \cup {r}, place) /\ ~Barred(res[r].guest, place)
      /\ res' = [Expired(gone) EXCEPT ![r].place = place]
      /\ UNCHANGED <<clock, ruled, payVars, refundVars>>

MoveReservation(r, place, now) ==
    /\ Live(r) /\ place # res[r].place
    /\ place.from # res[r].place.from => ~(place.from < now)
    /\ Relocate(r, place, now)

ExtendReservation(r, place, now) ==
    /\ Live(r) /\ place # res[r].place
    /\ place.court = res[r].place.court /\ place.from = res[r].place.from
    /\ Relocate(r, place, now)

-----------------------------------------------------------------------------
(* tp_hold_sweep: expire_stale_holds with no arguments.  It takes no court's *)
(* lock.  A row it waited for is judged as it is now, but the payments are   *)
(* those of its snapshot: one prepared since then is not `seen`.             *)

CronSweep(now, unseen) ==
    LET stale == {r \in Rows \ Paying(now, Pays \ unseen) :
                     res[r].st = "pending" /\ res[r].exp < now} IN
      /\ \A p \in unseen : Open(p) /\ ~(pay[p].deadline + Lag < now + Window)
      /\ stale # {}
      /\ res' = Expired(stale)
      /\ UNCHANGED <<clock, ruled, payVars, refundVars>>

-----------------------------------------------------------------------------

\* Bound: a row or a payment more may begin.
MayStart(now) ==
    /\ now <= LastStart
    /\ Cardinality({r \in 1..MaxRows : res[r].st # "none"})
         + Cardinality({p \in Pays : pay[p].st # "none"}) < MaxStarts

Clock == Tick /\ UNCHANGED <<payVars, refundVars>>

\* A manager or the owner saves the gender hours.
Manage == /\ \E card \in Cards : SaveRules(card)
          /\ UNCHANGED <<payVars, refundVars>>

Book(now) ==
    \/ \E r \in 1..MaxRows, place \in Places :
          /\ MayStart(now)
          /\ \/ \E g \in Guests : HoldSlot(r, g, place, now)
             \/ StaffCreate(r, place, now)
    \/ \E r \in Rows, desk \in BOOLEAN : ConfirmBooking(r, desk, now)
    \/ \E unseen \in SUBSET Pays : CronSweep(now, unseen)

Serve(r, now) ==
    \/ \E desk \in BOOLEAN : CancelReservation(r, desk, now)
    \/ MarkCompleted(r, now)
    \/ \E keep \in BOOLEAN : MarkNoShow(r, now, keep)
    \/ \E place \in Places : \/ MoveReservation(r, place, now)
                             \/ ExtendReservation(r, place, now)

Pay(now) ==
    \/ \E p \in Pays, r \in PaidRows :
          MayStart(now) /\ DepositPrepare(p, r, now)
    \/ \E p \in Pays, offline \in BOOLEAN : ApplySuccess(p, now, offline)

AtQi(p) == \/ QiCreates(p) \/ MarkCreated(p) \/ QiTakes(p)
           \/ ApplyExpired(p) \/ CancelAtQi(p)

Trouble(p) == \/ QiDeclines(p) \/ ApplyFailed(p) \/ HearNotFound(p)
              \/ CancelFails(p)

Refund(p) ==
    \/ SendRefund(p) \/ QiPaysBack(p) \/ QiDropsRefund(p)
    \/ RefundSucceeded(p) \/ RefundFailed(p)
    \/ \E unknown \in BOOLEAN : RefundUnheard(p, unknown)
    \/ RefundRetry(p) \/ RefundManual(p) \/ RefundRequest(p)

\* Bound: the rows that are played.
Played == PaidRows \cup (Rows \ (1..MaxRows))

BookingNext ==
    \/ Clock
    \/ Manage
    \/ \E now \in Began : \/ Book(now) \/ Pay(now)
                          \/ \E r \in Played : Serve(r, now)
    \/ \E r \in Rows : ReleaseHold(r)
    \/ \E r \in Played : MarkArrived(r)
    \/ \E p \in Pays : AtQi(p)
    \/ \E p \in Followed : Trouble(p) \/ Refund(p)

BookingSpec == DepositsInit /\ [][BookingNext]_depositVars

\* The cron jobs run, time passes, Qi repeats a webhook until it is taken,
\* and does not call a refund pending for ever.
RefundHeard(p) == \/ RefundSucceeded(p) \/ RefundFailed(p)
                  \/ \E unknown \in BOOLEAN : RefundUnheard(p, unknown)

FairBookingSpec ==
    /\ BookingSpec
    /\ WF_depositVars(Clock)
    /\ WF_depositVars(CronSweep(clock, {}))
    /\ \A p \in Followed :
          /\ WF_depositVars(ApplySuccess(p, clock, FALSE))
          /\ WF_depositVars(SendRefund(p))
          /\ WF_depositVars(RefundHeard(p))

-----------------------------------------------------------------------------

\* Every row, payment, answer and refund request has its type.
BookingTypeOK == DepositsTypeOK

\* No two live reservations of a court overlap: whatever hold_slot, the desk,
\* a move or a late payment does, and whichever lapsed holds each of them
\* takes for gone.
NoOverlap == \A r, q \in Rows : r # q /\ Live(r) /\ Live(q)
                                   => ~Clash(res[r].place, res[q].place)

\* While a guest may still be paying, the slot is theirs: no sweep, however
\* old its snapshot or its now(), expires a hold before the deadline of its
\* open attempt (deposit_prepare stretches the hold, expire_stale_holds waits).
SlotIsWaitedFor ==
    \A p \in Pays : Open(p) /\ pay[p].deadline > clock
                       => res[pay[p].hold].st # "expired"

\* No deposit is shown as paid that Qi did not take, and the deposit of a
\* booking the guest does not have is never left standing ("no false
\* positive"): cancels, no-shows, moves and late answers all see to it.
PaidIsBooked ==
    \A p \in Pays : pay[p].st = "succeeded" /\ ~pay[p].kept
        => /\ "paid" \in bank[p]
           /\ Booked(pay[p].res)
           /\ res[pay[p].res].guest = res[pay[p].hold].guest

\* A booking's deposit is kept once: the second of two attempts that both
\* took the guest's money is refunded (deposit_settle_success).
PaidOnce == \A p, q \in Pays : p # q /\ q \in PaidFor(pay[q].res)
                                   => p \notin PaidFor(pay[q].res)

GivenBack(p) == Cardinality(back[p]) + IF cash[p] THEN 1 ELSE 0

\* A deposit goes back at most once, over the gateway and by hand together,
\* only when a refund was begun, and the books say refunded only when it did:
\* whatever became of the requests nobody heard the outcome of.
ReturnedOnce ==
    \A p \in Pays : /\ GivenBack(p) <= 1
                    /\ pay[p].st = "refunded" => GivenBack(p) = 1
                    /\ GivenBack(p) = 1 => pay[p].st \in Refunding

\* No guest has more live holds nobody pays for than hold_slot's cap, though
\* the cap is counted at a now() already past.
HoldCap ==
    \A g \in Guests :
        Cardinality({r \in Rows :
            /\ res[r].st = "pending" /\ res[r].guest = g
            /\ res[r].exp > clock
            /\ \A p \in Pays : pay[p].st = "none" \/ pay[p].hold # r})
          <= MaxHolds

\* A booking, once confirmed, never lapses: a sweep that judged it while it
\* was a hold leaves it alone.
ConfirmedStays ==
    [][\A r \in Rows : Booked(r) => res'[r].st # "expired"]_depositVars

MoneyOf(p) ==
    CASE pay[p].st = "refunded" \/ GivenBack(p) > 0   -> "returned"
      [] pay[p].st \in {"refund_pending", "refund_failed"} /\ GivenBack(p) = 0
                                                      -> "owed"
      [] pay[p].st = "succeeded" /\ GivenBack(p) = 0  -> "venue"
      [] OTHER -> IF "paid" \in bank[p] THEN "bank" ELSE "guest"

Promise == INSTANCE DepositPromise WITH
             Deposits <- Pays,
             money    <- [p \in Pays |-> MoneyOf(p)],
             booked   <- [p \in Pays |-> /\ pay[p].st = "succeeded"
                                         /\ ~pay[p].kept
                                         /\ Booked(pay[p].res)]

\* The whole of it: what the rows, the payments and Qi do together is what
\* DepositPromise allows to happen to a guest's money.
KeepsItsPromise == Promise!PromiseSpec

\* Money Qi took waits unsettled: its row may not become the booking.
HeldUp(p) == LET r == pay[p].res IN
               /\ pay[p].st \in OpenStates \cup WrittenOff
               /\ Barred(res[r].guest, res[r].place)
               /\ clock < res[r].place.to

\* Money Qi took is not lost track of ("no false negative"): it becomes a
\* booking's deposit, or is given back, or waits for the manager, also when
\* the attempt had been written off before Qi's answer came.  Unless a gender
\* rule saved after the hold stands in the way: then not before the rule is
\* lifted or the slot is over.
PaidIsSettled ==
    \A p \in Followed : <>[]~HeldUp(p) =>
        ("paid" \in bank[p]
            ~> pay[p].st \in {"succeeded", "refunded", "refund_failed"})

\* No slot is held for ever: an attempt nobody finishes keeps it for its
\* deadline and ten minutes, and the sweep takes it back.
SlotComesBack ==
    \A r \in 1..MaxRows : res[r].st = "pending" ~> res[r].st # "pending"
=============================================================================
