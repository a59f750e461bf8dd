--------------------------- MODULE OnlineDeposits ---------------------------
(***************************************************************************)
(* The deposit a guest pays online before a booking is confirmed: the      *)
(* booking_payments state machine (the app.deposit_* functions) and the    *)
(* edge functions that carry it to Qi, the bank's gateway.                 *)
(*                                                                         *)
(* Qi is external.  bank[p] holds the states its payment has been in; an   *)
(* answer of Qi is any of them, however late, however often and in         *)
(* whatever order it is applied: webhook, poll and reconciler all ask Qi   *)
(* and hand what they heard to deposit_apply, each in its own time.        *)
(***************************************************************************)
EXTENDS CourtRows

CONSTANTS Window,       \* deposit_window_seconds
          Grace,        \* the sweep's ten minutes after the deadline
          MaxAttempts,  \* payments on one hold (3)
          MaxCancels,   \* MAX_CANCEL_ATTEMPTS (3)
          MaxTries      \* unheard refund requests before refund_failed (10)

ASSUME DepositAssumption ==
    /\ Window \in Nat /\ Grace \in Nat
    /\ MaxAttempts \in Nat /\ MaxCancels \in Nat \ {0} /\ MaxTries \in Nat \ {0}

VARIABLES pay,          \* booking_payments
          bank,         \* what Qi has answered, or could have, about it
          wire,         \* the refund request Qi may still act on, 0 if none
          back,         \* the refund requests Qi has paid out
          cash          \* the guest had it back in cash from a manager

payVars     == <<pay, bank>>
refundVars  == <<wire, back, cash>>
depositVars == <<rowVars, payVars, refundVars>>

OpenStates == {"created", "pending"}
WrittenOff == {"failed", "expired"}
Refunding  == {"refund_pending", "refund_failed", "refunded"}

Payments == [st : {"none", "succeeded"} \cup OpenStates \cup WrittenOff
                    \cup Refunding,
             hold : Rows, res : Rows, deadline : Nat, known : BOOLEAN,
             kept : BOOLEAN, byStaff : BOOLEAN, rid : Nat,
             cancels : 0..MaxCancels, tries : 0..(MaxTries - 1)]

BankStates == {"absent", "open", "declined", "cancelled", "paid"}

DepositsTypeOK == /\ RowsTypeOK
                  /\ pay \in [Pays -> Payments]
                  /\ bank \in [Pays -> SUBSET BankStates]
                  /\ wire \in [Pays -> Nat]
                  /\ back \in [Pays -> SUBSET Nat]
                  /\ cash \in [Pays -> BOOLEAN]

NoPayment == [st |-> "none", hold |-> 1, res |-> 1, deadline |-> 0,
              known |-> FALSE, kept |-> FALSE, byStaff |-> FALSE, rid |-> 0,
              cancels |-> 0, tries |-> 0]

DepositsInit == /\ RowsInit
                /\ pay = [p \in Pays |-> NoPayment]
                /\ bank = [p \in Pays |-> {}]
                /\ wire = [p \in Pays |-> 0]
                /\ back = [p \in Pays |-> {}]
                /\ cash = [p \in Pays |-> FALSE]

-----------------------------------------------------------------------------
(* Helpers *)

Open(p) == pay[p].st \in OpenStates

OpenOn(r) == {p \in Pays : Open(p) /\ pay[p].hold = r}

\* Mutant: a sweep waits for an open attempt however long.
Paying_always(now, seen) == {pay[p].hold : p \in {q \in seen : Open(q)}}

\* The holds a sweep leaves alone for their payment, as `seen` shows them.
Paying(now, seen) == {pay[p].hold : p \in {q \in seen :
                          Open(q) /\ pay[q].deadline + Grace > now}}

\* deposit_begin_refund: the one place a refund's request id is made.  Of
\* refund_reason only staff_refund is ever asked for.
BeginRefund(v, byStaff) ==
    [v EXCEPT !.st = "refund_pending", !.byStaff = byStaff, !.rid = @ + 1,
              !.tries = 0]

\* The deposit another payment of this booking already paid.
PaidFor(r) == {p \in Pays : /\ pay[p].res = r
                            /\ \/ pay[p].st = "succeeded"
                               \/ /\ pay[p].st \in Refunding
                                  /\ pay[p].byStaff}

-----------------------------------------------------------------------------
(* deposit-begin *)

\* deposit_prepare, when no attempt on the hold is open (else it hands that
\* one back).
DepositPrepare(p, r, now) ==
    /\ pay[p].st = "none" /\ \A q \in 1..(p - 1) : pay[q].st # "none"
    /\ OpenOn(r) = {}
    /\ res[r].st = "pending" /\ ~(res[r].exp < now)
    /\ Cardinality({q \in Pays : pay[q].st # "none" /\ pay[q].hold = r})
         < MaxAttempts
    /\ LET deadline == now + Window IN
         /\ pay' = [pay EXCEPT ![p] = [NoPayment EXCEPT !.st = "created",
                        !.hold = r, !.res = r, !.deadline = deadline]]
         /\ res' = [res EXCEPT ![r].exp = IF @ < deadline THEN deadline ELSE @]
    /\ UNCHANGED <<clock, ruled, bank, refundVars>>

\* The create request reaches Qi, once; a second copy is "already used".
QiCreates(p) == /\ pay[p].st # "none"
                /\ bank[p] \subseteq {"absent"}
                /\ bank' = [bank EXCEPT ![p] = @ \cup {"open"}]
                /\ UNCHANGED <<rowVars, pay, refundVars>>

\* deposit_mark_created, or deposit_apply('created'): Qi's answer to the
\* create, to the look-up after "already used", or to any later question.
MarkCreated(p) == /\ "open" \in bank[p] /\ ~pay[p].known
                  /\ pay' = [pay EXCEPT
                       ![p].st = IF @ = "created" THEN "pending" ELSE @,
                       ![p].known = TRUE]
                  /\ UNCHANGED <<rowVars, bank, refundVars>>

-----------------------------------------------------------------------------
(* What happens at Qi.  The guest needs the page the attempt's answer names. *)

QiTakes(p) == /\ pay[p].known
              /\ bank[p] \cap {"cancelled", "paid"} = {}
              /\ bank' = [bank EXCEPT ![p] = @ \cup {"paid"}]
              /\ UNCHANGED <<rowVars, pay, refundVars>>

QiDeclines(p) == /\ Open(p) /\ pay[p].known
                 /\ bank[p] \cap {"declined", "cancelled", "paid"} = {}
                 /\ bank' = [bank EXCEPT ![p] = @ \cup {"declined"}]
                 /\ UNCHANGED <<rowVars, pay, refundVars>>

-----------------------------------------------------------------------------
(* deposit_apply and deposit_settle_success *)

\* Mutant: nobody looks for another payment of the booking.
Settlement_twice(p, now, offline) ==
    LET r    == pay[p].res
        gone == StaleHolds(now, res[r].place, Paying(now, Pays))
    IN  IF Booked(r) THEN "keep"
        ELSE IF res[r].st \notin {"pending", "expired"}
                  \/ ~(now < res[r].place.to) THEN "slot_lost"
        ELSE IF offline THEN "venue_offline"
        ELSE IF res[r].st = "pending" THEN "confirm"
        ELSE IF FreeBut(gone, res[r].place) THEN "recreate"
        ELSE "slot_lost"

\* Mutant: the deposit of a booking that is gone is kept.
Settlement_keeps(p, now, offline) ==
    LET r    == pay[p].res
        gone == StaleHolds(now, res[r].place, Paying(now, Pays))
    IN  IF PaidFor(r) \ {p} # {} THEN "duplicate_success"
        ELSE IF Booked(r) THEN "keep"
        ELSE IF res[r].st \notin {"pending", "expired"}
                  \/ ~(now < res[r].place.to) THEN "keep"
        ELSE IF offline THEN "venue_offline"
        ELSE IF res[r].st = "pending" THEN "confirm"
        ELSE IF FreeBut(gone, res[r].place) THEN "recreate"
        ELSE "slot_lost"

\* What deposit_settle_success finds, before anything is written; `offline`
\* is assert_not_degraded_for.
Settlement(p, now, offline) ==
    LET r    == pay[p].res
        gone == StaleHolds(now, res[r].place, Paying(now, Pays))
    IN  IF PaidFor(r) \ {p} # {} THEN "duplicate_success"
        ELSE IF Booked(r) THEN "keep"
        ELSE IF res[r].st \notin {"pending", "expired"}
                  \/ ~(now < res[r].place.to) THEN "slot_lost"
        ELSE IF offline THEN "venue_offline"
        ELSE IF res[r].st = "pending" THEN "confirm"
        ELSE IF FreeBut(gone, res[r].place) THEN "recreate"
        ELSE "slot_lost"

\* The deadline, the cancels and some answers matter while an attempt is open.
Ended(p, st) == [pay[p] EXCEPT !.st = st, !.deadline = 0, !.cancels = 0]

Forget(p) == bank' = [bank EXCEPT ![p] = @ \ {"absent", "declined"}]

Settled(p) == Ended(p, "succeeded")

\* Mutant: an attempt that was written off is not asked about again.
ApplySuccess_open(p, now, offline) ==
    /\ "paid" \in bank[p]
    /\ pay[p].st \in OpenStates
    /\ LET r    == pay[p].res
           how  == Settlement(p, now, offline)
           swept == IF res[r].st = "expired" /\ now < res[r].place.to
                      THEN StaleHolds(now, res[r].place, Paying(now, Pays))
                      ELSE {}
       IN  \/ /\ how = "keep"
              /\ pay' = [pay EXCEPT ![p] = Settled(p)]
              /\ UNCHANGED res
           \/ /\ how = "confirm" /\ ~Barred(res[r].guest, res[r].place)
              /\ pay' = [pay EXCEPT ![p] = Settled(p)]
              /\ res' = [res EXCEPT ![r].st = "confirmed", ![r].exp = 0]
           \/ /\ how = "recreate" /\ ~Barred(res[r].guest, res[r].place)
              /\ pay' = [pay EXCEPT ![p] =
                           [Settled(p) EXCEPT !.res = MaxRows + p]]
              /\ res' = [Expired(swept) EXCEPT ![MaxRows + p] =
                           [res[r] EXCEPT !.st = "confirmed", !.exp = 0]]
           \/ /\ how \in {"duplicate_success", "slot_lost", "venue_offline"}
              /\ pay' = [pay EXCEPT ![p] = BeginRefund(Settled(p), FALSE)]
              /\ res' = Expired(swept)
    /\ Forget(p)
    /\ UNCHANGED <<clock, ruled, refundVars>>

\* The row that becomes a booking, and the one inserted anew, are judged by the
\* gender rules of the moment: a refusal aborts the whole call.
ApplySuccess(p, now, offline) ==
    /\ "paid" \in bank[p]
    /\ pay[p].st \in OpenStates \cup WrittenOff
    /\ LET r    == pay[p].res
           how  == Settlement(p, now, offline)
           swept == IF res[r].st = "expired" /\ now < res[r].place.to
                      THEN StaleHolds(now, res[r].place, Paying(now, Pays))
                      ELSE {}
       IN  \/ /\ how = "keep"
              /\ pay' = [pay EXCEPT ![p] = Settled(p)]
              /\ UNCHANGED res
           \/ /\ how = "confirm" /\ ~Barred(res[r].guest, res[r].place)
              /\ pay' = [pay EXCEPT ![p] = Settled(p)]
              /\ res' = [res EXCEPT ![r].st = "confirmed", ![r].exp = 0]
           \/ /\ how = "recreate" /\ ~Barred(res[r].guest, res[r].place)
              /\ pay' = [pay EXCEPT ![p] =
                           [Settled(p) EXCEPT !.res = MaxRows + p]]
              /\ res' = [Expired(swept) EXCEPT ![MaxRows + p] =
                           [res[r] EXCEPT !.st = "confirmed", !.exp = 0]]
           \/ /\ how \in {"duplicate_success", "slot_lost", "venue_offline"}
              /\ pay' = [pay EXCEPT ![p] = BeginRefund(Settled(p), FALSE)]
              /\ res' = Expired(swept)
    /\ Forget(p)
    /\ UNCHANGED <<clock, ruled, refundVars>>

\* Qi says FAILED (or ERROR): the hold stays for another try.
ApplyFailed(p) == /\ "declined" \in bank[p] /\ Open(p)
                  /\ pay' = [pay EXCEPT ![p] = Ended(p, "failed")]
                  /\ Forget(p)
                  /\ UNCHANGED <<rowVars, refundVars>>

\* The attempt is over: cancelled at Qi, NOT_FOUND there after its deadline,
\* or given up on after three failed cancels.
ApplyExpired(p) ==
    /\ Open(p)
    /\ \/ bank[p] \cap {"cancelled", "absent"} # {}
       \/ pay[p].cancels = MaxCancels
    /\ pay' = [pay EXCEPT ![p] = Ended(p, "expired")]
    /\ LET r == pay[p].hold IN
         res' = IF res[r].st = "pending" /\ OpenOn(r) \subseteq {p}
                  THEN Expired({r}) ELSE res
    /\ Forget(p)
    /\ UNCHANGED <<clock, ruled, refundVars>>

\* checkNow asks about an attempt whose id nobody ever learned: NOT_FOUND.
HearNotFound(p) == /\ Open(p) /\ ~pay[p].known
                   /\ pay[p].deadline < clock
                   /\ bank[p] = {}
                   /\ bank' = [bank EXCEPT ![p] = {"absent"}]
                   /\ UNCHANGED <<rowVars, pay, refundVars>>

\* deposit-reconcile, past the deadline: Qi cancels it, or does not answer.
CancelAtQi(p) == /\ Open(p) /\ pay[p].known /\ pay[p].deadline < clock
                 /\ bank[p] \cap {"cancelled", "paid"} = {}
                 /\ bank' = [bank EXCEPT ![p] = @ \cup {"cancelled"}]
                 /\ UNCHANGED <<rowVars, pay, refundVars>>

\* Mutant: one failed cancel too many is counted.
CancelFails_more(p) == /\ Open(p) /\ pay[p].known /\ pay[p].deadline < clock
                       /\ pay[p].cancels <= MaxCancels
                       /\ pay' = [pay EXCEPT ![p].cancels = @ + 1]
                       /\ UNCHANGED <<rowVars, bank, refundVars>>

CancelFails(p) == /\ Open(p) /\ pay[p].known /\ pay[p].deadline < clock
                  /\ pay[p].cancels < MaxCancels
                  /\ pay' = [pay EXCEPT ![p].cancels = @ + 1]
                  /\ UNCHANGED <<rowVars, bank, refundVars>>

-----------------------------------------------------------------------------
(* Refunds: deposit-reconcile, deposit_refund_apply and the manager *)

SendRefund(p) == /\ pay[p].st = "refund_pending"
                 /\ wire' = [wire EXCEPT ![p] = pay[p].rid]
                 /\ UNCHANGED <<rowVars, payVars, back, cash>>

\* Qi acts on a request once, and may do so after we stopped listening.
QiPaysBack(p) == /\ wire[p] # 0 /\ wire[p] \notin back[p]
                 /\ back' = [back EXCEPT ![p] = @ \cup {wire[p]}]
                 /\ UNCHANGED <<rowVars, payVars, wire, cash>>

\* It never arrives, or Qi refuses it and nobody hears.
QiDropsRefund(p) == /\ wire[p] # 0 /\ wire[p] \notin back[p]
                    /\ wire' = [wire EXCEPT ![p] = 0]
                    /\ UNCHANGED <<rowVars, payVars, back, cash>>

\* deposit_refund_apply('succeeded').
RefundSucceeded(p) == /\ pay[p].st = "refund_pending"
                      /\ pay[p].rid \in back[p]
                      /\ pay' = [pay EXCEPT ![p].st = "refunded",
                                            ![p].tries = 0]
                      /\ UNCHANGED <<rowVars, bank, refundVars>>

\* ('failed'): Qi refuses the request, or says it already has one by that id,
\* whose outcome we never saw.
RefundFailed(p) ==
    /\ pay[p].st = "refund_pending" /\ wire[p] = pay[p].rid
    /\ pay' = [pay EXCEPT ![p].st = "refund_failed", ![p].tries = 0]
    /\ \/ UNCHANGED wire
       \/ wire[p] \notin back[p] /\ wire' = [wire EXCEPT ![p] = 0]
    /\ UNCHANGED <<rowVars, bank, back, cash>>

\* ('pending', 'unknown'): no final answer yet; the tenth unknown is a failure.
RefundUnheard(p, unknown) ==
    /\ pay[p].st = "refund_pending"
    /\ IF pay[p].tries + 1 < MaxTries
         THEN pay' = [pay EXCEPT ![p].tries = @ + 1]
         ELSE unknown /\ pay' = [pay EXCEPT ![p].st = "refund_failed",
                                            ![p].tries = 0]
    /\ UNCHANGED <<rowVars, bank, refundVars>>

\* Mutant: a retry asks under a request id of its own.
RefundRetry_renews(p) == /\ pay[p].st = "refund_failed"
                         /\ pay' = [pay EXCEPT ![p].st = "refund_pending",
                                               ![p].rid = @ + 1]
                         /\ UNCHANGED <<rowVars, bank, refundVars>>

\* deposit_refund_retry, by a manager: the same request id again.
RefundRetry(p) == /\ pay[p].st = "refund_failed"
                  /\ pay' = [pay EXCEPT ![p].st = "refund_pending"]
                  /\ UNCHANGED <<rowVars, bank, refundVars>>

\* deposit_refund_manual.  The manager looks at Qi's dashboard first: hands
\* over cash when Qi has not paid, and waits while Qi has the request open.
RefundManual(p) == /\ pay[p].st = "refund_failed"
                   /\ wire[p] # 0 => wire[p] \in back[p]
                   /\ pay' = [pay EXCEPT ![p].st = "refunded"]
                   /\ cash' = [cash EXCEPT ![p] = back[p] = {}]
                   /\ UNCHANGED <<rowVars, bank, wire, back>>

\* deposit_refund_request, by a manager, of any paid deposit.
RefundRequest(p) == /\ pay[p].st = "succeeded"
                    /\ pay' = [pay EXCEPT ![p] =
                                 BeginRefund(pay[p], TRUE)]
                    /\ UNCHANGED <<rowVars, bank, refundVars>>
=============================================================================
