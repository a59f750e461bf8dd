------------------------- MODULE CourtBookingProofs -------------------------
(***************************************************************************)
(* Proofs about court booking and online deposits, for any places, any     *)
(* number of rows and payments, any times, and Qi answering as it likes.   *)
(*                                                                         *)
(* A step is one of four kinds: it changes neither the rows nor the        *)
(* payments, only the rows, only one payment, or both.  RowsStep and       *)
(* PayStep say what the second and third kind may do, so that an invariant *)
(* that relates rows and payments meets each kind once.                    *)
(***************************************************************************)
EXTENDS CourtBooking, FiniteSetTheorems, TLAPS

QuietStep ==
    /\ UNCHANGED <<res, pay>>
    /\ \/ Clock \/ Manage
       \/ \E p \in Pays : QiCreates(p) \/ QiTakes(p) \/ QiDeclines(p)
                            \/ HearNotFound(p) \/ CancelAtQi(p)
                            \/ SendRefund(p) \/ QiPaysBack(p)
                            \/ QiDropsRefund(p)

RowsStep ==
    \E now \in Began :
       \/ \E r \in 1..MaxRows, place \in Places :
             \/ \E g \in Guests : HoldSlot(r, g, place, now)
             \/ StaffCreate(r, place, now)
       \/ \E r \in Rows, place \in Places :
             \/ ReleaseHold(r)
             \/ \E desk \in BOOLEAN : ConfirmBooking(r, desk, now)
             \/ MarkArrived(r) \/ MarkCompleted(r, now)
             \/ MoveReservation(r, place, now)
             \/ ExtendReservation(r, place, now)
       \/ \E unseen \in SUBSET Pays : CronSweep(now, unseen)

PayStep(p) == \/ MarkCreated(p) \/ ApplyFailed(p) \/ CancelFails(p)
              \/ RefundSucceeded(p) \/ RefundFailed(p)
              \/ \E unknown \in BOOLEAN : RefundUnheard(p, unknown)
              \/ RefundRetry(p) \/ RefundManual(p) \/ RefundRequest(p)

BothStep == \/ \E now \in Began, r \in Rows :
                  \/ \E p \in Pays : DepositPrepare(p, r, now)
                  \/ \E desk \in BOOLEAN : CancelReservation(r, desk, now)
                  \/ \E keep \in BOOLEAN : MarkNoShow(r, now, keep)
            \/ \E now \in Began, p \in Pays, offline \in BOOLEAN :
                  ApplySuccess(p, now, offline)
            \/ \E p \in Pays : ApplyExpired(p)

\* Every step is of one of the kinds.
LEMMA StepKinds ==
    ASSUME DepositsTypeOK
    PROVE  [BookingNext]_depositVars =>
        QuietStep \/ RowsStep \/ (\E p \in Pays : PayStep(p)) \/ BothStep
                  \/ UNCHANGED depositVars
<1> SUFFICES ASSUME BookingNext
             PROVE  \/ QuietStep \/ RowsStep \/ BothStep
                    \/ \E p \in Pays : PayStep(p)
  OBVIOUS
<1> USE BookingAssumption
<1>1. CASE Clock
  BY <1>1 DEF Clock, Tick, QuietStep, payVars
<1>0. CASE Manage
  BY <1>0 DEF Manage, SaveRules, QuietStep, payVars
<1>2. ASSUME NEW now \in Began, Book(now) PROVE RowsStep
  <2>1. ASSUME NEW r \in 1..MaxRows, NEW place \in Places,
               \/ \E g \in Guests : HoldSlot(r, g, place, now)
               \/ StaffCreate(r, place, now)
        PROVE  RowsStep
    BY <2>1 DEF RowsStep
  <2>2. ASSUME NEW r \in Rows, NEW desk \in BOOLEAN, ConfirmBooking(r, desk, now)
        PROVE  RowsStep
    BY <2>2, RowsAssumption DEF RowsStep
  <2>3. ASSUME NEW unseen \in SUBSET Pays, CronSweep(now, unseen) PROVE RowsStep
    BY <2>3 DEF RowsStep
  <2> QED BY <1>2, <2>1, <2>2, <2>3 DEF Book
<1>3. ASSUME NEW now \in Began, Pay(now) PROVE BothStep
  BY <1>3 DEF Pay, BothStep
<1>4. ASSUME NEW now \in Began, NEW r \in Rows, Serve(r, now)
      PROVE  RowsStep \/ BothStep
  <2>1. CASE \/ \E desk \in BOOLEAN : CancelReservation(r, desk, now)
             \/ \E keep \in BOOLEAN : MarkNoShow(r, now, keep)
    BY <2>1 DEF BothStep
  <2>2. CASE MarkCompleted(r, now)
    BY <2>2, RowsAssumption DEF RowsStep
  <2>3. CASE \E place \in Places : \/ MoveReservation(r, place, now)
                                   \/ ExtendReservation(r, place, now)
    BY <2>3 DEF RowsStep
  <2> QED BY <1>4, <2>1, <2>2, <2>3 DEF Serve
<1>5. ASSUME NEW p \in Pays, AtQi(p) \/ Trouble(p) \/ Refund(p)
      PROVE  QuietStep \/ BothStep \/ PayStep(p)
  <2>1. CASE \/ QiCreates(p) \/ QiTakes(p) \/ QiDeclines(p) \/ HearNotFound(p)
             \/ CancelAtQi(p) \/ SendRefund(p) \/ QiPaysBack(p)
             \/ QiDropsRefund(p)
    BY <2>1 DEF QuietStep, QiCreates, QiTakes, QiDeclines, HearNotFound,
                CancelAtQi, SendRefund, QiPaysBack, QiDropsRefund, rowVars, payVars
  <2>2. CASE ApplyExpired(p)
    BY <2>2 DEF BothStep
  <2> QED BY <1>5, <2>1, <2>2 DEF AtQi, Trouble, Refund, PayStep
<1>6. Played \subseteq Rows
  BY DEF Played
<1>7. ASSUME NEW r \in Rows, ReleaseHold(r) \/ MarkArrived(r) PROVE RowsStep
  <2>1. clock \in Began
    BY RowsAssumption DEF DepositsTypeOK, RowsTypeOK, Began
  <2> QED BY <1>7, <2>1, RowsAssumption DEF RowsStep
<1> QED BY <1>0, <1>1, <1>2, <1>3, <1>4, <1>5, <1>6, <1>7 DEF BookingNext

-----------------------------------------------------------------------------
(* Types *)

\* The numbers of the model are numbers.
LEMMA Numbers ==
    /\ MaxRows \in Nat /\ MaxPays \in Nat /\ Ttl \in Nat /\ Window \in Nat
    /\ Grace \in Nat /\ Lag \in Nat /\ MaxClock \in Nat
    /\ Rows \subseteq Nat /\ Pays \subseteq Nat /\ 1..MaxRows \subseteq Rows
    /\ \A p \in Pays : MaxRows + p \in Rows /\ MaxRows + p \notin 1..MaxRows
    /\ Began \subseteq Nat
BY RowsAssumption, DepositAssumption DEF Rows, Pays, Began

\* A transaction began in the past, at most Lag ago.
LEMMA BeganBefore ==
    ASSUME DepositsTypeOK, NEW now \in Began
    PROVE  now \in Nat /\ clock \in Nat /\ now <= clock /\ clock <= now + Lag
BY RowsAssumption DEF DepositsTypeOK, RowsTypeOK, Began

RowRec == [st : Statuses, guest : Guests \cup {NoGuest}, place : Places, exp : Nat]

\* What expiring some rows does.
LEMMA ExpiredRows ==
    ASSUME DepositsTypeOK, NEW gone \in SUBSET Rows
    PROVE  /\ Expired(gone) \in [Rows -> RowRec]
           /\ \A r \in Rows :
                /\ Expired(gone)[r].st = IF r \in gone THEN "expired" ELSE res[r].st
                /\ Expired(gone)[r].guest = res[r].guest
                /\ Expired(gone)[r].place = res[r].place
                /\ r \notin gone => Expired(gone)[r] = res[r]
BY DEF DepositsTypeOK, RowsTypeOK, RowRec, Expired, Statuses

\* The holds a sweep expires are pending rows.
LEMMA StaleAreHolds ==
    ASSUME NEW now, NEW place, NEW paying
    PROVE  /\ StaleHolds(now, place, paying) \in SUBSET Rows
           /\ \A r \in StaleHolds(now, place, paying) :
                 res[r].st = "pending" /\ res[r].exp < now /\ r \notin paying
BY DEF StaleHolds

\* What a step that only changes rows does to each of them.
RowsKeep ==
    /\ res' \in [Rows -> RowRec]
    /\ \A r \in Rows :
         /\ Booked(r) => Booked(r)'
         /\ res[r].st # "none" => /\ res'[r].st # "none"
                                  /\ res'[r].guest = res[r].guest
         /\ r \notin 1..MaxRows =>
               /\ res[r].st = "none" => res'[r] = res[r]
               /\ res'[r].st = "pending" => res[r].st = "pending"

\* A sweep keeps bookings.
LEMMA SweepKeeps ==
    ASSUME DepositsTypeOK, NEW gone \in SUBSET Rows,
           \A r \in gone : res[r].st = "pending",
           res' = Expired(gone)
    PROVE  RowsKeep
BY ExpiredRows DEF RowsKeep, Booked, DepositsTypeOK, RowsTypeOK

\* A new row is one of the first MaxRows.
LEMMA NewRowKeeps ==
    ASSUME DepositsTypeOK, NEW gone \in SUBSET Rows,
           \A r \in gone : res[r].st = "pending",
           NEW row \in RowRec, NEW n \in 1..MaxRows, res[n].st = "none",
           row.st # "none", res' = [Expired(gone) EXCEPT ![n] = row]
    PROVE  RowsKeep
<1>1. n \in Rows
  BY Numbers
<1>2. /\ res' \in [Rows -> RowRec]
      /\ res'[n] = row
      /\ \A r \in Rows \ {n} : res'[r] = Expired(gone)[r]
  <2>1. Expired(gone) \in [Rows -> RowRec]
    BY ExpiredRows
  <2> QED BY <1>1, <2>1
<1>3. \A r \in Rows \ {n} : Booked(r) => Booked(r)'
  BY <1>2, ExpiredRows DEF Booked
<1>4. ~Booked(n)
  BY DEF Booked
<1> QED BY <1>1, <1>2, <1>3, <1>4, ExpiredRows DEF RowsKeep

\* A row that changes place stays what it is, or lapses if it was a hold.
LEMMA RelocateKeeps ==
    ASSUME DepositsTypeOK, NEW r \in Rows, NEW place \in Places,
           NEW now, Relocate(r, place, now), Live(r)
    PROVE  RowsKeep
<1> DEFINE gone == StaleHolds(now, place, Paying(now, Pays))
<1>1. gone \in SUBSET Rows /\ \A q \in gone : res[q].st = "pending"
  BY StaleAreHolds
<1>2. res' = [Expired(gone) EXCEPT ![r].place = place]
  BY DEF Relocate
<1>3. Expired(gone) \in [Rows -> RowRec]
  BY <1>1, ExpiredRows
<1> HIDE DEF gone
<1>4. /\ res' \in [Rows -> RowRec]
      /\ \A q \in Rows : /\ res'[q].st = Expired(gone)[q].st
                         /\ res'[q].guest = Expired(gone)[q].guest
                         /\ q # r => res'[q] = Expired(gone)[q]
  BY <1>2, <1>3 DEF RowRec
<1>5. \A q \in Rows : Booked(q) => Booked(q)'
  BY <1>1, <1>4, ExpiredRows DEF Booked
<1>6. res[r].st # "none"
  BY DEF Live
<1> QED BY <1>1, <1>4, <1>5, <1>6, ExpiredRows DEF RowsKeep

\* Every action on rows keeps bookings, guests and the rows of late payments.
LEMMA RowsStepKeeps ==
    ASSUME DepositsTypeOK, RowsStep
    PROVE  RowsKeep /\ UNCHANGED <<clock, ruled, payVars, refundVars>>
<1> USE Numbers
<1>1. ASSUME NEW now \in Began, NEW r \in 1..MaxRows, NEW place \in Places,
             \/ \E g \in Guests : HoldSlot(r, g, place, now)
             \/ StaffCreate(r, place, now)
      PROVE  RowsKeep /\ UNCHANGED <<clock, ruled, payVars, refundVars>>
  <2> DEFINE gone == StaleHolds(now, place, Paying(now, Pays))
  <2>1. gone \in SUBSET Rows /\ \A q \in gone : res[q].st = "pending"
    BY StaleAreHolds
  <2> HIDE DEF gone
  <2>2. CASE \E g \in Guests : HoldSlot(r, g, place, now)
    <3> PICK g \in Guests : HoldSlot(r, g, place, now)
      BY <2>2
    <3>1. [st |-> "pending", guest |-> g, place |-> place, exp |-> now + Ttl]
            \in RowRec
      BY DEF RowRec, Statuses
    <3> QED BY <2>1, <3>1, NewRowKeeps DEF HoldSlot, IsNextRow, gone
  <2>3. CASE StaffCreate(r, place, now)
    <3>1. [st |-> "confirmed", guest |-> NoGuest, place |-> place, exp |-> 0]
            \in RowRec
      BY DEF RowRec, Statuses
    <3> QED BY <2>1, <2>3, <3>1, NewRowKeeps DEF StaffCreate, IsNextRow, gone
  <2> QED BY <1>1, <2>2, <2>3
<1>2. ASSUME NEW now \in Began, NEW r \in Rows, NEW place \in Places,
             \/ ReleaseHold(r)
             \/ \E desk \in BOOLEAN : ConfirmBooking(r, desk, now)
             \/ MarkArrived(r) \/ MarkCompleted(r, now)
             \/ MoveReservation(r, place, now) \/ ExtendReservation(r, place, now)
      PROVE  RowsKeep /\ UNCHANGED <<clock, ruled, payVars, refundVars>>
  <2>1. CASE ReleaseHold(r)
    BY <2>1, SweepKeeps DEF ReleaseHold
  <2>2. CASE \/ \E desk \in BOOLEAN : ConfirmBooking(r, desk, now)
             \/ MarkArrived(r) \/ MarkCompleted(r, now)
    <3>1. res \in [Rows -> RowRec]
      BY DEF DepositsTypeOK, RowsTypeOK, RowRec
    <3>2. PICK st \in {"confirmed", "arrived", "completed"}, exp \in Nat :
             res' = [res EXCEPT ![r].st = st, ![r].exp = exp]
      <4>1. CASE \E desk \in BOOLEAN : ConfirmBooking(r, desk, now)
        BY <4>1 DEF ConfirmBooking
      <4>2. res[r].exp \in Nat
        BY <3>1 DEF RowRec
      <4>3. CASE MarkArrived(r)
        BY <3>1, <4>2, <4>3 DEF MarkArrived, RowRec
      <4>4. CASE MarkCompleted(r, now)
        BY <3>1, <4>2, <4>4 DEF MarkCompleted, RowRec
      <4> QED BY <2>2, <4>1, <4>3, <4>4
    <3>3. res[r].st \in {"pending", "confirmed", "arrived"}
      BY <2>2 DEF ConfirmBooking, MarkArrived, MarkCompleted
    <3>4. st \in Statuses
      BY DEF Statuses
    <3>5. /\ res' \in [Rows -> RowRec]
          /\ res'[r].st = st /\ res'[r].guest = res[r].guest
          /\ \A q \in Rows \ {r} : res'[q] = res[q]
      BY <3>1, <3>2, <3>4 DEF RowRec
    <3>6. UNCHANGED <<clock, ruled, payVars, refundVars>>
      BY <2>2 DEF ConfirmBooking, MarkArrived, MarkCompleted
    <3> QED BY <3>3, <3>5, <3>6 DEF RowsKeep, Booked
  <2>3. CASE MoveReservation(r, place, now) \/ ExtendReservation(r, place, now)
    BY <2>3, RelocateKeeps DEF MoveReservation, ExtendReservation, Relocate
  <2> QED BY <1>2, <2>1, <2>2, <2>3
<1>3. ASSUME NEW now \in Began, NEW unseen \in SUBSET Pays, CronSweep(now, unseen)
      PROVE  RowsKeep /\ UNCHANGED <<clock, ruled, payVars, refundVars>>
  BY <1>3, SweepKeeps DEF CronSweep
<1> QED BY <1>1, <1>2, <1>3 DEF RowsStep

\* What a step of one payment leaves alone.
LEMMA PayStepFrame ==
    ASSUME NEW p \in Pays, PayStep(p)
    PROVE  UNCHANGED <<clock, res, ruled>>
BY DEF PayStep, MarkCreated, ApplyFailed, CancelFails, RefundSucceeded,
       RefundFailed, RefundUnheard, RefundRetry, RefundManual, RefundRequest,
       rowVars

\* A payment that ended, and one whose refund begins.
LEMMA PaymentRecords ==
    ASSUME DepositsTypeOK, NEW p \in Pays,
           NEW st \in {"none", "succeeded"} \cup OpenStates \cup WrittenOff
                         \cup Refunding
    PROVE  /\ Ended(p, st) \in Payments
           /\ Ended(p, st).st = st
           /\ Ended(p, st).hold = pay[p].hold
           /\ Ended(p, st).res = pay[p].res /\ Ended(p, st).kept = pay[p].kept
           /\ Ended(p, st).byStaff = pay[p].byStaff
           /\ Ended(p, st).rid = pay[p].rid
           /\ Ended(p, st).known = pay[p].known
<1>1. pay[p] \in Payments
  BY DEF DepositsTypeOK
<1>2. 0 \in 0..MaxCancels /\ 0 \in Nat
  BY DepositAssumption
<1> QED BY <1>1, <1>2 DEF Payments, Ended

\* deposit_begin_refund.
LEMMA RefundRecords ==
    ASSUME NEW v \in Payments, NEW byStaff \in BOOLEAN
    PROVE  /\ BeginRefund(v, byStaff) \in Payments
           /\ BeginRefund(v, byStaff).st = "refund_pending"
           /\ BeginRefund(v, byStaff).hold = v.hold
           /\ BeginRefund(v, byStaff).res = v.res
           /\ BeginRefund(v, byStaff).kept = v.kept
           /\ BeginRefund(v, byStaff).byStaff = byStaff
           /\ BeginRefund(v, byStaff).rid = v.rid + 1
           /\ BeginRefund(v, byStaff).known = v.known
<1>1. /\ 0 \in 0..(MaxTries - 1) /\ v.rid + 1 \in Nat
      /\ "refund_pending" \in Refunding
  BY DepositAssumption DEF Payments, Refunding
<1> QED BY <1>1 DEF Payments, BeginRefund

\* What a step of one payment does to it: v is its row afterwards.
PayKeep(p, v) ==
    /\ v \in Payments
    /\ pay' = [pay EXCEPT ![p] = v]
    /\ v.hold = pay[p].hold /\ v.res = pay[p].res /\ v.kept = pay[p].kept
    /\ v.st \in OpenStates => v.deadline = pay[p].deadline
    /\ \/ /\ v.byStaff = pay[p].byStaff /\ v.rid = pay[p].rid
          /\ \/ v.st = pay[p].st
             \/ Open(p) /\ v.st \in OpenStates \cup WrittenOff
             \/ pay[p].st \in Refunding /\ v.st \in Refunding
       \/ /\ pay[p].st = "succeeded" /\ v.st = "refund_pending"
          /\ v.byStaff /\ v.rid = pay[p].rid + 1

\* A step of one payment keeps its row, its hold and its standing.
LEMMA PayStepKeeps ==
    ASSUME DepositsTypeOK, NEW p \in Pays, PayStep(p)
    PROVE  /\ \E v : PayKeep(p, v)
           /\ bank' \in [Pays -> SUBSET BankStates]
           /\ \A q \in Pays : "paid" \in bank'[q] <=> "paid" \in bank[q]
<1>1. pay[p] \in Payments /\ bank \in [Pays -> SUBSET BankStates]
  BY DEF DepositsTypeOK
<1> USE DEF Refunding, OpenStates, WrittenOff, Open
<1>2. CASE MarkCreated(p)
  <2> DEFINE v == [pay[p] EXCEPT !.st = IF @ = "created" THEN "pending" ELSE @,
                                 !.known = TRUE]
  <2>1. pay' = [pay EXCEPT ![p] = v] /\ bank' = bank
    BY <1>2 DEF MarkCreated, DepositsTypeOK, Payments
  <2>2. /\ v \in Payments /\ v.hold = pay[p].hold /\ v.res = pay[p].res
        /\ v.kept = pay[p].kept /\ v.deadline = pay[p].deadline
        /\ v.byStaff = pay[p].byStaff /\ v.rid = pay[p].rid
        /\ v.st = IF pay[p].st = "created" THEN "pending" ELSE pay[p].st
    BY <1>1 DEF Payments
  <2> QED BY <1>1, <2>1, <2>2 DEF PayKeep
<1>3. CASE ApplyFailed(p)
  <2>1. PayKeep(p, Ended(p, "failed"))
    BY <1>3, PaymentRecords DEF PayKeep, ApplyFailed
  <2> QED BY <1>1, <1>3, <2>1 DEF ApplyFailed, Forget
<1>4. CASE CancelFails(p)
  <2> DEFINE v == [pay[p] EXCEPT !.cancels = @ + 1]
  <2>1. pay[p].cancels + 1 \in 0..MaxCancels
    BY <1>1, <1>4, DepositAssumption DEF Payments, CancelFails
  <2>2. v \in Payments
    BY <1>1, <2>1 DEF Payments
  <2>3. PayKeep(p, v)
    BY <1>1, <1>4, <2>2 DEF PayKeep, CancelFails, Payments, DepositsTypeOK
  <2> QED BY <1>1, <1>4, <2>3 DEF CancelFails
<1>5. CASE \/ RefundSucceeded(p) \/ RefundFailed(p) \/ RefundManual(p)
           \/ RefundRetry(p) \/ \E unknown \in BOOLEAN : RefundUnheard(p, unknown)
  <2>1. PICK st \in Refunding, n \in 0..(MaxTries - 1) :
           pay' = [pay EXCEPT ![p] = [pay[p] EXCEPT !.st = st, !.tries = n]]
    <3>1. 0 \in 0..(MaxTries - 1) /\ pay[p].tries \in 0..(MaxTries - 1)
      BY <1>1, DepositAssumption DEF Payments
    <3>2. pay \in [Pays -> Payments]
      BY DEF DepositsTypeOK
    <3>3. \A st : [pay[p] EXCEPT !.st = st]
                    = [pay[p] EXCEPT !.st = st, !.tries = pay[p].tries]
      BY <1>1 DEF Payments
    <3>4. CASE RefundSucceeded(p) \/ RefundFailed(p)
      BY <3>1, <3>2, <3>4 DEF RefundSucceeded, RefundFailed
    <3>5. CASE RefundManual(p) \/ RefundRetry(p)
      <4>1. PICK st \in Refunding : pay' = [pay EXCEPT ![p].st = st]
        BY <3>5 DEF RefundManual, RefundRetry
      <4>2. pay' = [pay EXCEPT ![p] = [pay[p] EXCEPT !.st = st]]
        BY <4>1
      <4> QED BY <3>1, <3>3, <4>2
    <3>6. CASE \E unknown \in BOOLEAN : RefundUnheard(p, unknown)
      <4>1. pay[p].st = "refund_pending"
        BY <3>6 DEF RefundUnheard
      <4>2. CASE pay[p].tries + 1 < MaxTries
        <5>1. pay[p].tries + 1 \in 0..(MaxTries - 1)
          BY <3>1, <4>2, DepositAssumption
        <5>2. pay' = [pay EXCEPT ![p] = [pay[p] EXCEPT !.tries = pay[p].tries + 1]]
          BY <3>6, <4>2 DEF RefundUnheard
        <5>3. [pay[p] EXCEPT !.tries = pay[p].tries + 1]
                = [pay[p] EXCEPT !.st = "refund_pending", !.tries = pay[p].tries + 1]
          BY <1>1, <4>1 DEF Payments
        <5> QED BY <5>1, <5>2, <5>3
      <4>3. CASE ~(pay[p].tries + 1 < MaxTries)
        BY <3>1, <3>6, <4>3 DEF RefundUnheard
      <4> QED BY <4>2, <4>3
    <3> QED BY <1>5, <3>4, <3>5, <3>6
  <2> DEFINE v == [pay[p] EXCEPT !.st = st, !.tries = n]
  <2>2. /\ v \in Payments /\ v.hold = pay[p].hold /\ v.res = pay[p].res
        /\ v.kept = pay[p].kept /\ v.byStaff = pay[p].byStaff
        /\ v.rid = pay[p].rid /\ v.st = st
    BY <1>1, <2>1 DEF Payments
  <2>3. pay[p].st \in Refunding /\ bank' = bank
    BY <1>5 DEF RefundSucceeded, RefundFailed, RefundManual, RefundRetry,
                RefundUnheard
  <2> HIDE DEF v
  <2>4. pay' = [pay EXCEPT ![p] = v]
    BY <2>1 DEF v
  <2>5. PayKeep(p, v)
    BY <2>1, <2>2, <2>3, <2>4 DEF PayKeep
  <2> QED BY <1>1, <2>3, <2>5
<1>6. CASE RefundRequest(p)
  <2>1. PayKeep(p, BeginRefund(pay[p], TRUE))
    BY <1>1, <1>6, RefundRecords DEF PayKeep, RefundRequest
  <2> QED BY <1>1, <1>6, <2>1 DEF RefundRequest
<1> QED BY <1>2, <1>3, <1>4, <1>5, <1>6 DEF PayStep

\* The three ways a paid attempt becomes a booking's deposit, and the one in
\* which it is refunded; `gone` are the lapsed holds in its way.
KeepsIt(p) == /\ Booked(pay[p].res)
              /\ pay' = [pay EXCEPT ![p] = Settled(p)] /\ res' = res

ConfirmsIt(p) == /\ res[pay[p].res].st = "pending"
                 /\ pay' = [pay EXCEPT ![p] = Settled(p)]
                 /\ res' = [res EXCEPT ![pay[p].res].st = "confirmed",
                                       ![pay[p].res].exp = 0]

RecreatesIt(p, gone) ==
    /\ res[pay[p].res].st = "expired"
    /\ FreeBut(gone, res[pay[p].res].place)
    /\ pay' = [pay EXCEPT ![p] = [Settled(p) EXCEPT !.res = MaxRows + p]]
    /\ res' = [Expired(gone) EXCEPT ![MaxRows + p] =
                 [res[pay[p].res] EXCEPT !.st = "confirmed", !.exp = 0]]

RefundsIt(p, gone) ==
    /\ pay' = [pay EXCEPT ![p] = BeginRefund(Settled(p), FALSE)]
    /\ res' = Expired(gone)

\* deposit_settle_success does one of the four.
LEMMA ApplySuccessCases ==
    ASSUME DepositsTypeOK, NEW p \in Pays, NEW now \in Began,
           NEW offline \in BOOLEAN, ApplySuccess(p, now, offline)
    PROVE  \E gone \in SUBSET Rows :
             /\ gone = {} \/ \E place \in Places :
                   gone = StaleHolds(now, place, Paying(now, Pays))
             /\ \A r \in gone : res[r].st = "pending"
             /\ \/ /\ PaidFor(pay[p].res) \ {p} = {}
                   /\ KeepsIt(p) \/ ConfirmsIt(p) \/ RecreatesIt(p, gone)
                \/ RefundsIt(p, gone)
<1> DEFINE r    == pay[p].res
           how  == Settlement(p, now, offline)
           swept == IF res[r].st = "expired" /\ now < res[r].place.to
                      THEN StaleHolds(now, res[r].place, Paying(now, Pays))
                      ELSE {}
<1>1. r \in Rows
  BY DEF DepositsTypeOK, Payments
<1>2. res[r].place \in Places
  BY <1>1 DEF DepositsTypeOK, RowsTypeOK
<1>3. /\ swept \in SUBSET Rows
      /\ \A q \in swept : res[q].st = "pending"
      /\ swept = {} \/ \E place \in Places :
            swept = StaleHolds(now, place, Paying(now, Pays))
  BY <1>2, StaleAreHolds
<1>4. CASE how = "keep"
  <2>1. PaidFor(r) \ {p} = {} /\ Booked(r)
    BY <1>4 DEF Settlement
  <2>2. KeepsIt(p)
    BY <1>4, <2>1 DEF ApplySuccess, KeepsIt
  <2> QED BY <1>3, <2>1, <2>2
<1>5. CASE how = "confirm"
  <2>1. PaidFor(r) \ {p} = {} /\ res[r].st = "pending"
    BY <1>5 DEF Settlement
  <2>2. ConfirmsIt(p)
    BY <1>5, <2>1 DEF ApplySuccess, ConfirmsIt
  <2> QED BY <1>3, <2>1, <2>2
<1>6. CASE how = "recreate"
  <2>1. /\ PaidFor(r) \ {p} = {} /\ res[r].st = "expired"
        /\ now < res[r].place.to
        /\ FreeBut(StaleHolds(now, res[r].place, Paying(now, Pays)), res[r].place)
    BY <1>6 DEF Settlement
  <2>2. RecreatesIt(p, swept)
    BY <1>6, <2>1 DEF ApplySuccess, RecreatesIt
  <2> QED BY <1>3, <2>1, <2>2
<1>7. CASE how \notin {"keep", "confirm", "recreate"}
  <2>1. RefundsIt(p, swept)
    BY <1>7 DEF ApplySuccess, RefundsIt
  <2> QED BY <1>3, <2>1
<1> QED BY <1>4, <1>5, <1>6, <1>7

\* An attempt that settles keeps its hold; its refund carries the first id.
LEMMA SettledRecords ==
    ASSUME DepositsTypeOK, NEW p \in Pays
    PROVE  /\ Settled(p) \in Payments /\ Settled(p).st = "succeeded"
           /\ Settled(p).hold = pay[p].hold /\ Settled(p).res = pay[p].res
           /\ Settled(p).kept = pay[p].kept /\ Settled(p).rid = pay[p].rid
           /\ Settled(p).byStaff = pay[p].byStaff
           /\ LET late == [Settled(p) EXCEPT !.res = MaxRows + p] IN
                /\ late \in Payments /\ late.st = "succeeded"
                /\ late.hold = pay[p].hold /\ late.res = MaxRows + p
                /\ late.kept = pay[p].kept /\ late.rid = pay[p].rid
                /\ late.byStaff = pay[p].byStaff
<1>1. /\ Settled(p) \in Payments /\ Settled(p).st = "succeeded"
      /\ Settled(p).hold = pay[p].hold /\ Settled(p).res = pay[p].res
      /\ Settled(p).kept = pay[p].kept /\ Settled(p).rid = pay[p].rid
      /\ Settled(p).byStaff = pay[p].byStaff
  BY PaymentRecords DEF Settled
<1>2. MaxRows + p \in Rows
  BY Numbers
<1> HIDE DEF Settled
<1> QED BY <1>1, <1>2 DEF Payments

\* A row a late payment books: the hold, confirmed.
LEMMA ConfirmedRow ==
    ASSUME DepositsTypeOK, NEW r \in Rows
    PROVE  LET row == [res[r] EXCEPT !.st = "confirmed", !.exp = 0] IN
             /\ row \in RowRec /\ row.st = "confirmed"
             /\ row.guest = res[r].guest /\ row.place = res[r].place
BY DEF DepositsTypeOK, RowsTypeOK, RowRec, Statuses

\* Nothing was paid at first.
LEMMA NoPaymentTyped == ASSUME NEW p \in Pays PROVE NoPayment \in Payments
<1>1. 1 \in Rows
  BY Numbers DEF Rows, Pays
<1> QED BY <1>1, DepositAssumption DEF NoPayment, Payments

\* What the actions on rows and payments do keeps their types.
LEMMA BothTyped ==
    ASSUME DepositsTypeOK, BothStep
    PROVE  /\ res' \in [Rows -> RowRec]
           /\ pay' \in [Pays -> Payments]
           /\ bank' \in [Pays -> SUBSET BankStates]
           /\ UNCHANGED <<clock, ruled, refundVars>>
<1> USE DEF DepositsTypeOK
<1>0. res \in [Rows -> RowRec] /\ pay \in [Pays -> Payments]
      /\ bank \in [Pays -> SUBSET BankStates]
  BY DEF RowsTypeOK, RowRec
<1>1. ASSUME NEW now \in Began, NEW r \in Rows, NEW p \in Pays,
             DepositPrepare(p, r, now)
      PROVE  /\ res' \in [Rows -> RowRec] /\ pay' \in [Pays -> Payments]
             /\ bank' = bank /\ UNCHANGED <<clock, ruled, refundVars>>
  <2>1. now + Window \in Nat
    BY Numbers
  <2>2. [NoPayment EXCEPT !.st = "created", !.hold = r, !.res = r,
                          !.deadline = now + Window] \in Payments
    <3>1. NoPayment \in Payments
      BY NoPaymentTyped
    <3> QED BY <2>1, <3>1 DEF Payments, OpenStates
  <2>3. pay' \in [Pays -> Payments]
    BY <1>0, <1>1, <2>2 DEF DepositPrepare
  <2>4. res' \in [Rows -> RowRec]
    BY <1>0, <1>1, <2>1 DEF DepositPrepare, RowRec
  <2> QED BY <1>1, <2>3, <2>4 DEF DepositPrepare
<1>2. ASSUME NEW r \in Rows, pay' = RefundAll(r) \/ pay' = KeepAll(r)
      PROVE  pay' \in [Pays -> Payments]
  <2>1. ASSUME NEW p \in Pays
        PROVE  /\ BeginRefund(pay[p], FALSE) \in Payments
               /\ [pay[p] EXCEPT !.kept = TRUE] \in Payments
    <3>1. pay[p] \in Payments
      BY <1>0
    <3>2. [pay[p] EXCEPT !.kept = TRUE] \in Payments
      BY <3>1 DEF Payments
    <3> QED BY <3>1, <3>2, RefundRecords
  <2> QED BY <1>0, <1>2, <2>1 DEF RefundAll, KeepAll
<1>3. ASSUME NEW now \in Began, NEW r \in Rows, NEW desk \in BOOLEAN,
             CancelReservation(r, desk, now)
      PROVE  /\ res' \in [Rows -> RowRec] /\ pay' \in [Pays -> Payments]
             /\ bank' = bank /\ UNCHANGED <<clock, ruled, refundVars>>
  BY <1>0, <1>2, <1>3 DEF CancelReservation, RowRec, Statuses
<1>4. ASSUME NEW now \in Began, NEW r \in Rows, NEW keep \in BOOLEAN,
             MarkNoShow(r, now, keep)
      PROVE  /\ res' \in [Rows -> RowRec] /\ pay' \in [Pays -> Payments]
             /\ bank' = bank /\ UNCHANGED <<clock, ruled, refundVars>>
  <2>1. pay' = RefundAll(r) \/ pay' = KeepAll(r)
    BY <1>4 DEF MarkNoShow
  <2> QED BY <1>0, <1>2, <1>4, <2>1 DEF MarkNoShow, RowRec, Statuses
<1>5. ASSUME NEW now \in Began, NEW p \in Pays, NEW offline \in BOOLEAN,
             ApplySuccess(p, now, offline)
      PROVE  /\ res' \in [Rows -> RowRec] /\ pay' \in [Pays -> Payments]
             /\ bank' \in [Pays -> SUBSET BankStates]
             /\ UNCHANGED <<clock, ruled, refundVars>>
  <2>1. PICK gone \in SUBSET Rows :
           \/ KeepsIt(p) \/ ConfirmsIt(p) \/ RecreatesIt(p, gone)
           \/ RefundsIt(p, gone)
    BY <1>5, ApplySuccessCases
  <2>2. pay[p].res \in Rows
    BY <1>0 DEF Payments
  <2>3. CASE KeepsIt(p) \/ ConfirmsIt(p)
    <3>1. pay' \in [Pays -> Payments]
      BY <1>0, <2>3, SettledRecords DEF KeepsIt, ConfirmsIt
    <3>2. res' \in [Rows -> RowRec]
      <4>1. CASE KeepsIt(p)
        BY <1>0, <4>1 DEF KeepsIt
      <4>2. CASE ConfirmsIt(p)
        BY <1>0, <2>2, <4>2 DEF ConfirmsIt, RowRec, Statuses
      <4> QED BY <2>3, <4>1, <4>2
    <3>3. bank' \in [Pays -> SUBSET BankStates] /\ UNCHANGED <<clock, ruled, refundVars>>
      BY <1>0, <1>5 DEF ApplySuccess, Forget
    <3> QED BY <3>1, <3>2, <3>3
  <2>4. CASE RecreatesIt(p, gone)
    <3>1. pay' \in [Pays -> Payments]
      BY <1>0, <2>4, SettledRecords DEF RecreatesIt
    <3>2. res' \in [Rows -> RowRec]
      BY <2>2, <2>4, ConfirmedRow, ExpiredRows DEF RecreatesIt
    <3>3. bank' \in [Pays -> SUBSET BankStates] /\ UNCHANGED <<clock, ruled, refundVars>>
      BY <1>0, <1>5 DEF ApplySuccess, Forget
    <3> QED BY <3>1, <3>2, <3>3
  <2>5. CASE RefundsIt(p, gone)
    <3>1. BeginRefund(Settled(p), FALSE) \in Payments
      BY SettledRecords, RefundRecords
    <3>2. pay' \in [Pays -> Payments] /\ res' \in [Rows -> RowRec]
      BY <1>0, <2>5, <3>1, ExpiredRows DEF RefundsIt
    <3>3. bank' \in [Pays -> SUBSET BankStates] /\ UNCHANGED <<clock, ruled, refundVars>>
      BY <1>0, <1>5 DEF ApplySuccess, Forget
    <3> QED BY <3>2, <3>3
  <2> QED BY <2>1, <2>3, <2>4, <2>5
<1>6. ASSUME NEW p \in Pays, ApplyExpired(p)
      PROVE  /\ res' \in [Rows -> RowRec] /\ pay' \in [Pays -> Payments]
             /\ bank' \in [Pays -> SUBSET BankStates]
             /\ UNCHANGED <<clock, ruled, refundVars>>
  <2>1. pay[p].hold \in Rows /\ "expired" \in WrittenOff
    BY <1>0 DEF Payments, WrittenOff
  <2>2. res' \in [Rows -> RowRec]
    BY <1>0, <1>6, <2>1, ExpiredRows DEF ApplyExpired
  <2> QED BY <1>0, <1>6, <2>1, <2>2, PaymentRecords DEF ApplyExpired, Forget
<1> QED BY <1>0, <1>1, <1>3, <1>4, <1>5, <1>6 DEF BothStep

\* Every step keeps the types.
LEMMA TypeStep ==
    ASSUME DepositsTypeOK, [BookingNext]_depositVars
    PROVE  DepositsTypeOK'
<1>0. CASE Manage
  BY <1>0, RowsAssumption DEF Manage, SaveRules, DepositsTypeOK, RowsTypeOK,
                              payVars, refundVars
<1>1. CASE QuietStep /\ ~Manage
  BY <1>1, Numbers
     DEF QuietStep, DepositsTypeOK, RowsTypeOK, Clock, Tick, QiCreates,
         QiTakes, QiDeclines, HearNotFound, CancelAtQi, SendRefund,
         QiPaysBack, QiDropsRefund, rowVars, payVars, refundVars,
         BankStates, Payments
<1>2. CASE RowsStep
  BY <1>2, RowsStepKeeps
     DEF RowsKeep, RowRec, DepositsTypeOK, RowsTypeOK, payVars, refundVars
<1>3. ASSUME NEW p \in Pays, PayStep(p) PROVE DepositsTypeOK'
  <2>1. PICK v : PayKeep(p, v)
    BY <1>3, PayStepKeeps
  <2>2. pay' \in [Pays -> Payments]
    BY <2>1 DEF PayKeep, DepositsTypeOK
  <2>3. /\ wire' \in [Pays -> Nat] /\ back' = back
        /\ cash' \in [Pays -> BOOLEAN]
    <3>1. CASE RefundFailed(p)
      BY <3>1 DEF RefundFailed, DepositsTypeOK
    <3>2. CASE RefundManual(p)
      BY <3>2 DEF RefundManual, DepositsTypeOK
    <3>3. CASE UNCHANGED refundVars
      BY <3>3 DEF refundVars, DepositsTypeOK
    <3> QED BY <1>3, <3>1, <3>2, <3>3
            DEF PayStep, MarkCreated, ApplyFailed, CancelFails,
                RefundSucceeded, RefundUnheard, RefundRetry, RefundRequest
  <2> QED BY <1>3, <2>2, <2>3, PayStepKeeps, PayStepFrame
          DEF DepositsTypeOK, RowsTypeOK
<1>4. CASE BothStep
  BY <1>4, BothTyped DEF DepositsTypeOK, RowsTypeOK, RowRec, refundVars
<1>5. CASE UNCHANGED depositVars
  BY <1>5 DEF depositVars, rowVars, payVars, refundVars, DepositsTypeOK,
              RowsTypeOK
<1> QED BY <1>0, <1>1, <1>2, <1>3, <1>4, <1>5, StepKinds

\* Every row, payment, answer and refund request keeps its type.
THEOREM BookingTyped == BookingSpec => []BookingTypeOK
<1>1. DepositsInit => DepositsTypeOK
  <2> SUFFICES ASSUME DepositsInit PROVE DepositsTypeOK
    OBVIOUS
  <2>1. NoRow \in RowRec
    BY RowsAssumption DEF NoRow, RowRec, Statuses
  <2> QED BY <2>1, NoPaymentTyped, Numbers
          DEF DepositsInit, RowsInit, DepositsTypeOK, RowsTypeOK, RowRec
<1>2. DepositsTypeOK /\ [BookingNext]_depositVars => DepositsTypeOK'
  BY TypeStep
<1> QED BY <1>1, <1>2, PTL DEF BookingSpec, BookingTypeOK

-----------------------------------------------------------------------------
(* Payments and the bookings they are for *)

Unsettled == OpenStates \cup WrittenOff

\* A payment is for its hold, or for the row its late SUCCESS booked again;
\* nobody else's row is ever that one.
Links ==
    /\ \A r \in Rows : r \notin 1..MaxRows => res[r].st # "pending"
    /\ \A p \in Pays : pay[p].st # "none" =>
          /\ pay[p].hold \in 1..MaxRows
          /\ pay[p].res \in {pay[p].hold, MaxRows + p}
          /\ res[pay[p].hold].st # "none" /\ res[pay[p].res].st # "none"
          /\ res[pay[p].res].guest = res[pay[p].hold].guest
          /\ pay[p].st \in Unsettled => pay[p].res = pay[p].hold /\ ~pay[p].kept
    /\ \A p \in Pays : res[MaxRows + p].st # "none" =>
          pay[p].st # "none" /\ pay[p].res = MaxRows + p

\* What the books call paid, Qi took; what they call a booking's deposit has
\* a booking.
Paid == /\ \A p \in Pays : pay[p].st \in {"succeeded"} \cup Refunding
                              => "paid" \in bank[p]
        /\ \A p \in Pays : pay[p].st = "succeeded" /\ ~pay[p].kept
                              => Booked(pay[p].res)

DepositInv == Links /\ Paid /\ PaidOnce

\* A payment's state is of one kind only.
LEMMA StatesApart ==
    /\ \A st \in Refunding : st \notin Unsettled
    /\ "none" \notin Unsettled \cup Refunding
    /\ "succeeded" \notin Unsettled \cup Refunding
    /\ "refund_pending" \in Refunding /\ "refund_failed" \in Refunding
    /\ "refunded" \in Refunding
BY DEF Unsettled, OpenStates, WrittenOff, Refunding

\* Rows and payments are of their types (in the form the steps need).
LEMMA Shapes ==
    ASSUME DepositsTypeOK
    PROVE  /\ res \in [Rows -> RowRec] /\ pay \in [Pays -> Payments]
           /\ bank \in [Pays -> SUBSET BankStates]
           /\ \A p \in Pays : pay[p] \in Payments /\ pay[p].hold \in Rows
                                /\ pay[p].res \in Rows
BY DEF DepositsTypeOK, RowsTypeOK, RowRec, Payments

\* Only rows change: bookings stay, so deposits keep theirs.
LEMMA RowsStepDeposits ==
    ASSUME DepositsTypeOK, DepositInv, RowsStep
    PROVE  DepositInv'
<1>1. RowsKeep /\ pay' = pay /\ bank' = bank
  BY RowsStepKeeps DEF payVars
<1>2. Links'
  BY <1>1, Shapes, Numbers DEF Links, DepositInv, RowsKeep
<1>3. Paid'
  BY <1>1, Shapes DEF Paid, DepositInv, RowsKeep, Booked
<1>4. PaidOnce'
  BY <1>1 DEF PaidOnce, PaidFor, DepositInv
<1> QED BY <1>2, <1>3, <1>4 DEF DepositInv

\* One payment changes: it is settled or being refunded only if it was.
LEMMA PayStepDeposits ==
    ASSUME DepositsTypeOK, DepositInv, NEW p \in Pays, PayStep(p)
    PROVE  DepositInv'
<1>1. PICK v : PayKeep(p, v)
  BY PayStepKeeps
<1>2. res' = res /\ \A q \in Pays : "paid" \in bank'[q] <=> "paid" \in bank[q]
  BY PayStepKeeps, PayStepFrame
<1>3. /\ pay'[p] = v /\ \A q \in Pays \ {p} : pay'[q] = pay[q]
      /\ v.hold = pay[p].hold /\ v.res = pay[p].res /\ v.kept = pay[p].kept
  BY <1>1, Shapes DEF PayKeep
<1>4. /\ v.st # "none" => pay[p].st # "none"
      /\ pay[p].st # "none" => v.st # "none"
      /\ v.st \in Unsettled => pay[p].st \in Unsettled
      /\ v.st = "succeeded" => pay[p].st = "succeeded"
      /\ v.st \in Refunding => pay[p].st \in {"succeeded"} \cup Refunding
      /\ v.st \in Refunding /\ v.byStaff =>
            pay[p].st = "succeeded" \/ (pay[p].st \in Refunding /\ pay[p].byStaff)
  <2>1. CASE v.st = pay[p].st /\ v.byStaff = pay[p].byStaff
    BY <2>1
  <2>2. CASE pay[p].st \in Unsettled /\ v.st \in Unsettled
    BY <2>2, StatesApart
  <2>3. CASE /\ pay[p].st \in Refunding /\ v.st \in Refunding
             /\ v.byStaff = pay[p].byStaff
    BY <2>3, StatesApart
  <2>4. CASE pay[p].st = "succeeded" /\ v.st = "refund_pending"
    BY <2>4, StatesApart
  <2> QED BY <1>1, <2>1, <2>2, <2>3, <2>4 DEF PayKeep, Open, Unsettled
<1>5. Links'
  BY <1>2, <1>3, <1>4 DEF Links, DepositInv
<1>6. Paid'
  BY <1>2, <1>3, <1>4 DEF Paid, DepositInv, Booked
<1>7. PaidOnce'
  <2>1. \A r : PaidFor(r)' \subseteq PaidFor(r)
    BY <1>3, <1>4 DEF PaidFor
  <2>2. \A q \in Pays : pay'[q].res = pay[q].res
    BY <1>3
  <2> QED BY <2>1, <2>2 DEF PaidOnce, DepositInv
<1> QED BY <1>5, <1>6, <1>7 DEF DepositInv

\* A payment begins: for a hold, on rows of its own.
LEMMA PrepareDeposits ==
    ASSUME DepositsTypeOK, DepositInv, NEW p \in Pays, NEW r \in Rows,
           NEW now \in Began, DepositPrepare(p, r, now)
    PROVE  DepositInv'
<1>1. /\ pay' = [pay EXCEPT ![p] = [NoPayment EXCEPT !.st = "created",
                    !.hold = r, !.res = r, !.deadline = now + Window]]
      /\ bank' = bank
      /\ pay[p].st = "none" /\ res[r].st = "pending"
  BY DEF DepositPrepare
<1>2. /\ pay'[p].st = "created" /\ pay'[p].hold = r /\ pay'[p].res = r
      /\ pay'[p].kept = FALSE
      /\ \A q \in Pays \ {p} : pay'[q] = pay[q]
  BY <1>1, Shapes DEF NoPayment
<1>3. \A q \in Rows : /\ res'[q].st = res[q].st
                      /\ res'[q].guest = res[q].guest
  BY Shapes DEF DepositPrepare, RowRec
<1>4. r \in 1..MaxRows /\ res[MaxRows + p].st = "none"
  BY <1>1 DEF DepositInv, Links
<1>5. "created" \in Unsettled
  BY DEF Unsettled, OpenStates
<1>6. Links'
  BY <1>1, <1>2, <1>3, <1>4, <1>5, Shapes, Numbers DEF Links, DepositInv
<1>7. Paid'
  BY <1>1, <1>2, <1>3, <1>5, StatesApart, Shapes DEF Paid, DepositInv, Booked
<1>8. PaidOnce'
  <2>1. \A x : PaidFor(x)' \subseteq PaidFor(x) \ {p}
    BY <1>2, <1>5, StatesApart DEF PaidFor
  <2> QED BY <1>2, <2>1 DEF PaidOnce, DepositInv
<1> QED BY <1>6, <1>7, <1>8 DEF DepositInv

\* A row is written off and the deposits that go with it are refunded or
\* kept: the links between rows and payments stay.
LEMMA TriggerLinks ==
    ASSUME DepositsTypeOK, DepositInv, NEW r \in Rows,
           NEW st \in {"cancelled", "no_show"}, NEW gone \in SUBSET Pays,
           res[r].st # "none", res'[r].st = st, res'[r].guest = res[r].guest,
           \A q \in Rows \ {r} : res'[q] = res[q],
           \A q \in gone : pay[q].st = "succeeded",
           \A q \in Pays :
              /\ pay'[q].hold = pay[q].hold /\ pay'[q].res = pay[q].res
              /\ q \notin gone => pay'[q] = pay[q]
              /\ q \in gone => pay'[q].st \in {"refund_pending", "succeeded"}
    PROVE  Links'
<1>1. \A q \in Rows : /\ res'[q].guest = res[q].guest
                      /\ (res'[q].st = "none") <=> (res[q].st = "none")
                      /\ (res'[q].st = "pending") => (res[q].st = "pending")
  OBVIOUS
<1>2. \A q \in Pays : /\ (pay'[q].st = "none") <=> (pay[q].st = "none")
                      /\ (pay'[q].st \in Unsettled) => (pay'[q] = pay[q])
  BY StatesApart
<1>3. \A q \in Pays : /\ MaxRows + q \in Rows
                      /\ pay[q].hold \in Rows /\ pay[q].res \in Rows
  BY Numbers, Shapes
<1>4. \A q \in Rows : q \notin 1..MaxRows => res'[q].st # "pending"
  BY <1>1 DEF Links, DepositInv
<1>5. ASSUME NEW q \in Pays, pay'[q].st # "none"
      PROVE  /\ pay'[q].hold \in 1..MaxRows
             /\ pay'[q].res \in {pay'[q].hold, MaxRows + q}
             /\ res'[pay'[q].hold].st # "none" /\ res'[pay'[q].res].st # "none"
             /\ res'[pay'[q].res].guest = res'[pay'[q].hold].guest
             /\ pay'[q].st \in Unsettled => /\ pay'[q].res = pay'[q].hold
                                           /\ ~pay'[q].kept
  BY <1>1, <1>2, <1>3, <1>5 DEF Links, DepositInv
<1>6. ASSUME NEW q \in Pays, res'[MaxRows + q].st # "none"
      PROVE  pay'[q].st # "none" /\ pay'[q].res = MaxRows + q
  BY <1>1, <1>2, <1>3, <1>6 DEF Links, DepositInv
<1> QED BY <1>4, <1>5, <1>6 DEF Links

\* trg_reservation_deposit: the deposits of a row are refunded or kept.
LEMMA TriggerDeposits ==
    ASSUME DepositsTypeOK, DepositInv, NEW r \in Rows,
           NEW st \in {"cancelled", "no_show"}, NEW exp,
           Live(r), res' = [res EXCEPT ![r].st = st, ![r].exp = exp],
           pay' = RefundAll(r) \/ pay' = KeepAll(r), bank' = bank
    PROVE  DepositInv'
<1>1. \A q \in Pays :
         /\ pay'[q].hold = pay[q].hold /\ pay'[q].res = pay[q].res
         /\ q \notin Succeeded(r) => pay'[q] = pay[q]
         /\ q \in Succeeded(r) =>
               \/ pay'[q].st = "refund_pending" /\ ~pay'[q].byStaff
               \/ pay'[q].st = "succeeded" /\ pay'[q].kept
  <2> SUFFICES ASSUME NEW q \in Pays
               PROVE  /\ pay'[q].hold = pay[q].hold /\ pay'[q].res = pay[q].res
                      /\ q \notin Succeeded(r) => pay'[q] = pay[q]
                      /\ q \in Succeeded(r) =>
                            \/ pay'[q].st = "refund_pending" /\ ~pay'[q].byStaff
                            \/ pay'[q].st = "succeeded" /\ pay'[q].kept
    OBVIOUS
  <2>1. pay[q] \in Payments
    BY Shapes
  <2>2. CASE pay' = RefundAll(r)
    <3>1. pay'[q] = IF q \in Succeeded(r) THEN BeginRefund(pay[q], FALSE)
                                          ELSE pay[q]
      BY <2>2 DEF RefundAll
    <3>2. /\ BeginRefund(pay[q], FALSE).st = "refund_pending"
          /\ BeginRefund(pay[q], FALSE).byStaff = FALSE
          /\ BeginRefund(pay[q], FALSE).hold = pay[q].hold
          /\ BeginRefund(pay[q], FALSE).res = pay[q].res
      BY <2>1, RefundRecords
    <3> QED BY <3>1, <3>2
  <2>3. CASE pay' = KeepAll(r)
    <3>1. pay'[q] = IF q \in Succeeded(r) THEN [pay[q] EXCEPT !.kept = TRUE]
                                          ELSE pay[q]
      BY <2>3 DEF KeepAll
    <3>2. q \in Succeeded(r) => pay[q].st = "succeeded"
      BY DEF Succeeded
    <3> QED BY <2>1, <3>1, <3>2 DEF Payments
  <2> QED BY <2>2, <2>3
<1>2. \A q \in Succeeded(r) : /\ q \in Pays /\ pay[q].st = "succeeded"
                              /\ pay[q].res = r /\ ~pay[q].kept
  BY DEF Succeeded
<1>3. /\ res'[r].st = st /\ res'[r].guest = res[r].guest
      /\ \A q \in Rows \ {r} : res'[q] = res[q]
      /\ res[r].st # "none"
  BY Shapes DEF RowRec, Live
<1>4. Links'
  <2> DEFINE gone == Succeeded(r)
  <2>1. gone \in SUBSET Pays /\ \A q \in gone : pay[q].st = "succeeded"
    BY <1>2
  <2>2. \A q \in Pays :
           /\ pay'[q].hold = pay[q].hold /\ pay'[q].res = pay[q].res
           /\ q \notin gone => pay'[q] = pay[q]
           /\ q \in gone => pay'[q].st \in {"refund_pending", "succeeded"}
    BY <1>1
  <2> HIDE DEF gone
  <2> QED BY <1>3, <2>1, <2>2, TriggerLinks
<1>5. Paid'
  <2>1. ASSUME NEW q \in Pays, pay'[q].st = "succeeded", ~pay'[q].kept
        PROVE  Booked(pay[q].res)'
    <3>1. q \notin Succeeded(r) /\ pay'[q] = pay[q]
      BY <1>1, <2>1
    <3>2. pay[q].res # r /\ Booked(pay[q].res)
      BY <2>1, <3>1 DEF Succeeded, Paid, DepositInv
    <3> QED BY <1>3, <3>1, <3>2, Shapes DEF Booked
  <2>2. ASSUME NEW q \in Pays, pay'[q].st \in {"succeeded"} \cup Refunding
        PROVE  "paid" \in bank'[q]
    BY <1>1, <1>2, <2>2 DEF Paid, DepositInv
  <2> QED BY <2>1, <2>2 DEF Paid
<1>6. PaidOnce'
  <2>1. \A x : PaidFor(x)' \subseteq PaidFor(x)
    BY <1>1, <1>2, StatesApart DEF PaidFor
  <2> QED BY <1>1, <2>1 DEF PaidOnce, DepositInv
<1> QED BY <1>4, <1>5, <1>6 DEF DepositInv

\* An attempt ends without money: its hold, if still one, lapses.
LEMMA ExpiryDeposits ==
    ASSUME DepositsTypeOK, DepositInv, NEW p \in Pays, ApplyExpired(p)
    PROVE  DepositInv'
<1>1. /\ pay' = [pay EXCEPT ![p] = Ended(p, "expired")]
      /\ pay[p].st \in Unsettled
  BY DEF ApplyExpired, Open, Unsettled
<1>2. "expired" \in Unsettled
  BY DEF Unsettled, WrittenOff
<1>3. /\ pay'[p].st = "expired" /\ pay'[p].hold = pay[p].hold
      /\ pay'[p].res = pay[p].res /\ pay'[p].kept = pay[p].kept
      /\ \A q \in Pays \ {p} : pay'[q] = pay[q]
  <2>1. "expired" \in {"none", "succeeded"} \cup OpenStates \cup WrittenOff
                         \cup Refunding
    BY DEF WrittenOff
  <2> QED BY <1>1, <2>1, PaymentRecords, Shapes
<1>4. \A q \in Pays : "paid" \in bank'[q] <=> "paid" \in bank[q]
  BY Shapes DEF ApplyExpired, Forget
<1>5. \A r \in Rows : /\ Booked(r) => Booked(r)'
                      /\ res'[r].st = "none" <=> res[r].st = "none"
                      /\ res'[r].guest = res[r].guest
                      /\ res'[r].st = "pending" => res[r].st = "pending"
  <2>1. CASE res' = res
    BY <2>1 DEF Booked
  <2>2. CASE res[pay[p].hold].st = "pending" /\ res' = Expired({pay[p].hold})
    BY <2>2, Shapes, ExpiredRows DEF Booked
  <2> QED BY <2>1, <2>2 DEF ApplyExpired
<1>6. Links'
  <2>1. ASSUME NEW q \in Pays, pay'[q].st # "none"
        PROVE  /\ pay[q].st # "none"
               /\ pay'[q].hold = pay[q].hold /\ pay'[q].res = pay[q].res
               /\ pay'[q].kept = pay[q].kept
               /\ pay'[q].st \in Unsettled => pay[q].st \in Unsettled
    BY <1>1, <1>2, <1>3, <2>1, StatesApart
  <2>2. \A q \in Pays : pay[q].st # "none" => pay'[q].st # "none"
    BY <1>2, <1>3, StatesApart
  <2>3. \A q \in Pays : pay'[q].res = pay[q].res
    BY <1>3
  <2> QED BY <1>5, <2>1, <2>2, <2>3, Shapes, Numbers DEF Links, DepositInv
<1>7. Paid'
  <2>1. ASSUME NEW q \in Pays, pay'[q].st = "succeeded", ~pay'[q].kept
        PROVE  Booked(pay[q].res)'
    BY <1>2, <1>3, <1>5, <2>1, StatesApart, Shapes DEF Paid, DepositInv
  <2>2. ASSUME NEW q \in Pays, pay'[q].st \in {"succeeded"} \cup Refunding
        PROVE  "paid" \in bank'[q]
    BY <1>2, <1>3, <1>4, <2>2, StatesApart DEF Paid, DepositInv
  <2>3. \A q \in Pays : pay'[q].res = pay[q].res
    BY <1>3
  <2> QED BY <2>1, <2>2, <2>3 DEF Paid, Booked
<1>8. PaidOnce'
  <2>1. \A x : PaidFor(x)' \subseteq PaidFor(x)
    BY <1>2, <1>3, StatesApart DEF PaidFor
  <2>2. \A q \in Pays : pay'[q].res = pay[q].res
    BY <1>3
  <2> QED BY <2>1, <2>2 DEF PaidOnce, DepositInv
<1> QED BY <1>6, <1>7, <1>8 DEF DepositInv

\* SUCCESS for an attempt whose hold is booked, or becomes a booking.
LEMMA SettleDeposits ==
    ASSUME DepositsTypeOK, DepositInv, NEW p \in Pays,
           pay[p].st \in Unsettled, "paid" \in bank[p],
           \A q \in Pays : "paid" \in bank'[q] <=> "paid" \in bank[q],
           PaidFor(pay[p].res) \ {p} = {},
           NEW gone \in SUBSET Rows, \A r \in gone : res[r].st = "pending",
           KeepsIt(p) \/ ConfirmsIt(p) \/ RecreatesIt(p, gone)
    PROVE  DepositInv'
<1> DEFINE h == pay[p].hold
<1>1. /\ h \in 1..MaxRows /\ h \in Rows /\ pay[p].res = h
      /\ res[MaxRows + p].st = "none" /\ MaxRows + p # h
      /\ MaxRows + p \in Rows /\ MaxRows + p \notin 1..MaxRows
      /\ res[h].st # "none"
  BY StatesApart, Shapes, Numbers DEF DepositInv, Links
<1>2. /\ pay'[p].st = "succeeded" /\ pay'[p].hold = h
      /\ pay'[p].res \in {h, MaxRows + p}
      /\ \A q \in Pays \ {p} : pay'[q] = pay[q]
      /\ pay'[p].res = MaxRows + p <=> RecreatesIt(p, gone)
  <2>1. CASE KeepsIt(p) \/ ConfirmsIt(p)
    <3>1. ~RecreatesIt(p, gone)
      BY <2>1 DEF KeepsIt, ConfirmsIt, RecreatesIt, Booked
    <3> QED BY <1>1, <2>1, <3>1, SettledRecords, Shapes DEF KeepsIt, ConfirmsIt
  <2>2. CASE RecreatesIt(p, gone)
    BY <1>1, <2>2, SettledRecords, Shapes DEF RecreatesIt
  <2> QED BY <2>1, <2>2
<1>0. ASSUME RecreatesIt(p, gone)
      PROVE  /\ res'[MaxRows + p].st = "confirmed"
             /\ res'[MaxRows + p].guest = res[h].guest
             /\ \A r \in Rows \ {MaxRows + p} : res'[r] = Expired(gone)[r]
  <2>1. Expired(gone) \in [Rows -> RowRec]
    BY ExpiredRows
  <2>2. res' = [Expired(gone) EXCEPT ![MaxRows + p] =
                  [res[h] EXCEPT !.st = "confirmed", !.exp = 0]]
    BY <1>0, <1>1 DEF RecreatesIt
  <2> QED BY <1>1, <2>1, <2>2, ConfirmedRow
<1>3. /\ \A r \in Rows \ {MaxRows + p} :
            /\ Booked(r) => Booked(r)'
            /\ res'[r].st = "none" <=> res[r].st = "none"
            /\ res'[r].guest = res[r].guest
            /\ res'[r].st = "pending" => res[r].st = "pending"
  <2>1. CASE KeepsIt(p)
    BY <2>1 DEF KeepsIt, Booked
  <2>2. CASE ConfirmsIt(p)
    BY <1>1, <2>2, Shapes DEF ConfirmsIt, Booked, RowRec
  <2>3. CASE RecreatesIt(p, gone)
    BY <1>0, <2>3, ExpiredRows DEF Booked
  <2> QED BY <2>1, <2>2, <2>3
<1>4. IF RecreatesIt(p, gone)
        THEN /\ pay'[p].res = MaxRows + p /\ Booked(MaxRows + p)'
             /\ res'[MaxRows + p].st = "confirmed"
             /\ res'[MaxRows + p].guest = res[h].guest
        ELSE /\ pay'[p].res = h
             /\ res'[h].st \in {"confirmed", "arrived", "completed"}
             /\ res'[MaxRows + p] = res[MaxRows + p]
  <2>1. CASE RecreatesIt(p, gone)
    BY <1>0, <1>2, <2>1 DEF Booked
  <2>2. CASE KeepsIt(p) /\ ~RecreatesIt(p, gone)
    BY <1>1, <1>2, <2>2 DEF KeepsIt, Booked
  <2>3. CASE ConfirmsIt(p) /\ ~RecreatesIt(p, gone)
    BY <1>1, <1>2, <2>3, Shapes DEF ConfirmsIt, Booked, RowRec
  <2> QED BY <2>1, <2>2, <2>3
<1>5. \A q \in Pays \ {p} : /\ pay[q].st # "none" => pay[q].res # MaxRows + p
                            /\ MaxRows + q # MaxRows + p
  BY <1>1, Numbers DEF DepositInv, Links
<1> HIDE DEF h
<1>6. Links'
  <2>1. \A r \in Rows : r \notin 1..MaxRows => res'[r].st # "pending"
    BY <1>1, <1>3, <1>4 DEF DepositInv, Links
  <2>2. ASSUME NEW q \in Pays, pay'[q].st # "none"
        PROVE  /\ pay'[q].hold \in 1..MaxRows
               /\ pay'[q].res \in {pay'[q].hold, MaxRows + q}
               /\ res'[pay'[q].hold].st # "none"
               /\ res'[pay'[q].res].st # "none"
               /\ res'[pay'[q].res].guest = res'[pay'[q].hold].guest
               /\ pay'[q].st \in Unsettled
                    => pay'[q].res = pay'[q].hold /\ ~pay'[q].kept
    <3>1. CASE q = p
      <4>1. res'[h].st # "none" /\ res'[h].guest = res[h].guest
        BY <1>1, <1>3
      <4>2. CASE RecreatesIt(p, gone)
        BY <1>1, <1>2, <1>4, <3>1, <4>1, <4>2, StatesApart
      <4>3. CASE ~RecreatesIt(p, gone)
        BY <1>1, <1>2, <1>4, <3>1, <4>1, <4>3, StatesApart
      <4> QED BY <4>2, <4>3
    <3>2. CASE q # p
      <4>1. /\ pay'[q] = pay[q] /\ pay[q].res # MaxRows + p
            /\ pay[q].hold \in 1..MaxRows /\ pay[q].hold # MaxRows + p
        BY <1>1, <1>2, <1>5, <2>2, <3>2 DEF DepositInv, Links
      <4> QED BY <1>3, <2>2, <4>1, Shapes DEF DepositInv, Links
    <3> QED BY <3>1, <3>2
  <2>3. ASSUME NEW q \in Pays, res'[MaxRows + q].st # "none"
        PROVE  pay'[q].st # "none" /\ pay'[q].res = MaxRows + q
    <3>1. CASE q = p
      BY <1>1, <1>2, <1>4, <2>3, <3>1
    <3>2. CASE q # p
      BY <1>2, <1>3, <1>5, <2>3, <3>2, Numbers DEF DepositInv, Links
    <3> QED BY <3>1, <3>2
  <2> QED BY <2>1, <2>2, <2>3 DEF Links
<1>7. Paid'
  <2>1. ASSUME NEW q \in Pays, pay'[q].st \in {"succeeded"} \cup Refunding
        PROVE  "paid" \in bank'[q]
    BY <1>2, <2>1 DEF Paid, DepositInv
  <2>2. ASSUME NEW q \in Pays, pay'[q].st = "succeeded", ~pay'[q].kept
        PROVE  res'[pay'[q].res].st \in {"confirmed", "arrived", "completed"}
    <3>1. CASE q = p
      <4>1. CASE RecreatesIt(p, gone)
        BY <1>4, <3>1, <4>1
      <4>2. CASE ~RecreatesIt(p, gone)
        BY <1>4, <3>1, <4>2 DEF Booked
      <4> QED BY <4>1, <4>2
    <3>2. CASE q # p
      <4>1. pay[q].st # "none" /\ pay'[q] = pay[q]
        BY <1>2, <2>2, <3>2
      <4> QED BY <1>3, <1>5, <2>2, <3>2, <4>1, Shapes DEF Paid, DepositInv, Booked
    <3> QED BY <3>1, <3>2
  <2> QED BY <2>1, <2>2 DEF Paid, Booked
<1>8. PaidOnce'
  <2>1. \A a \in Pays \ {p} : \A x : a \in PaidFor(x)' <=> a \in PaidFor(x)
    BY <1>2 DEF PaidFor
  <2>2. ASSUME NEW x, x = pay'[p].res
        PROVE  \A a \in Pays \ {p} : a \notin PaidFor(x)
    <3>1. CASE RecreatesIt(p, gone)
      BY <1>4, <1>5, <2>2, <3>1, StatesApart DEF PaidFor
    <3>2. CASE ~RecreatesIt(p, gone)
      BY <1>1, <1>4, <2>2, <3>2
    <3> QED BY <3>1, <3>2
  <2>3. \A x : p \in PaidFor(x)' => x = pay'[p].res
    BY DEF PaidFor
  <2>4. \A a \in Pays \ {p} : pay'[a].res = pay[a].res
    BY <1>2
  <2> QED BY <2>1, <2>2, <2>3, <2>4 DEF PaidOnce, DepositInv
<1> QED BY <1>6, <1>7, <1>8 DEF DepositInv

\* SUCCESS for an attempt whose slot is gone.
LEMMA LateDeposits ==
    ASSUME DepositsTypeOK, DepositInv, NEW p \in Pays,
           pay[p].st \in Unsettled, "paid" \in bank[p],
           \A q \in Pays : "paid" \in bank'[q] <=> "paid" \in bank[q],
           NEW gone \in SUBSET Rows, \A r \in gone : res[r].st = "pending",
           RefundsIt(p, gone)
    PROVE  DepositInv'
<1>1. /\ pay'[p].st = "refund_pending" /\ pay'[p].byStaff = FALSE
      /\ pay'[p].hold = pay[p].hold /\ pay'[p].res = pay[p].res
      /\ \A q \in Pays \ {p} : pay'[q] = pay[q]
  <2>1. /\ Settled(p) \in Payments /\ FALSE \in BOOLEAN
        /\ Settled(p).hold = pay[p].hold /\ Settled(p).res = pay[p].res
    BY SettledRecords
  <2>2. /\ BeginRefund(Settled(p), FALSE).st = "refund_pending"
        /\ BeginRefund(Settled(p), FALSE).byStaff = FALSE
        /\ BeginRefund(Settled(p), FALSE).hold = pay[p].hold
        /\ BeginRefund(Settled(p), FALSE).res = pay[p].res
    BY <2>1, RefundRecords
  <2> QED BY <2>2, Shapes DEF RefundsIt
<1>2. \A r \in Rows : /\ Booked(r) => Booked(r)'
                      /\ res'[r].st = "none" <=> res[r].st = "none"
                      /\ res'[r].guest = res[r].guest
                      /\ res'[r].st = "pending" => res[r].st = "pending"
  BY ExpiredRows DEF RefundsIt, Booked
<1>3. Links'
  BY <1>1, <1>2, StatesApart, Shapes, Numbers DEF Links, DepositInv
<1>4. Paid'
  <2>1. ASSUME NEW q \in Pays, pay'[q].st = "succeeded", ~pay'[q].kept
        PROVE  Booked(pay[q].res)'
    BY <1>1, <1>2, <2>1, Shapes DEF Paid, DepositInv
  <2>2. ASSUME NEW q \in Pays, pay'[q].st \in {"succeeded"} \cup Refunding
        PROVE  "paid" \in bank'[q]
    BY <1>1, <2>2 DEF Paid, DepositInv
  <2>3. \A q \in Pays : pay'[q].res = pay[q].res
    BY <1>1
  <2> QED BY <2>1, <2>2, <2>3 DEF Paid, Booked
<1>5. PaidOnce'
  <2>1. \A x : PaidFor(x)' \subseteq PaidFor(x)
    BY <1>1 DEF PaidFor
  <2>2. \A q \in Pays : pay'[q].res = pay[q].res
    BY <1>1
  <2> QED BY <2>1, <2>2 DEF PaidOnce, DepositInv
<1> QED BY <1>3, <1>4, <1>5 DEF DepositInv

\* Every step keeps payments and their bookings together.
LEMMA DepositStep ==
    ASSUME DepositsTypeOK, DepositInv, [BookingNext]_depositVars
    PROVE  DepositInv'
<1>1. CASE QuietStep
  <2>1. \A p \in Pays : "paid" \in bank[p] => "paid" \in bank'[p]
    BY <1>1, Shapes DEF QuietStep, Clock, Manage, QiCreates, QiTakes, QiDeclines,
       HearNotFound, CancelAtQi, SendRefund, QiPaysBack, QiDropsRefund, payVars
  <2> QED BY <1>1, <2>1 DEF QuietStep, DepositInv, Links, Paid, PaidOnce,
                            PaidFor, Booked
<1>2. CASE RowsStep
  BY <1>2, RowsStepDeposits
<1>3. ASSUME NEW p \in Pays, PayStep(p) PROVE DepositInv'
  BY <1>3, PayStepDeposits
<1>4. CASE BothStep
  <2>1. ASSUME NEW now \in Began, NEW r \in Rows, NEW p \in Pays,
               DepositPrepare(p, r, now)
        PROVE  DepositInv'
    BY <2>1, PrepareDeposits
  <2>2. ASSUME NEW now \in Began, NEW r \in Rows, NEW desk \in BOOLEAN,
               CancelReservation(r, desk, now)
        PROVE  DepositInv'
    BY <2>2, TriggerDeposits DEF CancelReservation
  <2>3. ASSUME NEW now \in Began, NEW r \in Rows, NEW keep \in BOOLEAN,
               MarkNoShow(r, now, keep)
        PROVE  DepositInv'
    <3>1. res' = [res EXCEPT ![r].st = "no_show", ![r].exp = res[r].exp]
      BY <2>3, Shapes DEF MarkNoShow, RowRec
    <3>2. /\ pay' = RefundAll(r) \/ pay' = KeepAll(r)
          /\ Live(r) /\ bank' = bank
      BY <2>3 DEF MarkNoShow, Live
    <3> QED BY <3>1, <3>2, TriggerDeposits
  <2>4. ASSUME NEW now \in Began, NEW p \in Pays, NEW offline \in BOOLEAN,
               ApplySuccess(p, now, offline)
        PROVE  DepositInv'
    <3>1. /\ pay[p].st \in Unsettled /\ "paid" \in bank[p]
          /\ \A q \in Pays : "paid" \in bank'[q] <=> "paid" \in bank[q]
      BY <2>4, Shapes DEF ApplySuccess, Forget, Unsettled
    <3>2. PICK gone \in SUBSET Rows :
             /\ \A r \in gone : res[r].st = "pending"
             /\ \/ /\ PaidFor(pay[p].res) \ {p} = {}
                   /\ KeepsIt(p) \/ ConfirmsIt(p) \/ RecreatesIt(p, gone)
                \/ RefundsIt(p, gone)
      BY <2>4, ApplySuccessCases
    <3> QED BY <3>1, <3>2, SettleDeposits, LateDeposits
  <2>5. ASSUME NEW p \in Pays, ApplyExpired(p) PROVE DepositInv'
    BY <2>5, ExpiryDeposits
  <2> QED BY <1>4, <2>1, <2>2, <2>3, <2>4, <2>5 DEF BothStep
<1>5. CASE UNCHANGED depositVars
  BY <1>5 DEF depositVars, rowVars, payVars, DepositInv, Links, Paid, PaidOnce,
              PaidFor, Booked
<1> QED BY <1>1, <1>2, <1>3, <1>4, <1>5, StepKinds

\* Every paid attempt is the deposit of the row it names.
LEMMA DepositsLinked == BookingSpec => []DepositInv
<1>1. DepositsInit => DepositInv
  BY Numbers, StatesApart
     DEF DepositsInit, RowsInit, NoRow, NoPayment, DepositInv, Links, Paid,
         PaidOnce, PaidFor
<1>2. DepositsTypeOK /\ DepositInv /\ [BookingNext]_depositVars => DepositInv'
  BY DepositStep
<1> QED BY <1>1, <1>2, BookingTyped, PTL DEF BookingSpec, BookingTypeOK

\* No false positive, for any number of rows and payments: what is shown as
\* paid was taken, and has its guest's booking.
THEOREM PaidDepositsAreBooked == BookingSpec => []PaidIsBooked
<1>1. DepositsTypeOK /\ DepositInv => PaidIsBooked
  BY Shapes, StatesApart DEF DepositInv, Links, Paid, PaidIsBooked
<1> QED BY <1>1, BookingTyped, DepositsLinked, PTL DEF BookingTypeOK

\* A booking keeps one deposit.
THEOREM OneDepositKept == BookingSpec => []PaidOnce
<1>1. DepositInv => PaidOnce
  BY DEF DepositInv
<1> QED BY <1>1, DepositsLinked, PTL

-----------------------------------------------------------------------------
(* The court: no two live reservations overlap *)

\* Clashing goes both ways.
LEMMA ClashSymmetric ==
    ASSUME NEW a \in Places, NEW b \in Places
    PROVE  Clash(a, b) <=> Clash(b, a)
BY RowsAssumption DEF Clash

\* Fewer live rows, none of them moved, overlap no more than before.
LEMMA FewerOverlap ==
    ASSUME DepositsTypeOK, NoOverlap,
           \A r \in Rows : Live(r)' => Live(r) /\ res'[r].place = res[r].place
    PROVE  NoOverlap'
BY DEF NoOverlap

\* One row that clashes with nobody may be live, anywhere.
LEMMA OneMoreOverlap ==
    ASSUME DepositsTypeOK, NoOverlap, NEW gone \in SUBSET Rows, NEW n \in Rows,
           NEW place \in Places, res' \in [Rows -> RowRec],
           \A r \in gone \cap Rows : r # n => ~Live(r)',
           \A r \in Rows \ {n} : Live(r)' => Live(r) /\ res'[r].place = res[r].place,
           Live(n)' => /\ res'[n].place = place
                       /\ FreeBut(gone \cup {n}, place)
    PROVE  NoOverlap'
<1> SUFFICES ASSUME NEW a \in Rows, NEW b \in Rows, a # b, Live(a)', Live(b)'
             PROVE  ~Clash(res'[a].place, res'[b].place)
  BY DEF NoOverlap, Clash
<1>1. ASSUME NEW c \in Rows, c # n, Live(c)', Live(n)'
      PROVE  ~Clash(res'[c].place, place) /\ res'[c].place \in Places
  BY <1>1 DEF FreeBut, RowRec
<1>2. CASE a = n
  BY <1>1, <1>2, ClashSymmetric
<1>3. CASE b = n
  BY <1>1, <1>3
<1>4. CASE a # n /\ b # n
  BY <1>4 DEF NoOverlap
<1> QED BY <1>2, <1>3, <1>4

\* No step makes two live reservations overlap.
LEMMA OverlapStep ==
    ASSUME DepositsTypeOK, DepositInv, NoOverlap, [BookingNext]_depositVars
    PROVE  NoOverlap'
<1> USE DEF Live
<1>0. res' \in [Rows -> RowRec]
  BY TypeStep DEF DepositsTypeOK, RowsTypeOK, RowRec
<1>1. CASE UNCHANGED res
  BY <1>1 DEF NoOverlap
<1>2. ASSUME NEW now, NEW r \in 1..MaxRows, NEW place \in Places,
             \/ \E g \in Guests : HoldSlot(r, g, place, now)
             \/ StaffCreate(r, place, now)
      PROVE  NoOverlap'
  <2> DEFINE gone == StaleHolds(now, place, Paying(now, Pays))
  <2>1. gone \in SUBSET Rows /\ \A q \in gone : res[q].st = "pending"
    BY StaleAreHolds
  <2> HIDE DEF gone
  <2>2. r \in Rows /\ res[r].st = "none" /\ FreeBut(gone, place)
    BY <1>2, Numbers DEF HoldSlot, StaffCreate, IsNextRow, gone
  <2>3. \E row : row.place = place /\ res' = [Expired(gone) EXCEPT ![r] = row]
    BY <1>2 DEF HoldSlot, StaffCreate, gone
  <2>4. Expired(gone) \in [Rows -> RowRec]
    BY <2>1, ExpiredRows
  <2>5. /\ res'[r].place = place
        /\ \A q \in Rows \ {r} : res'[q] = Expired(gone)[q]
    BY <2>2, <2>3, <2>4
  <2>6. FreeBut(gone \cup {r}, place)
    BY <2>2 DEF FreeBut
  <2>7. \A q \in Rows \ {r} :
           /\ Live(q)' => Live(q) /\ res'[q].place = res[q].place
           /\ q \in gone => ~Live(q)'
    BY <2>1, <2>5, ExpiredRows
  <2> QED BY <1>0, <2>1, <2>2, <2>5, <2>6, <2>7, OneMoreOverlap
<1>3. ASSUME NEW gone \in SUBSET Rows, res' = Expired(gone) PROVE NoOverlap'
  BY <1>3, ExpiredRows, FewerOverlap
<1>4. ASSUME NEW r \in Rows, NEW st, NEW exp, Live(r) \/ st \notin
               {"pending", "confirmed", "arrived"},
             res' = [res EXCEPT ![r].st = st, ![r].exp = exp]
      PROVE  NoOverlap'
  <2>1. /\ res'[r].st = st /\ res'[r].place = res[r].place
        /\ \A q \in Rows \ {r} : res'[q] = res[q]
    BY <1>4, Shapes DEF RowRec
  <2> QED BY <1>4, <2>1, FewerOverlap
<1>5. ASSUME NEW now, NEW r \in Rows, NEW place \in Places, Live(r),
             Relocate(r, place, now)
      PROVE  NoOverlap'
  <2> DEFINE gone == StaleHolds(now, place, Paying(now, Pays))
  <2>1. gone \in SUBSET Rows /\ \A q \in gone : res[q].st = "pending"
    BY StaleAreHolds
  <2>2. /\ res' = [Expired(gone) EXCEPT ![r].place = place]
        /\ r \in gone \/ FreeBut(gone \cup {r}, place)
    BY <1>5 DEF Relocate
  <2> HIDE DEF gone
  <2>3. Expired(gone) \in [Rows -> RowRec]
    BY <2>1, ExpiredRows
  <2>4. /\ res'[r].place = place /\ res'[r].st = Expired(gone)[r].st
        /\ \A q \in Rows \ {r} : res'[q] = Expired(gone)[q]
    BY <2>2, <2>3 DEF RowRec
  <2>5. \A q \in Rows \ {r} :
           /\ Live(q)' => Live(q) /\ res'[q].place = res[q].place
           /\ q \in gone => ~Live(q)'
    BY <2>1, <2>4, ExpiredRows
  <2>6. r \in gone => ~Live(r)'
    BY <2>1, <2>4, ExpiredRows
  <2> QED BY <1>0, <2>1, <2>2, <2>4, <2>5, <2>6, OneMoreOverlap
<1>6. CASE RowsStep
  <2>1. ASSUME NEW r \in Rows, NEW now,
               \/ \E desk \in BOOLEAN : ConfirmBooking(r, desk, now)
               \/ MarkArrived(r) \/ MarkCompleted(r, now)
        PROVE  NoOverlap'
    <3>1. \E st, exp : res' = [res EXCEPT ![r].st = st, ![r].exp = exp]
      <4>1. CASE \E desk \in BOOLEAN : ConfirmBooking(r, desk, now)
        BY <4>1 DEF ConfirmBooking
      <4>2. ASSUME NEW st, res' = [res EXCEPT ![r].st = st]
            PROVE  res' = [res EXCEPT ![r].st = st, ![r].exp = res[r].exp]
        BY <4>2, Shapes DEF RowRec
      <4> QED BY <2>1, <4>1, <4>2 DEF MarkArrived, MarkCompleted
    <3>2. Live(r)
      BY <2>1 DEF ConfirmBooking, MarkArrived, MarkCompleted
    <3> QED BY <1>4, <3>1, <3>2
  <2>2. ASSUME NEW r \in Rows, ReleaseHold(r) PROVE NoOverlap'
    BY <1>3, <2>2 DEF ReleaseHold
  <2>3. ASSUME NEW now, NEW unseen, CronSweep(now, unseen) PROVE NoOverlap'
    <3> DEFINE stale == {r \in Rows \ Paying(now, Pays \ unseen) :
                            res[r].st = "pending" /\ res[r].exp < now}
    <3>1. stale \in SUBSET Rows /\ res' = Expired(stale)
      BY <2>3 DEF CronSweep
    <3> QED BY <1>3, <3>1
  <2>4. ASSUME NEW now, NEW r \in Rows, NEW place \in Places,
               MoveReservation(r, place, now) \/ ExtendReservation(r, place, now)
        PROVE  NoOverlap'
    <3>1. Live(r) /\ Relocate(r, place, now)
      BY <2>4 DEF MoveReservation, ExtendReservation
    <3> QED BY <1>5, <3>1
  <2> QED BY <1>2, <1>6, <2>1, <2>2, <2>3, <2>4 DEF RowsStep
<1>7. CASE BothStep
  <2>1. ASSUME NEW now \in Began, NEW r \in Rows, NEW p \in Pays,
               DepositPrepare(p, r, now)
        PROVE  NoOverlap'
    <3>1. \A q \in Rows : res'[q].st = res[q].st /\ res'[q].place = res[q].place
      BY <2>1, Shapes DEF DepositPrepare, RowRec
    <3> QED BY <3>1, FewerOverlap
  <2>2. ASSUME NEW now, NEW r \in Rows,
               \/ \E desk \in BOOLEAN : CancelReservation(r, desk, now)
               \/ \E keep \in BOOLEAN : MarkNoShow(r, now, keep)
        PROVE  NoOverlap'
    <3>1. \E st \in {"cancelled", "no_show"} : \E exp :
             res' = [res EXCEPT ![r].st = st, ![r].exp = exp]
      <4>1. res[r].exp = res[r].exp /\ Live(r)
        BY <2>2 DEF CancelReservation, MarkNoShow
      <4>2. CASE \E desk \in BOOLEAN : CancelReservation(r, desk, now)
        BY <4>2 DEF CancelReservation
      <4>3. CASE \E keep \in BOOLEAN : MarkNoShow(r, now, keep)
        <5>1. res' = [res EXCEPT ![r].st = "no_show", ![r].exp = res[r].exp]
          BY <4>3, Shapes DEF MarkNoShow, RowRec
        <5> QED BY <5>1
      <4> QED BY <2>2, <4>2, <4>3
    <3> QED BY <1>4, <3>1
  <2>3. ASSUME NEW now \in Began, NEW p \in Pays, NEW offline \in BOOLEAN,
               ApplySuccess(p, now, offline)
        PROVE  NoOverlap'
    <3>1. PICK gone \in SUBSET Rows :
             /\ \A q \in gone : res[q].st = "pending"
             /\ \/ KeepsIt(p) \/ ConfirmsIt(p) \/ RecreatesIt(p, gone)
                \/ RefundsIt(p, gone)
      BY <2>3, ApplySuccessCases
    <3> DEFINE h == pay[p].res
               n == MaxRows + p
    <3>2. h \in Rows /\ n \in Rows
      BY Shapes, Numbers
    <3>3. CASE KeepsIt(p)
      BY <1>1, <3>3 DEF KeepsIt
    <3>4. CASE ConfirmsIt(p)
      BY <1>4, <3>2, <3>4 DEF ConfirmsIt
    <3>5. CASE RefundsIt(p, gone)
      BY <1>3, <3>5 DEF RefundsIt
    <3>6. CASE RecreatesIt(p, gone)
      <4>1. Expired(gone) \in [Rows -> RowRec]
        BY ExpiredRows
      <4>2. res[h].place \in Places
        BY <3>2, Shapes DEF RowRec
      <4>3. /\ res'[n].place = res[h].place
            /\ \A q \in Rows \ {n} : res'[q] = Expired(gone)[q]
        BY <3>2, <3>6, <4>1, ConfirmedRow DEF RecreatesIt
      <4>4. FreeBut(gone \cup {n}, res[h].place)
        BY <3>6 DEF RecreatesIt, FreeBut
      <4>5. \A q \in Rows \ {n} :
               /\ Live(q)' => Live(q) /\ res'[q].place = res[q].place
               /\ q \in gone => ~Live(q)'
        BY <4>3, ExpiredRows
      <4> QED BY <1>0, <3>2, <4>2, <4>3, <4>4, <4>5, OneMoreOverlap
    <3> QED BY <3>1, <3>3, <3>4, <3>5, <3>6
  <2>4. ASSUME NEW p \in Pays, ApplyExpired(p) PROVE NoOverlap'
    <3>1. res' = res \/ res' = Expired({pay[p].hold})
      BY <2>4 DEF ApplyExpired
    <3> QED BY <1>1, <1>3, <3>1, Shapes
  <2> QED BY <1>7, <2>1, <2>2, <2>3, <2>4 DEF BothStep
<1>8. ASSUME NEW p \in Pays, PayStep(p) PROVE NoOverlap'
  BY <1>1, <1>8, PayStepFrame
<1>9. CASE QuietStep \/ UNCHANGED depositVars
  BY <1>1, <1>9 DEF QuietStep, depositVars, rowVars
<1> QED BY <1>6, <1>7, <1>8, <1>9, StepKinds

\* Exclusion, for any courts and any number of reservations.
THEOREM CourtsAreExclusive == BookingSpec => []NoOverlap
<1>1. DepositsInit => NoOverlap
  BY DEF DepositsInit, RowsInit, NoRow, NoOverlap, Live
<1>2. DepositsTypeOK /\ DepositInv /\ NoOverlap /\ [BookingNext]_depositVars
        => NoOverlap'
  BY OverlapStep
<1> QED BY <1>1, <1>2, BookingTyped, DepositsLinked, PTL
        DEF BookingSpec, BookingTypeOK

\* A booking never lapses.
THEOREM BookingsDoNotLapse == BookingSpec => ConfirmedStays
<1>1. ASSUME DepositsTypeOK, [BookingNext]_depositVars, NEW r \in Rows, Booked(r)
      PROVE  res'[r].st # "expired"
  <2>1. CASE UNCHANGED res
    BY <1>1, <2>1 DEF Booked
  <2>2. CASE RowsStep
    BY <1>1, <2>2, RowsStepKeeps DEF RowsKeep, Booked
  <2>3. CASE BothStep
    <3>1. ASSUME NEW now, NEW q \in Rows,
                 \/ \E p \in Pays : DepositPrepare(p, q, now)
                 \/ \E desk \in BOOLEAN : CancelReservation(q, desk, now)
                 \/ \E keep \in BOOLEAN : MarkNoShow(q, now, keep)
          PROVE  res'[r].st # "expired"
      <4>1. \/ res'[r].st = res[r].st
            \/ res'[r].st \in {"cancelled", "no_show"}
        <5>1. CASE \E p \in Pays : DepositPrepare(p, q, now)
          BY <1>1, <5>1, Shapes DEF DepositPrepare, RowRec
        <5>2. CASE \E desk \in BOOLEAN : CancelReservation(q, desk, now)
          BY <1>1, <5>2, Shapes DEF CancelReservation, RowRec
        <5>3. CASE \E keep \in BOOLEAN : MarkNoShow(q, now, keep)
          BY <1>1, <5>3, Shapes DEF MarkNoShow, RowRec
        <5> QED BY <3>1, <5>1, <5>2, <5>3
      <4> QED BY <1>1, <4>1 DEF Booked
    <3>2. ASSUME NEW now \in Began, NEW p \in Pays, NEW offline \in BOOLEAN,
                 ApplySuccess(p, now, offline)
          PROVE  res'[r].st # "expired"
      <4>1. PICK gone \in SUBSET Rows :
               /\ \A q \in gone : res[q].st = "pending"
               /\ \/ KeepsIt(p) \/ ConfirmsIt(p) \/ RecreatesIt(p, gone)
                  \/ RefundsIt(p, gone)
        BY <1>1, <3>2, ApplySuccessCases
      <4>2. Expired(gone) \in [Rows -> RowRec] /\ Expired(gone)[r].st # "expired"
        BY <1>1, <4>1, ExpiredRows DEF Booked
      <4>3. CASE KeepsIt(p) \/ RefundsIt(p, gone)
        BY <1>1, <4>2, <4>3 DEF KeepsIt, RefundsIt, Booked
      <4>4. CASE ConfirmsIt(p)
        BY <1>1, <4>4, Shapes DEF ConfirmsIt, Booked, RowRec
      <4>5. CASE RecreatesIt(p, gone)
        <5>1. \A row : [Expired(gone) EXCEPT ![MaxRows + p] = row][r]
                          \in {row, Expired(gone)[r]}
          BY <4>2
        <5>2. pay[p].res \in Rows
          BY <1>1, Shapes
        <5> QED BY <1>1, <4>2, <4>5, <5>1, <5>2, ConfirmedRow DEF RecreatesIt
      <4> QED BY <4>1, <4>3, <4>4, <4>5
    <3>3. ASSUME NEW p \in Pays, ApplyExpired(p) PROVE res'[r].st # "expired"
      BY <1>1, <3>3, ExpiredRows, Shapes DEF ApplyExpired, Booked
    <3> QED BY <2>3, <3>1, <3>2, <3>3 DEF BothStep
  <2>4. ASSUME NEW p \in Pays, PayStep(p) PROVE UNCHANGED res
    BY <2>4, PayStepFrame
  <2> QED BY <1>1, <2>1, <2>2, <2>3, <2>4, StepKinds
          DEF QuietStep, depositVars, rowVars
<1>2. DepositsTypeOK /\ [BookingNext]_depositVars =>
        [\A r \in Rows : Booked(r) => res'[r].st # "expired"]_depositVars
  BY <1>1
<1> QED BY <1>2, BookingTyped, PTL DEF BookingSpec, BookingTypeOK, ConfirmedStays

-----------------------------------------------------------------------------
(* Holds *)

\* What a step does to a hold it neither makes nor ends: a payment that
\* begins on it may only make it longer.
HoldKept(r) ==
    /\ res[r].st = "pending" /\ res'[r].guest = res[r].guest
    /\ res[r].exp <= res'[r].exp
    /\ \/ res'[r].exp = res[r].exp
       \/ \E p \in Pays : pay'[p].st # "none" /\ pay'[p].hold = r

\* A hold lapses after its time, or when nobody who is paying stays.
HoldLapses(r) ==
    /\ res[r].st = "pending"
    /\ \/ res[r].exp < clock
       \/ \A p \in Pays : Open(p) /\ pay[p].hold = r => ~Open(p)'

RowFate(r) ==
    /\ res'[r].st = "pending" =>
         \/ HoldKept(r)
         \/ \E g \in Guests, place \in Places, now \in Began :
               HoldSlot(r, g, place, now)
    /\ res'[r].st = "expired" => res[r].st = "expired" \/ HoldLapses(r)

\* A sweep ends the holds it found lapsed and leaves the others alone.
LEMMA SweptFate ==
    ASSUME DepositsTypeOK, NEW gone \in SUBSET Rows,
           \A q \in gone : res[q].st = "pending" /\ res[q].exp < clock,
           NEW r \in Rows, res'[r].st = Expired(gone)[r].st,
           res'[r].guest = Expired(gone)[r].guest,
           res'[r].exp = Expired(gone)[r].exp
    PROVE  RowFate(r)
<1>1. res[r].exp \in Nat
  BY Shapes DEF RowRec
<1>2. CASE r \in gone
  BY <1>2, ExpiredRows DEF RowFate, HoldLapses
<1>3. CASE r \notin gone
  BY <1>1, <1>3, ExpiredRows DEF RowFate, HoldKept
<1> QED BY <1>2, <1>3

\* A row that stays as it was.
LEMMA SameFate ==
    ASSUME DepositsTypeOK, NEW r \in Rows, res'[r] = res[r]
    PROVE  RowFate(r)
<1>1. res[r].exp \in Nat
  BY Shapes DEF RowRec
<1> QED BY <1>1 DEF RowFate, HoldKept

\* A transaction's sweep judges holds at a time past: they have lapsed.
LEMMA StaleLapsed ==
    ASSUME DepositsTypeOK, NEW now \in Began, NEW place, NEW paying
    PROVE  \A q \in StaleHolds(now, place, paying) :
              q \in Rows /\ res[q].st = "pending" /\ res[q].exp < clock
<1>1. \A q \in Rows : res[q].exp \in Nat
  BY Shapes DEF RowRec
<1> QED BY <1>1, BeganBefore, StaleAreHolds

\* Rows, when only rows change.
LEMMA RowsStepFate ==
    ASSUME DepositsTypeOK, RowsStep, NEW q \in Rows
    PROVE  RowFate(q)
<1>0. q \in Rows /\ \A r \in Rows : res[r].exp \in Nat
  BY Shapes DEF RowRec
<1>1. ASSUME NEW now \in Began, NEW r \in 1..MaxRows, NEW place \in Places,
             \/ \E g \in Guests : HoldSlot(r, g, place, now)
             \/ StaffCreate(r, place, now)
      PROVE  RowFate(q)
  <2> DEFINE gone == StaleHolds(now, place, Paying(now, Pays))
  <2>1. gone \in SUBSET Rows
          /\ \A x \in gone : res[x].st = "pending" /\ res[x].exp < clock
    BY StaleLapsed
  <2>2. \E row : /\ res' = [Expired(gone) EXCEPT ![r] = row]
                 /\ row.st \in {"pending", "confirmed"}
                 /\ row.st = "pending" => \E g \in Guests : HoldSlot(r, g, place, now)
    <3>1. ASSUME NEW g \in Guests, HoldSlot(r, g, place, now)
          PROVE  \E row : /\ res' = [Expired(gone) EXCEPT ![r] = row]
                          /\ row.st = "pending"
      <4> DEFINE row == [st |-> "pending", guest |-> g, place |-> place,
                         exp |-> now + Ttl]
      <4>1. res' = [Expired(gone) EXCEPT ![r] = row] /\ row.st = "pending"
        BY <3>1 DEF HoldSlot
      <4> HIDE DEF gone, row
      <4> QED BY <4>1
    <3>2. ASSUME StaffCreate(r, place, now)
          PROVE  \E row : /\ res' = [Expired(gone) EXCEPT ![r] = row]
                          /\ row.st = "confirmed"
      <4> DEFINE row == [st |-> "confirmed", guest |-> NoGuest,
                         place |-> place, exp |-> 0]
      <4>1. res' = [Expired(gone) EXCEPT ![r] = row] /\ row.st = "confirmed"
        BY <3>2 DEF StaffCreate
      <4> HIDE DEF gone, row
      <4> QED BY <4>1
    <3> HIDE DEF gone
    <3>3. CASE \E g \in Guests : HoldSlot(r, g, place, now)
      BY <3>1, <3>3
    <3>4. CASE StaffCreate(r, place, now)
      BY <3>2, <3>4
    <3> QED BY <1>1, <3>3, <3>4
  <2> HIDE DEF gone
  <2>3. Expired(gone) \in [Rows -> RowRec] /\ r \in Rows
    BY <2>1, ExpiredRows, Numbers
  <2>4. CASE q = r
    BY <2>2, <2>3, <2>4 DEF RowFate
  <2>5. CASE q # r
    <3>1. res'[q] = Expired(gone)[q]
      BY <2>2, <2>3, <2>5
    <3> QED BY <2>1, <3>1, SweptFate
  <2> QED BY <2>4, <2>5
<1>2. ASSUME NEW r \in Rows, ReleaseHold(r) PROVE RowFate(q)
  <2>1. res' = Expired({r}) /\ OpenOn(r) = {} /\ res[r].st = "pending"
    BY <1>2 DEF ReleaseHold
  <2>2. CASE q = r
    BY <2>1, <2>2, ExpiredRows DEF RowFate, HoldLapses, OpenOn
  <2>3. CASE q # r
    BY <2>1, <2>3, ExpiredRows, SameFate
  <2> QED BY <2>2, <2>3
<1>3. ASSUME NEW now, NEW r \in Rows,
             \/ \E desk \in BOOLEAN : ConfirmBooking(r, desk, now)
             \/ MarkArrived(r) \/ MarkCompleted(r, now)
      PROVE  RowFate(q)
  <2>1. /\ res'[r].st \in {"confirmed", "arrived", "completed"}
        /\ q # r => res'[q] = res[q]
    BY <1>3, Shapes DEF ConfirmBooking, MarkArrived, MarkCompleted, RowRec
  <2> QED BY <2>1, SameFate DEF RowFate
<1>4. ASSUME NEW now \in Began, NEW r \in Rows, NEW place \in Places,
             MoveReservation(r, place, now) \/ ExtendReservation(r, place, now)
      PROVE  RowFate(q)
  <2> DEFINE gone == StaleHolds(now, place, Paying(now, Pays))
  <2>1. gone \in SUBSET Rows
          /\ \A x \in gone : res[x].st = "pending" /\ res[x].exp < clock
    BY StaleLapsed
  <2>2. res' = [Expired(gone) EXCEPT ![r].place = place]
    BY <1>4 DEF MoveReservation, ExtendReservation, Relocate
  <2> HIDE DEF gone
  <2>3. Expired(gone) \in [Rows -> RowRec]
    BY <2>1, ExpiredRows
  <2>4. /\ res'[q].st = Expired(gone)[q].st
        /\ res'[q].guest = Expired(gone)[q].guest
        /\ res'[q].exp = Expired(gone)[q].exp
    BY <2>2, <2>3 DEF RowRec
  <2> QED BY <2>1, <2>4, SweptFate
<1>5. ASSUME NEW now \in Began, NEW unseen \in SUBSET Pays, CronSweep(now, unseen)
      PROVE  RowFate(q)
  <2> DEFINE stale == {r \in Rows \ Paying(now, Pays \ unseen) :
                          res[r].st = "pending" /\ res[r].exp < now}
  <2>1. stale \in SUBSET Rows /\ res' = Expired(stale)
    BY <1>5 DEF CronSweep
  <2>2. \A x \in stale : res[x].st = "pending" /\ res[x].exp < clock
    BY <1>0, BeganBefore
  <2> QED BY <2>1, <2>2, SweptFate
<1> QED BY <1>1, <1>2, <1>3, <1>4, <1>5, Numbers DEF RowsStep

\* Rows, whatever step is taken.
LEMMA EveryRowFate ==
    ASSUME DepositsTypeOK, [BookingNext]_depositVars, NEW q \in Rows
    PROVE  RowFate(q)
<1>0. \A r \in Rows : res[r].exp \in Nat
  BY Shapes DEF RowRec
<1>1. CASE UNCHANGED res
  BY <1>1, SameFate
<1>2. CASE BothStep
  <2>1. ASSUME NEW now \in Began, NEW r \in Rows, NEW p \in Pays,
               DepositPrepare(p, r, now)
        PROVE  RowFate(q)
    <3>1. CASE q = r
      <4>1. /\ res[r].st = "pending" /\ res'[r].st = "pending"
            /\ res'[r].guest = res[r].guest
            /\ res'[r].exp = IF res[r].exp < now + Window
                               THEN now + Window ELSE res[r].exp
        BY <2>1, Shapes DEF DepositPrepare, RowRec
      <4>2. pay'[p].st = "created" /\ pay'[p].hold = r
        BY <2>1, Shapes DEF DepositPrepare, NoPayment
      <4>3. res[r].exp <= res'[r].exp
        <5>1. res[r].exp \in Nat /\ now + Window \in Nat
          BY <1>0, Numbers
        <5> QED BY <4>1, <5>1
      <4> QED BY <3>1, <4>1, <4>2, <4>3 DEF RowFate, HoldKept
    <3>2. CASE q # r
      BY <2>1, <3>2, Shapes, SameFate DEF DepositPrepare
    <3> QED BY <3>1, <3>2
  <2>2. ASSUME NEW now, NEW r \in Rows,
               \/ \E desk \in BOOLEAN : CancelReservation(r, desk, now)
               \/ \E keep \in BOOLEAN : MarkNoShow(r, now, keep)
        PROVE  RowFate(q)
    <3>1. /\ res'[r].st \in {"cancelled", "no_show"}
          /\ q # r => res'[q] = res[q]
      BY <2>2, Shapes DEF CancelReservation, MarkNoShow, RowRec
    <3> QED BY <3>1, SameFate DEF RowFate
  <2>3. ASSUME NEW now \in Began, NEW p \in Pays, NEW offline \in BOOLEAN,
               ApplySuccess(p, now, offline)
        PROVE  RowFate(q)
    <3>1. PICK gone \in SUBSET Rows :
             /\ gone = {} \/ \E place \in Places :
                   gone = StaleHolds(now, place, Paying(now, Pays))
             /\ \/ KeepsIt(p) \/ ConfirmsIt(p) \/ RecreatesIt(p, gone)
                \/ RefundsIt(p, gone)
      BY <2>3, ApplySuccessCases
    <3>2. \A x \in gone : res[x].st = "pending" /\ res[x].exp < clock
      BY <3>1, StaleLapsed
    <3>3. Expired(gone) \in [Rows -> RowRec] /\ pay[p].res \in Rows
            /\ MaxRows + p \in Rows
      BY ExpiredRows, Shapes, Numbers
    <3>4. CASE KeepsIt(p)
      BY <3>4, SameFate DEF KeepsIt
    <3>5. CASE ConfirmsIt(p)
      <4>1. /\ res'[pay[p].res].st = "confirmed"
            /\ q # pay[p].res => res'[q] = res[q]
        BY <3>3, <3>5, Shapes DEF ConfirmsIt, RowRec
      <4> QED BY <4>1, SameFate DEF RowFate
    <3>6. CASE RecreatesIt(p, gone)
      <4>1. /\ res'[MaxRows + p].st = "confirmed"
            /\ q # MaxRows + p => res'[q] = Expired(gone)[q]
        BY <3>3, <3>6, ConfirmedRow DEF RecreatesIt
      <4>2. CASE q = MaxRows + p
        BY <4>1, <4>2 DEF RowFate
      <4>3. CASE q # MaxRows + p
        BY <3>2, <4>1, <4>3, SweptFate
      <4> QED BY <4>2, <4>3
    <3>7. CASE RefundsIt(p, gone)
      BY <3>2, <3>7, SweptFate DEF RefundsIt
    <3> QED BY <3>1, <3>4, <3>5, <3>6, <3>7
  <2>4. ASSUME NEW p \in Pays, ApplyExpired(p) PROVE RowFate(q)
    <3>1. CASE res' = res
      BY <3>1, SameFate
    <3>2. CASE /\ res[pay[p].hold].st = "pending" /\ OpenOn(pay[p].hold) \subseteq {p}
               /\ res' = Expired({pay[p].hold})
      <4>1. ~Open(p)'
        <5>1. pay'[p].st = "expired"
          BY <2>4, Shapes DEF ApplyExpired, Ended, Payments
        <5> QED BY <5>1 DEF Open, OpenStates
      <4>2. pay[p].hold \in Rows
        BY Shapes
      <4>3. CASE q = pay[p].hold
        BY <3>2, <4>1, <4>2, <4>3, ExpiredRows DEF RowFate, HoldLapses, OpenOn
      <4>4. CASE q # pay[p].hold
        BY <3>2, <4>2, <4>4, ExpiredRows, SameFate
      <4> QED BY <4>3, <4>4
    <3> QED BY <2>4, <3>1, <3>2 DEF ApplyExpired
  <2> QED BY <1>2, <2>1, <2>2, <2>3, <2>4 DEF BothStep
<1>3. ASSUME NEW p \in Pays, PayStep(p) PROVE UNCHANGED res
  BY <1>3, PayStepFrame
<1> QED BY <1>1, <1>2, <1>3, RowsStepFate, StepKinds
        DEF QuietStep, depositVars, rowVars

\* A payment keeps its hold, and is opened once: for a hold that lasts as
\* long as its deadline.
PayFate(p) ==
    /\ pay[p].st # "none" => pay'[p].st # "none" /\ pay'[p].hold = pay[p].hold
    /\ Open(p)' =>
         \/ /\ Open(p) /\ pay'[p].hold = pay[p].hold
            /\ pay'[p].deadline = pay[p].deadline
         \/ /\ pay[p].st = "none" /\ res'[pay'[p].hold].st = "pending"
            /\ pay'[p].deadline <= res'[pay'[p].hold].exp

\* Every step deals with every payment in one of these ways.
LEMMA EveryPayFate ==
    ASSUME DepositsTypeOK, [BookingNext]_depositVars, NEW q \in Pays
    PROVE  PayFate(q)
<1>1. ASSUME pay'[q] = pay[q] PROVE PayFate(q)
  BY <1>1 DEF PayFate, Open
<1>2. ASSUME pay[q].st # "none", pay'[q].st \notin {"none"} \cup OpenStates,
             pay'[q].hold = pay[q].hold
      PROVE  PayFate(q)
  BY <1>2 DEF PayFate, Open
<1>3. /\ \A st \in Refunding : st \notin OpenStates
      /\ "none" \notin OpenStates /\ "succeeded" \notin OpenStates
      /\ "expired" \notin OpenStates
  BY DEF Refunding, OpenStates
<1>4. CASE BothStep
  <2>1. ASSUME NEW now \in Began, NEW r \in Rows, NEW p \in Pays,
               DepositPrepare(p, r, now)
        PROVE  PayFate(q)
    <3>1. CASE q = p
      <4>1. /\ pay[p].st = "none" /\ pay'[p].hold = r
            /\ pay'[p].deadline = now + Window
        BY <2>1, Shapes DEF DepositPrepare, NoPayment
      <4>2. /\ res'[r].st = "pending"
            /\ res'[r].exp = IF res[r].exp < now + Window
                               THEN now + Window ELSE res[r].exp
        BY <2>1, Shapes DEF DepositPrepare, RowRec
      <4>3. res[r].exp \in Nat /\ now + Window \in Nat
        BY Shapes, Numbers DEF RowRec
      <4>4. pay'[p].deadline <= res'[r].exp
        BY <4>1, <4>2, <4>3
      <4> QED BY <3>1, <4>1, <4>2, <4>4 DEF PayFate
    <3>2. CASE q # p
      BY <1>1, <2>1, <3>2, Shapes DEF DepositPrepare
    <3> QED BY <3>1, <3>2
  <2>2. ASSUME NEW r \in Rows, pay' = RefundAll(r) \/ pay' = KeepAll(r)
        PROVE  PayFate(q)
    <3>1. CASE q \in Succeeded(r)
      <4>1. pay[q].st = "succeeded" /\ pay[q] \in Payments
        BY <3>1, Shapes DEF Succeeded
      <4>2. CASE pay' = RefundAll(r)
        <5>1. pay'[q] = BeginRefund(pay[q], FALSE)
          BY <3>1, <4>2 DEF RefundAll
        <5>2. pay'[q].st = "refund_pending" /\ pay'[q].hold = pay[q].hold
          BY <4>1, <5>1, RefundRecords
        <5> QED BY <1>2, <1>3, <4>1, <5>2, StatesApart
      <4>3. CASE pay' = KeepAll(r)
        <5>1. pay'[q] = [pay[q] EXCEPT !.kept = TRUE]
          BY <3>1, <4>3 DEF KeepAll
        <5>2. pay'[q].st = "succeeded" /\ pay'[q].hold = pay[q].hold
          BY <4>1, <5>1 DEF Payments
        <5> QED BY <1>2, <1>3, <4>1, <5>2
      <4> QED BY <2>2, <4>2, <4>3
    <3>2. CASE q \notin Succeeded(r)
      BY <1>1, <2>2, <3>2 DEF RefundAll, KeepAll
    <3> QED BY <3>1, <3>2
  <2>3. ASSUME NEW now \in Began, NEW p \in Pays, NEW offline \in BOOLEAN,
               ApplySuccess(p, now, offline)
        PROVE  PayFate(q)
    <3>1. PICK gone \in SUBSET Rows :
             KeepsIt(p) \/ ConfirmsIt(p) \/ RecreatesIt(p, gone) \/ RefundsIt(p, gone)
      BY <2>3, ApplySuccessCases
    <3>2. PICK v \in Payments : /\ pay' = [pay EXCEPT ![p] = v]
                                /\ v.st \in {"succeeded", "refund_pending"}
                                /\ v.hold = pay[p].hold
      <4>1. CASE KeepsIt(p) \/ ConfirmsIt(p)
        BY <4>1, SettledRecords DEF KeepsIt, ConfirmsIt
      <4>2. CASE RecreatesIt(p, gone)
        BY <4>2, SettledRecords DEF RecreatesIt
      <4>3. CASE RefundsIt(p, gone)
        <5>1. /\ BeginRefund(Settled(p), FALSE) \in Payments
              /\ BeginRefund(Settled(p), FALSE).st = "refund_pending"
              /\ BeginRefund(Settled(p), FALSE).hold = pay[p].hold
          <6>1. Settled(p) \in Payments /\ Settled(p).hold = pay[p].hold
            BY SettledRecords
          <6> QED BY <6>1, RefundRecords
        <5> QED BY <4>3, <5>1 DEF RefundsIt
      <4> QED BY <3>1, <4>1, <4>2, <4>3
    <3>3. pay[p].st # "none"
      BY <2>3, StatesApart DEF ApplySuccess, Unsettled
    <3>4. CASE q = p
      BY <1>2, <1>3, <3>2, <3>3, <3>4, Shapes, StatesApart
    <3>5. CASE q # p
      BY <1>1, <3>2, <3>5, Shapes
    <3> QED BY <3>4, <3>5
  <2>4. ASSUME NEW p \in Pays, ApplyExpired(p) PROVE PayFate(q)
    <3>1. pay' = [pay EXCEPT ![p] = Ended(p, "expired")] /\ Open(p)
      BY <2>4 DEF ApplyExpired
    <3>2. CASE q = p
      <4>1. pay'[p].st = "expired" /\ pay'[p].hold = pay[p].hold
        BY <3>1, PaymentRecords, Shapes DEF WrittenOff
      <4> QED BY <1>2, <1>3, <3>1, <3>2, <4>1 DEF Open
    <3>3. CASE q # p
      BY <1>1, <3>1, <3>3, Shapes
    <3> QED BY <3>2, <3>3
  <2> QED BY <1>4, <2>1, <2>2, <2>3, <2>4
          DEF BothStep, CancelReservation, MarkNoShow
<1>5. ASSUME NEW p \in Pays, PayStep(p) PROVE PayFate(q)
  <2>1. PICK v : PayKeep(p, v)
    BY <1>5, PayStepKeeps
  <2>2. CASE q = p
    <3>1. /\ pay'[p] = v /\ v.hold = pay[p].hold
          /\ v.st \in OpenStates => v.deadline = pay[p].deadline
      BY <2>1, Shapes DEF PayKeep
    <3>2. /\ pay[p].st # "none" => v.st # "none"
          /\ v.st \in OpenStates => Open(p)
      BY <2>1, <1>3, StatesApart DEF PayKeep, Open, Unsettled
    <3> QED BY <2>2, <3>1, <3>2 DEF PayFate, Open
  <2>3. CASE q # p
    BY <1>1, <2>1, <2>3, Shapes DEF PayKeep
  <2> QED BY <2>2, <2>3
<1>6. CASE QuietStep \/ RowsStep \/ UNCHANGED depositVars
  BY <1>1, <1>6, RowsStepKeeps DEF QuietStep, depositVars, payVars
<1> QED BY <1>4, <1>5, <1>6, StepKinds

\* Time does not run backwards.
LEMMA ClockRises ==
    ASSUME DepositsTypeOK, [BookingNext]_depositVars
    PROVE  clock \in Nat /\ clock' \in Nat /\ clock <= clock'
<1>1. clock \in Nat
  BY RowsAssumption DEF DepositsTypeOK, RowsTypeOK
<1>2. CASE Clock
  BY <1>1, <1>2 DEF Clock, Tick
<1>3. CASE QuietStep /\ ~Clock
  BY <1>1, <1>3 DEF QuietStep, Manage, SaveRules, QiCreates, QiTakes, QiDeclines,
                    HearNotFound, CancelAtQi, SendRefund, QiPaysBack, QiDropsRefund, rowVars
<1>4. CASE RowsStep
  BY <1>1, <1>4, RowsStepKeeps
<1>5. ASSUME NEW p \in Pays, PayStep(p) PROVE clock' = clock
  BY <1>5, PayStepFrame
<1>6. CASE BothStep
  BY <1>1, <1>6, BothTyped
<1> QED BY <1>1, <1>2, <1>3, <1>4, <1>5, <1>6, StepKinds DEF depositVars, rowVars

\* While an attempt is open its hold outlasts the deadline: that is what the
\* sweep, which looks at the hold's own expiry first, waits for.
HoldsWait ==
    \A p \in Pays : Open(p) =>
        LET r == pay[p].hold IN
          /\ res[r].st = "pending" => pay[p].deadline <= res[r].exp
          /\ pay[p].deadline > clock => res[r].st # "expired"

\* No step lets a hold lapse before the deadline of a payment open for it.
LEMMA HoldsWaitStep ==
    ASSUME DepositsTypeOK, DepositInv, HoldsWait, [BookingNext]_depositVars
    PROVE  HoldsWait'
<1>1. DepositsTypeOK'
  BY TypeStep
<1> SUFFICES ASSUME NEW p \in Pays, Open(p)'
             PROVE  LET r == pay'[p].hold IN
                      /\ res'[r].st = "pending" => pay'[p].deadline <= res'[r].exp
                      /\ pay'[p].deadline > clock' => res'[r].st # "expired"
  BY DEF HoldsWait, Open
<1>2. PayFate(p)
  BY EveryPayFate
<1>3. CASE pay[p].st = "none"
  <2>1. ~Open(p)
    BY <1>3 DEF Open, OpenStates
  <2> QED BY <1>2, <2>1 DEF PayFate
<1>4. CASE Open(p)
  <2>1. PICK r \in Rows : r = pay[p].hold
    BY Shapes
  <2>2. pay[p].st # "none"
    BY <1>4 DEF Open, OpenStates
  <2>3. /\ pay'[p].hold = r /\ pay'[p].deadline = pay[p].deadline
        /\ res[r].st # "none"
    BY <1>2, <2>1, <2>2 DEF PayFate, DepositInv, Links
  <2>4. /\ res[r].st = "pending" => pay[p].deadline <= res[r].exp
        /\ pay[p].deadline > clock => res[r].st # "expired"
    BY <1>4, <2>1 DEF HoldsWait
  <2>5. /\ pay[p].deadline \in Nat /\ res[r].exp \in Nat /\ res'[r].exp \in Nat
        /\ clock \in Nat /\ clock' \in Nat /\ clock <= clock'
    <3>1. res' \in [Rows -> RowRec]
      BY <1>1 DEF DepositsTypeOK, RowsTypeOK, RowRec
    <3> QED BY <3>1, Shapes, ClockRises DEF RowRec, Payments
  <2>6. RowFate(r)
    BY EveryRowFate
  <2>7. ASSUME res'[r].st = "pending" PROVE pay[p].deadline <= res'[r].exp
    <3>1. HoldKept(r)
      BY <2>3, <2>6, <2>7 DEF RowFate, HoldSlot, IsNextRow
    <3> QED BY <2>4, <2>5, <3>1 DEF HoldKept
  <2>8. ASSUME pay[p].deadline > clock', res'[r].st = "expired" PROVE FALSE
    <3>1. HoldLapses(r)
      BY <2>4, <2>5, <2>6, <2>8 DEF RowFate
    <3>2. res[r].exp < clock
      BY <1>4, <2>1, <3>1 DEF HoldLapses
    <3> QED BY <2>4, <2>5, <2>8, <3>1, <3>2 DEF HoldLapses
  <2> QED BY <2>3, <2>7, <2>8
<1> QED BY <1>2, <1>3, <1>4 DEF PayFate

\* The slot is the payer's until the deadline: for any lag of a transaction,
\* any snapshot of the sweep, and any lengths of hold, window and grace.
THEOREM PayersKeepTheSlot == BookingSpec => []SlotIsWaitedFor
<1>1. DepositsInit => HoldsWait
  BY DEF DepositsInit, NoPayment, HoldsWait, Open, OpenStates
<1>2. DepositsTypeOK /\ DepositInv /\ HoldsWait /\ [BookingNext]_depositVars
        => HoldsWait'
  BY HoldsWaitStep
<1>3. HoldsWait => SlotIsWaitedFor
  BY DEF HoldsWait, SlotIsWaitedFor
<1> QED BY <1>1, <1>2, <1>3, BookingTyped, DepositsLinked, PTL
        DEF BookingSpec, BookingTypeOK

\* The holds of a guest that count towards the cap: nobody ever began to pay.
Unpaid(g) == {r \in Rows :
                /\ res[r].st = "pending" /\ res[r].guest = g
                /\ res[r].exp > clock
                /\ \A p \in Pays : pay[p].st = "none" \/ pay[p].hold # r}

\* Only hold_slot adds one: a hold made longer is one being paid for.
LEMMA UnpaidStep ==
    ASSUME DepositsTypeOK, HoldCap, [BookingNext]_depositVars, NEW g \in Guests
    PROVE  Cardinality(Unpaid(g)') <= MaxHolds
<1> DEFINE old == Unpaid(g)
           new == Unpaid(g)'
<1>0. /\ IsFiniteSet(old) /\ Cardinality(old) \in Nat
      /\ Cardinality(old) <= MaxHolds /\ MaxHolds \in Nat
  <2>1. IsFiniteSet(Rows)
    BY FS_Interval, RowsAssumption DEF Rows
  <2>2. old \subseteq Rows
    BY DEF Unpaid
  <2>3. Cardinality(old) <= MaxHolds
    BY DEF Unpaid, HoldCap
  <2> QED BY <2>1, <2>2, <2>3, FS_Subset, FS_CardinalityType, BookingAssumption
<1>1. ASSUME new \subseteq old PROVE Cardinality(new) <= MaxHolds
  <2>1. Cardinality(new) <= Cardinality(old) /\ Cardinality(new) \in Nat
    BY <1>0, <1>1, FS_Subset, FS_CardinalityType
  <2> QED BY <1>0, <2>1
<1>2. ASSUME NEW r \in Rows, NEW h \in Guests, NEW place \in Places,
             NEW now \in Began, HoldSlot(r, h, place, now)
      PROVE  Cardinality(new) <= MaxHolds
  <2> DEFINE gone == StaleHolds(now, place, Paying(now, Pays))
             live == LiveHolds(h, now, place)
  <2>1. gone \in SUBSET Rows /\ \A q \in gone : res[q].st = "pending"
    BY StaleAreHolds
  <2>2. /\ res' = [Expired(gone) EXCEPT ![r] =
                     [st |-> "pending", guest |-> h, place |-> place,
                      exp |-> now + Ttl]]
        /\ clock' = clock /\ pay' = pay /\ Cardinality(live) < MaxHolds
    BY <1>2 DEF HoldSlot, payVars
  <2> HIDE DEF gone
  <2>3. res'[r].guest = h
          /\ \A q \in Rows \ {r} : res'[q] = Expired(gone)[q]
    BY <2>1, <2>2, ExpiredRows
  <2>4. \A q \in Rows \ {r} : res'[q].st = "pending" => res'[q] = res[q]
    BY <2>1, <2>3, ExpiredRows
  <2>5. new \ {r} \subseteq old
    BY <2>2, <2>4 DEF Unpaid
  <2>6. CASE g # h
    BY <1>1, <2>3, <2>5, <2>6 DEF Unpaid
  <2>7. CASE g = h
    <3>1. new \ {r} \subseteq live
      <4>1. \A q \in Rows : res[q].exp \in Nat
        BY Shapes DEF RowRec
      <4> QED BY <2>5, <2>7, <4>1, BeganBefore DEF Unpaid, LiveHolds
    <3>2. live \subseteq Rows
      BY DEF LiveHolds
    <3> HIDE DEF live, new, old
    <3>3. IsFiniteSet(live) /\ Cardinality(live) \in Nat
      <4>1. IsFiniteSet(Rows)
        BY FS_Interval, RowsAssumption DEF Rows
      <4> QED BY <3>2, <4>1, FS_Subset, FS_CardinalityType
    <3>4. new \subseteq live \cup {r}
      BY <3>1
    <3>5. /\ IsFiniteSet(live \cup {r})
          /\ Cardinality(live \cup {r}) <= Cardinality(live) + 1
          /\ Cardinality(live \cup {r}) \in Nat
      <4>1. /\ IsFiniteSet(live \cup {r})
            /\ \/ Cardinality(live \cup {r}) = Cardinality(live)
               \/ Cardinality(live \cup {r}) = Cardinality(live) + 1
        BY <3>3, FS_AddElement
      <4> QED BY <3>3, <4>1
    <3>6. Cardinality(new) <= Cardinality(live \cup {r}) /\ Cardinality(new) \in Nat
      BY <3>4, <3>5, FS_Subset, FS_CardinalityType
    <3> QED BY <1>0, <2>2, <3>3, <3>5, <3>6
  <2> QED BY <2>6, <2>7
<1>3. CASE ~\E r \in Rows, h \in Guests, place \in Places, now \in Began :
              HoldSlot(r, h, place, now)
  <2> SUFFICES ASSUME NEW r \in new PROVE r \in old
    BY <1>1
  <2>1. /\ r \in Rows /\ res'[r].st = "pending" /\ res'[r].guest = g
        /\ res'[r].exp > clock'
        /\ \A p \in Pays : pay'[p].st = "none" \/ pay'[p].hold # r
    BY DEF Unpaid
  <2>2. HoldKept(r)
    BY <1>3, <2>1, EveryRowFate DEF RowFate
  <2>3. res'[r].exp = res[r].exp
    BY <2>1, <2>2 DEF HoldKept
  <2>4. \A p \in Pays : pay[p].st = "none" \/ pay[p].hold # r
    BY <2>1, EveryPayFate DEF PayFate
  <2>5. res[r].exp > clock
    <3>1. res[r].exp \in Nat
      BY <2>1, Shapes DEF RowRec
    <3> QED BY <2>1, <2>3, <3>1, ClockRises
  <2> QED BY <2>1, <2>2, <2>4, <2>5 DEF Unpaid, HoldKept
<1> QED BY <1>2, <1>3

\* No guest hoards slots, for any cap and however late the cap is counted.
THEOREM HoldsAreCapped == BookingSpec => []HoldCap
<1>1. DepositsInit => HoldCap
  <2> SUFFICES ASSUME DepositsInit, NEW g \in Guests
               PROVE  Cardinality(Unpaid(g)) <= MaxHolds
    BY DEF HoldCap, Unpaid
  <2>1. Unpaid(g) = {}
    BY DEF DepositsInit, RowsInit, NoRow, Unpaid
  <2> QED BY <2>1, FS_EmptySet, BookingAssumption
<1>2. DepositsTypeOK /\ HoldCap /\ [BookingNext]_depositVars => HoldCap'
  <2> SUFFICES ASSUME DepositsTypeOK, HoldCap, [BookingNext]_depositVars
               PROVE  \A g \in Guests : Cardinality(Unpaid(g)') <= MaxHolds
    BY DEF HoldCap, Unpaid
  <2> QED BY UnpaidStep
<1> QED BY <1>1, <1>2, BookingTyped, PTL DEF BookingSpec, BookingTypeOK

-----------------------------------------------------------------------------
(* Refunds *)

\* A payment has one refund request id, made when its refund began; cash is
\* handed over only when Qi has not paid, and no longer can.
RefundInv ==
    \A p \in Pays :
       /\ IF pay[p].st \in Refunding
            THEN pay[p].rid = 1
            ELSE pay[p].rid = 0 /\ wire[p] = 0 /\ back[p] = {} /\ ~cash[p]
       /\ wire[p] \in {0, 1} /\ back[p] \in {{}, {1}}
       /\ cash[p] => pay[p].st = "refunded" /\ back[p] = {} /\ wire[p] = 0
       /\ pay[p].st = "refunded" => cash[p] \/ back[p] = {1}

\* RefundInv only looks at three fields of a payment.
LEMMA RefundInvFrame ==
    ASSUME DepositsTypeOK, RefundInv, UNCHANGED refundVars,
           \A p \in Pays :
              \/ /\ pay'[p].rid = pay[p].rid
                 /\ \/ pay'[p].st = pay[p].st
                    \/ /\ pay[p].st \in {"refund_pending", "refund_failed"}
                       /\ pay'[p].st \in {"refund_pending", "refund_failed"}
              \/ /\ pay[p].st \notin Refunding /\ pay'[p].st \notin Refunding
                 /\ pay'[p].rid = pay[p].rid
              \/ /\ pay[p].st \notin Refunding /\ pay'[p].st = "refund_pending"
                 /\ pay'[p].rid = pay[p].rid + 1
    PROVE  RefundInv'
BY StatesApart DEF RefundInv, refundVars

\* What happens to a refund on its way keeps it single.
LEMMA RefundStep ==
    ASSUME DepositsTypeOK, RefundInv, NEW p \in Pays,
           \/ SendRefund(p) \/ QiPaysBack(p) \/ QiDropsRefund(p)
           \/ RefundSucceeded(p) \/ RefundFailed(p) \/ RefundManual(p)
    PROVE  RefundInv'
<1>0. /\ wire \in [Pays -> Nat] /\ back \in [Pays -> SUBSET Nat]
      /\ cash \in [Pays -> BOOLEAN]
  BY DEF DepositsTypeOK
<1>1. CASE SendRefund(p) \/ QiPaysBack(p) \/ QiDropsRefund(p)
  <2>1. pay' = pay /\ cash' = cash
    BY <1>1 DEF SendRefund, QiPaysBack, QiDropsRefund, payVars
  <2>2. CASE SendRefund(p)
    BY <1>0, <2>1, <2>2, StatesApart DEF SendRefund, RefundInv
  <2>3. CASE QiPaysBack(p)
    BY <1>0, <2>1, <2>3 DEF QiPaysBack, RefundInv
  <2>4. CASE QiDropsRefund(p)
    BY <1>0, <2>1, <2>4 DEF QiDropsRefund, RefundInv
  <2> QED BY <1>1, <2>2, <2>3, <2>4
<1>2. CASE RefundSucceeded(p) \/ RefundFailed(p) \/ RefundManual(p)
  <2>1. /\ \A q \in Pays \ {p} : pay'[q] = pay[q]
        /\ pay'[p].rid = pay[p].rid
        /\ pay[p].st \in {"refund_pending", "refund_failed"}
    BY <1>2, Shapes DEF RefundSucceeded, RefundFailed, RefundManual, Payments
  <2>2. CASE RefundSucceeded(p)
    <3>1. pay'[p].st = "refunded"
      BY <2>2, Shapes DEF RefundSucceeded, Payments
    <3> QED BY <1>0, <2>1, <2>2, <3>1, StatesApart
            DEF RefundSucceeded, RefundInv, refundVars
  <2>3. CASE RefundFailed(p)
    <3>1. pay'[p].st = "refund_failed"
      BY <2>3, Shapes DEF RefundFailed, Payments
    <3>2. /\ back' = back /\ cash' = cash
          /\ \A q \in Pays \ {p} : wire'[q] = wire[q]
          /\ wire'[p] \in {0, wire[p]}
      BY <1>0, <2>3 DEF RefundFailed
    <3> QED BY <1>0, <2>1, <3>1, <3>2, StatesApart DEF RefundInv
  <2>4. CASE RefundManual(p)
    <3>1. pay'[p].st = "refunded"
      BY <2>4, Shapes DEF RefundManual, Payments
    <3>2. /\ back' = back /\ wire' = wire
          /\ \A q \in Pays \ {p} : cash'[q] = cash[q]
          /\ cash'[p] = (back[p] = {})
          /\ wire[p] # 0 => wire[p] \in back[p]
      BY <1>0, <2>4 DEF RefundManual
    <3>3. cash'[p] => back[p] = {} /\ wire[p] = 0
      BY <3>2 DEF RefundInv
    <3>4. ~cash'[p] => back[p] = {1}
      BY <3>2 DEF RefundInv
    <3>5. pay'[p].rid = 1
      BY <2>1, StatesApart DEF RefundInv
    <3> QED BY <2>1, <3>1, <3>2, <3>3, <3>4, <3>5, StatesApart DEF RefundInv
  <2> QED BY <1>2, <2>2, <2>3, <2>4
<1> QED BY <1>1, <1>2

\* The actions on rows and payments begin refunds, each under a new id.
LEMMA BothStepRefunds ==
    ASSUME DepositsTypeOK, RefundInv, BothStep, NEW p \in Pays
    PROVE  \/ pay'[p].st = pay[p].st /\ pay'[p].rid = pay[p].rid
           \/ /\ pay[p].st \notin Refunding /\ pay'[p].st \notin Refunding
              /\ pay'[p].rid = pay[p].rid
           \/ /\ pay[p].st \notin Refunding /\ pay'[p].st = "refund_pending"
              /\ pay'[p].rid = pay[p].rid + 1
<1>0. pay[p] \in Payments
  BY Shapes
<1>1. ASSUME NEW q \in Pays, NEW r, NEW now, DepositPrepare(q, r, now)
      PROVE  \/ pay'[p] = pay[p]
             \/ /\ pay[p].st = "none" /\ pay'[p].st = "created"
                /\ pay'[p].rid = 0
  BY <1>1, Shapes DEF DepositPrepare, NoPayment
<1>2. ASSUME NEW r, pay' = RefundAll(r) \/ pay' = KeepAll(r)
      PROVE  \/ pay'[p].st = pay[p].st /\ pay'[p].rid = pay[p].rid
             \/ /\ pay[p].st = "succeeded" /\ pay'[p].st = "refund_pending"
                /\ pay'[p].rid = pay[p].rid + 1
  <2>1. CASE pay' = RefundAll(r)
    BY <1>0, <2>1, RefundRecords DEF RefundAll, Succeeded
  <2>2. CASE pay' = KeepAll(r)
    BY <1>0, <2>2 DEF KeepAll, Payments
  <2> QED BY <1>2, <2>1, <2>2
<1>3. ASSUME NEW q \in Pays, NEW now \in Began, NEW offline \in BOOLEAN,
             ApplySuccess(q, now, offline)
      PROVE  \/ pay'[p] = pay[p]
             \/ /\ pay[p].st \in Unsettled /\ pay'[p].st = "succeeded"
                /\ pay'[p].rid = pay[p].rid
             \/ /\ pay[p].st \in Unsettled /\ pay'[p].st = "refund_pending"
                /\ pay'[p].rid = pay[p].rid + 1
  <2>1. pay[q].st \in Unsettled
    BY <1>3 DEF ApplySuccess, Unsettled
  <2>2. PICK gone \in SUBSET Rows :
           KeepsIt(q) \/ ConfirmsIt(q) \/ RecreatesIt(q, gone) \/ RefundsIt(q, gone)
    BY <1>3, ApplySuccessCases
  <2>3. CASE KeepsIt(q) \/ ConfirmsIt(q) \/ RecreatesIt(q, gone)
    <3>1. \E v : /\ pay' = [pay EXCEPT ![q] = v]
                  /\ v.st = "succeeded" /\ v.rid = pay[q].rid
      BY <2>3, SettledRecords DEF KeepsIt, ConfirmsIt, RecreatesIt
    <3> QED BY <2>1, <3>1, Shapes
  <2>4. CASE RefundsIt(q, gone)
    <3>1. Settled(q) \in Payments /\ Settled(q).rid = pay[q].rid
      BY SettledRecords
    <3>2. /\ BeginRefund(Settled(q), FALSE).st = "refund_pending"
          /\ BeginRefund(Settled(q), FALSE).rid = pay[q].rid + 1
      BY <3>1, RefundRecords
    <3> QED BY <2>1, <2>4, <3>2, Shapes DEF RefundsIt
  <2> QED BY <2>2, <2>3, <2>4
<1>4. ASSUME NEW q \in Pays, ApplyExpired(q)
      PROVE  \/ pay'[p] = pay[p]
             \/ /\ pay[p].st \in Unsettled /\ pay'[p].st = "expired"
                /\ pay'[p].rid = pay[p].rid
  <2>1. "expired" \in WrittenOff /\ pay[q].st \in Unsettled
    BY <1>4 DEF ApplyExpired, Open, Unsettled, WrittenOff
  <2> QED BY <1>4, <2>1, PaymentRecords, Shapes DEF ApplyExpired
<1>5. "none" \notin Refunding /\ "created" \notin Refunding
        /\ "succeeded" \notin Refunding /\ "expired" \notin Refunding
  BY DEF Refunding
<1>6. pay[p].st = "none" => pay[p].rid = 0
  BY <1>5 DEF RefundInv
<1> QED BY <1>1, <1>2, <1>3, <1>4, <1>5, <1>6, StatesApart
        DEF BothStep, CancelReservation, MarkNoShow

\* Every step keeps RefundInv.
LEMMA RefundsStaySingle == BookingSpec => []RefundInv
<1>1. DepositsInit => RefundInv
  BY StatesApart DEF DepositsInit, NoPayment, RefundInv
<1>2. ASSUME DepositsTypeOK, RefundInv, [BookingNext]_depositVars
      PROVE  RefundInv'
  <2>1. CASE QuietStep
    <3>1. ASSUME NEW p \in Pays,
                 SendRefund(p) \/ QiPaysBack(p) \/ QiDropsRefund(p)
          PROVE  RefundInv'
      BY <1>2, <3>1, RefundStep
    <3>2. CASE pay' = pay /\ UNCHANGED refundVars
      BY <1>2, <3>2, RefundInvFrame
    <3> QED BY <2>1, <3>1, <3>2 DEF QuietStep, Clock, Manage, payVars,
                   QiCreates, QiTakes, QiDeclines, HearNotFound, CancelAtQi
  <2>2. CASE RowsStep \/ UNCHANGED depositVars
    <3>1. pay' = pay /\ UNCHANGED refundVars
      BY <1>2, <2>2, RowsStepKeeps DEF payVars, depositVars
    <3> QED BY <1>2, <3>1, RefundInvFrame
  <2>3. ASSUME NEW p \in Pays, PayStep(p) PROVE RefundInv'
    <3>1. CASE RefundSucceeded(p) \/ RefundFailed(p) \/ RefundManual(p)
      BY <1>2, <3>1, RefundStep
    <3>2. ASSUME \/ MarkCreated(p) \/ ApplyFailed(p) \/ CancelFails(p)
                 \/ \E unknown \in BOOLEAN : RefundUnheard(p, unknown)
                 \/ RefundRetry(p) \/ RefundRequest(p)
          PROVE  RefundInv'
      <4> USE <1>2, Shapes DEF Payments
      <4>1. UNCHANGED refundVars /\ \A q \in Pays \ {p} : pay'[q] = pay[q]
        BY <3>2 DEF MarkCreated, ApplyFailed, CancelFails, RefundUnheard,
                    RefundRetry, RefundRequest
      <4>2. CASE \/ MarkCreated(p) \/ CancelFails(p)
                 \/ \E unknown \in BOOLEAN : RefundUnheard(p, unknown)
                 \/ RefundRetry(p)
        <5>1. /\ pay'[p].rid = pay[p].rid
              /\ \/ pay'[p].st = pay[p].st
                 \/ pay[p].st = "created" /\ pay'[p].st = "pending"
                 \/ /\ pay[p].st \in {"refund_pending", "refund_failed"}
                    /\ pay'[p].st \in {"refund_pending", "refund_failed"}
          BY <4>2 DEF MarkCreated, CancelFails, RefundUnheard, RefundRetry
        <5>2. "created" \notin Refunding /\ "pending" \notin Refunding
          BY DEF Refunding
        <5> QED BY <4>1, <5>1, <5>2, RefundInvFrame
      <4>3. CASE ApplyFailed(p)
        <5>1. pay[p].st \notin Refunding /\ "failed" \notin Refunding
          BY <4>3 DEF ApplyFailed, Open, OpenStates, Refunding
        <5>2. pay'[p].st = "failed" /\ pay'[p].rid = pay[p].rid
          BY <4>3 DEF ApplyFailed, Ended
        <5> QED BY <4>1, <5>1, <5>2, RefundInvFrame
      <4>4. CASE RefundRequest(p)
        <5>1. /\ pay[p].st = "succeeded" /\ pay'[p].st = "refund_pending"
              /\ pay'[p].rid = pay[p].rid + 1
          BY <4>4, RefundRecords DEF RefundRequest
        <5> QED BY <4>1, <5>1, StatesApart, RefundInvFrame
      <4> QED BY <3>2, <4>2, <4>3, <4>4
    <3> QED BY <2>3, <3>1, <3>2 DEF PayStep
  <2>4. CASE BothStep
    <3>1. UNCHANGED refundVars
      BY <1>2, <2>4, BothTyped
    <3>2. \A p \in Pays :
             \/ pay'[p].st = pay[p].st /\ pay'[p].rid = pay[p].rid
             \/ /\ pay[p].st \notin Refunding /\ pay'[p].st \notin Refunding
                /\ pay'[p].rid = pay[p].rid
             \/ /\ pay[p].st \notin Refunding /\ pay'[p].st = "refund_pending"
                /\ pay'[p].rid = pay[p].rid + 1
      BY <1>2, <2>4, BothStepRefunds
    <3> QED BY <1>2, <3>1, <3>2, RefundInvFrame
  <2> QED BY <1>2, <2>1, <2>2, <2>3, <2>4, StepKinds
<1> QED BY <1>1, <1>2, BookingTyped, PTL DEF BookingSpec, BookingTypeOK

\* Either Qi paid it back, or a manager did, or nobody.
LEMMA GivenBackIs ==
    ASSUME RefundInv, NEW p \in Pays
    PROVE  GivenBack(p) = IF back[p] = {1} \/ cash[p] THEN 1 ELSE 0
<1>1. Cardinality({}) = 0 /\ Cardinality({1}) = 1
  BY FS_EmptySet, FS_Singleton
<1>2. CASE cash[p]
  BY <1>1, <1>2 DEF GivenBack, RefundInv
<1>3. CASE ~cash[p] /\ back[p] = {}
  BY <1>1, <1>3 DEF GivenBack
<1>4. CASE ~cash[p] /\ back[p] = {1}
  BY <1>1, <1>4 DEF GivenBack
<1> QED BY <1>2, <1>3, <1>4 DEF RefundInv

\* A deposit goes back at most once, whatever Qi answered, however often the
\* reconciler asked and the manager retried.
THEOREM DepositsReturnOnce == BookingSpec => []ReturnedOnce
<1>1. ASSUME RefundInv PROVE ReturnedOnce
  <2> SUFFICES ASSUME NEW p \in Pays
               PROVE  /\ GivenBack(p) <= 1
                      /\ pay[p].st = "refunded" => GivenBack(p) = 1
                      /\ GivenBack(p) = 1 => pay[p].st \in Refunding
    BY DEF ReturnedOnce
  <2> QED BY <1>1, GivenBackIs DEF RefundInv
<1> QED BY <1>1, RefundsStaySingle, PTL

-----------------------------------------------------------------------------
(* The promise *)

\* What the refinement reads of the two halves of the invariant.
PromiseInv == DepositsTypeOK /\ DepositInv /\ RefundInv

\* The state of a payment's money, without counting.
LEMMA MoneyState ==
    ASSUME RefundInv, NEW p \in Pays
    PROVE  MoneyOf(p) =
             IF pay[p].st \in Refunding
               THEN IF back[p] = {1} \/ cash[p] THEN "returned" ELSE "owed"
               ELSE IF pay[p].st = "succeeded" THEN "venue"
                    ELSE IF "paid" \in bank[p] THEN "bank" ELSE "guest"
<1>2. GivenBack(p) = IF back[p] = {1} \/ cash[p] THEN 1 ELSE 0
  BY GivenBackIs
<1>3. \/ pay[p].st \notin Refunding
      \/ pay[p].st \in {"refund_pending", "refund_failed", "refunded"}
  BY DEF Refunding
<1>4. pay[p].st \notin Refunding => ~(back[p] = {1} \/ cash[p])
  BY DEF RefundInv
<1>5. pay[p].st = "refunded" => back[p] = {1} \/ cash[p]
  BY DEF RefundInv
<1> QED BY <1>2, <1>3, <1>4, <1>5, StatesApart DEF MoneyOf

Money  == [p \in Pays |-> MoneyOf(p)]
Deposited(p) == /\ pay[p].st = "succeeded"
                /\ ~pay[p].kept
                /\ Booked(pay[p].res)
Bookings == [p \in Pays |-> Deposited(p)]

\* A step that moves one deposit the way the promise allows, and no other.
Moves(d) ==
    /\ \A q \in Pays \ {d} : /\ MoneyOf(q)' = MoneyOf(q)
                             /\ Deposited(q)' <=> Deposited(q)
    /\ \/ /\ MoneyOf(d)' = MoneyOf(d) /\ (Deposited(d)' <=> Deposited(d))
       \/ /\ MoneyOf(d) = "guest" /\ MoneyOf(d)' = "bank"
          /\ Deposited(d)' <=> Deposited(d)
       \/ /\ MoneyOf(d) = "bank" /\ MoneyOf(d)' = "venue" /\ Deposited(d)'
       \/ /\ MoneyOf(d) = "venue" /\ MoneyOf(d)' = "venue"
          /\ Deposited(d) /\ ~Deposited(d)'
       \/ /\ MoneyOf(d) \in {"bank", "venue"} /\ MoneyOf(d)' = "owed"
          /\ ~Deposited(d)'
       \/ /\ MoneyOf(d) = "owed" /\ MoneyOf(d)' = "returned"
          /\ Deposited(d)' <=> Deposited(d)

\* Such a step is a step of the promise, or none of its business.
LEMMA MovesIsPromised ==
    ASSUME NEW d \in Pays, Moves(d)
    PROVE  Promise!PromiseNext \/ UNCHANGED Promise!promiseVars
<1>1. /\ Money \in [Pays -> {MoneyOf(p) : p \in Pays}]
      /\ Money = [p \in Pays |-> MoneyOf(p)]
      /\ Money' = [p \in Pays |-> MoneyOf(p)']
      /\ Bookings = [p \in Pays |-> Deposited(p)]
      /\ Bookings' = [p \in Pays |-> Deposited(p)']
  BY DEF Money, Bookings
<1>2. Money' = [Money EXCEPT ![d] = MoneyOf(d)']
  BY <1>1 DEF Moves
<1>3. ASSUME Deposited(d)' <=> Deposited(d) PROVE Bookings' = Bookings
  <2>1. \A p \in Pays : Deposited(p)' <=> Deposited(p)
    BY <1>3 DEF Moves
  <2>2. \A p \in Pays : Deposited(p)' = Deposited(p)
    BY <2>1 DEF Deposited
  <2> QED BY <1>1, <2>2, Zenon
<1>4. ASSUME NEW b \in BOOLEAN, Deposited(d)' <=> b
      PROVE  Bookings' = [Bookings EXCEPT ![d] = b]
  <2>1. \A p \in Pays \ {d} : Deposited(p)' <=> Deposited(p)
    BY DEF Moves
  <2>2. \A p \in Pays : Deposited(p)' = IF p = d THEN b ELSE Deposited(p)
    BY <1>4, <2>1 DEF Deposited
  <2>3. [Bookings EXCEPT ![d] = b]
          = [p \in Pays |-> IF p = d THEN b ELSE Bookings[p]]
    BY <1>1
  <2>4. \A p \in Pays : Bookings[p] = Deposited(p)
    BY <1>1, Zenon
  <2> QED BY <1>1, <2>2, <2>3, <2>4, Zenon
<1>5. /\ Promise!promiseVars = <<Money, Bookings>>
      /\ Promise!promiseVars' = <<Money', Bookings'>>
  BY DEF Promise!promiseVars, Money, Bookings, Deposited
<1>6. /\ Promise!Take(d) <=> /\ Money[d] = "guest"
                             /\ Money' = [Money EXCEPT ![d] = "bank"]
                             /\ Bookings' = Bookings
      /\ Promise!Book(d) <=> /\ Money[d] = "bank"
                             /\ Money' = [Money EXCEPT ![d] = "venue"]
                             /\ Bookings' = [Bookings EXCEPT ![d] = TRUE]
      /\ Promise!Forfeit(d) <=> /\ Money[d] = "venue" /\ Bookings[d]
                                /\ Bookings' = [Bookings EXCEPT ![d] = FALSE]
                                /\ Money' = Money
      /\ Promise!Owe(d) <=> /\ Money[d] \in {"bank", "venue"}
                            /\ Money' = [Money EXCEPT ![d] = "owed"]
                            /\ Bookings' = [Bookings EXCEPT ![d] = FALSE]
      /\ Promise!PayBack(d) <=> /\ Money[d] = "owed"
                                /\ Money' = [Money EXCEPT ![d] = "returned"]
                                /\ Bookings' = Bookings
  BY DEF Promise!Take, Promise!Book, Promise!Forfeit, Promise!Owe,
         Promise!PayBack, Money, Bookings, Deposited
<1>7. Money[d] = MoneyOf(d) /\ (Bookings[d] <=> Deposited(d))
  BY <1>1
<1>8. MoneyOf(d)' = MoneyOf(d) => Money' = Money
  BY <1>1, <1>2, <1>7
<1>9. \/ Promise!Take(d) \/ Promise!Book(d) \/ Promise!Forfeit(d)
      \/ Promise!Owe(d) \/ Promise!PayBack(d)
      \/ Money' = Money /\ Bookings' = Bookings
  BY <1>2, <1>3, <1>4, <1>6, <1>7, <1>8 DEF Moves
<1> QED BY <1>5, <1>9 DEF Promise!PromiseNext

\* Where a deposit's money is, from its payment alone.
Where(p) == IF pay[p].st \in Refunding
              THEN IF back[p] = {1} \/ cash[p] THEN "returned" ELSE "owed"
              ELSE IF pay[p].st = "succeeded" THEN "venue"
                   ELSE IF "paid" \in bank[p] THEN "bank" ELSE "guest"

Kept(p) == pay[p].st = "succeeded" /\ ~pay[p].kept

\* A payment's state tells where the money is.
LEMMA WhereIsMoney ==
    DepositInv /\ RefundInv => \A p \in Pays :
        MoneyOf(p) = Where(p) /\ (Deposited(p) <=> Kept(p))
BY MoneyState DEF Where, Kept, Deposited, DepositInv, Paid

\* Moves, read off the payment alone.
PayMoves(d) ==
    /\ \A q \in Pays \ {d} : Where(q)' = Where(q) /\ (Kept(q)' <=> Kept(q))
    /\ \/ Where(d)' = Where(d) /\ (Kept(d)' <=> Kept(d))
       \/ Where(d) = "guest" /\ Where(d)' = "bank" /\ (Kept(d)' <=> Kept(d))
       \/ Where(d) = "bank" /\ Where(d)' = "venue" /\ Kept(d)'
       \/ Where(d) = "venue" /\ Where(d)' = "venue" /\ Kept(d) /\ ~Kept(d)'
       \/ Where(d) \in {"bank", "venue"} /\ Where(d)' = "owed" /\ ~Kept(d)'
       \/ Where(d) = "owed" /\ Where(d)' = "returned" /\ (Kept(d)' <=> Kept(d))

\* Moves of the payments are moves of the money.
LEMMA PayMovesIsPromised ==
    ASSUME DepositInv, RefundInv, DepositInv', RefundInv',
           NEW d \in Pays, PayMoves(d)
    PROVE  Promise!PromiseNext \/ UNCHANGED Promise!promiseVars
<1>1. \A p \in Pays : MoneyOf(p) = Where(p) /\ (Deposited(p) <=> Kept(p))
  BY WhereIsMoney
<1>2. \A p \in Pays : MoneyOf(p)' = Where(p)' /\ (Deposited(p)' <=> Kept(p)')
  <2>1. (DepositInv /\ RefundInv => \A p \in Pays :
            MoneyOf(p) = Where(p) /\ (Deposited(p) <=> Kept(p)))'
    BY WhereIsMoney, PTL
  <2> QED BY <2>1
<1>3. Moves(d)
  BY <1>1, <1>2 DEF Moves, PayMoves
<1> QED BY <1>3, MovesIsPromised

\* Steps that are nobody's refund, settlement or payment.
LEMMA NothingMoves ==
    ASSUME NEW d \in Pays, UNCHANGED <<back, cash>>,
           \A q \in Pays : /\ "paid" \in bank'[q] <=> "paid" \in bank[q]
                           /\ \/ pay'[q] = pay[q]
                              \/ /\ pay'[q].st = pay[q].st
                                 /\ pay'[q].kept = pay[q].kept
                              \/ /\ pay[q].st \in Unsettled \cup {"none"}
                                 /\ pay'[q].st \in Unsettled
                              \/ /\ pay[q].st \in {"refund_pending", "refund_failed"}
                                 /\ pay'[q].st \in {"refund_pending", "refund_failed"}
    PROVE  PayMoves(d)
BY StatesApart DEF PayMoves, Where, Kept

\* Every step moves the guests' money as promised.
LEMMA PromiseStep ==
    ASSUME DepositsTypeOK, DepositInv, RefundInv, DepositInv', RefundInv',
           [BookingNext]_depositVars
    PROVE  Promise!PromiseNext \/ UNCHANGED Promise!promiseVars
<1> SUFFICES ASSUME Pays # {}
             PROVE  \E d \in Pays : PayMoves(d)
  <2>1. CASE Pays = {}
    <3>1. Promise!promiseVars' = Promise!promiseVars
      BY <2>1 DEF Promise!promiseVars
    <3> QED BY <3>1
  <2> QED BY <2>1, PayMovesIsPromised
<1>1. CASE QuietStep
  <2>1. ASSUME NEW p \in Pays, QiTakes(p) PROVE PayMoves(p)
    <3>1. /\ UNCHANGED <<pay, back, cash>>
          /\ "paid" \notin bank[p] /\ "paid" \in bank'[p]
          /\ \A q \in Pays \ {p} : bank'[q] = bank[q]
      BY <2>1, Shapes DEF QiTakes, refundVars
    <3>2. pay[p].st \notin {"succeeded"} \cup Refunding
      BY <3>1 DEF DepositInv, Paid
    <3> QED BY <3>1, <3>2 DEF PayMoves, Where, Kept
  <2>2. ASSUME NEW p \in Pays, QiPaysBack(p) PROVE PayMoves(p)
    <3>1. /\ UNCHANGED <<pay, bank, cash>>
          /\ wire[p] = 1 /\ back[p] = {} /\ back'[p] = {1}
          /\ \A q \in Pays \ {p} : back'[q] = back[q]
      BY <2>2 DEF QiPaysBack, payVars, RefundInv, DepositsTypeOK
    <3>2. pay[p].st \in Refunding /\ ~cash[p]
      BY <3>1 DEF RefundInv
    <3> QED BY <3>1, <3>2, StatesApart DEF PayMoves, Where, Kept
  <2>3. ASSUME NEW p \in Pays,
               \/ Clock \/ Manage \/ SendRefund(p) \/ QiDropsRefund(p)
               \/ QiCreates(p) \/ QiDeclines(p) \/ HearNotFound(p) \/ CancelAtQi(p)
        PROVE  PayMoves(p)
    <3>1. UNCHANGED <<pay, back, cash>>
      BY <2>3 DEF Clock, Manage, SendRefund, QiDropsRefund, QiCreates, QiDeclines,
                  HearNotFound, CancelAtQi, payVars, refundVars
    <3>2. \A q \in Pays : "paid" \in bank'[q] <=> "paid" \in bank[q]
      BY <2>3, Shapes DEF Clock, Manage, SendRefund, QiDropsRefund, QiCreates,
                  QiDeclines, HearNotFound, CancelAtQi, payVars
    <3> QED BY <3>1, <3>2, NothingMoves
  <2> QED BY <1>1, <2>1, <2>2, <2>3 DEF QuietStep
<1>2. CASE RowsStep \/ UNCHANGED depositVars
  <2>1. UNCHANGED <<pay, bank, back, cash>>
    BY <1>2, RowsStepKeeps DEF depositVars, payVars, refundVars
  <2> QED BY <2>1, NothingMoves
<1>3. ASSUME NEW p \in Pays, PayStep(p) PROVE PayMoves(p)
  <2>1. \A q \in Pays : "paid" \in bank'[q] <=> "paid" \in bank[q]
    BY <1>3, PayStepKeeps
  <2>2. \A q \in Pays \ {p} : pay'[q] = pay[q]
    BY <1>3, PayStepKeeps, Shapes DEF PayKeep
  <2>3. PICK v : PayKeep(p, v)
    BY <1>3, PayStepKeeps
  <2>4. pay'[p] = v /\ v.kept = pay[p].kept
    BY <2>3, Shapes DEF PayKeep
  <2>5. CASE RefundManual(p) \/ RefundSucceeded(p)
    <3>1. /\ pay[p].st \in {"refund_pending", "refund_failed"}
          /\ pay'[p].st = "refunded" /\ back' = back /\ wire' = wire
          /\ \A q \in Pays \ {p} : cash'[q] = cash[q]
      BY <2>5, Shapes DEF RefundManual, RefundSucceeded, refundVars,
                          DepositsTypeOK, Payments
    <3>2. Where(p)' = "returned"
      BY <3>1, StatesApart DEF RefundInv, Where
    <3>3. ~Kept(p) /\ ~Kept(p)' /\ Where(p) \in {"owed", "returned"}
      BY <3>1, StatesApart DEF Kept, Where
    <3> QED BY <2>1, <2>2, <3>1, <3>2, <3>3 DEF PayMoves, Where, Kept
  <2>6. CASE RefundRequest(p)
    <3>1. /\ pay[p].st = "succeeded" /\ pay'[p].st = "refund_pending"
          /\ UNCHANGED <<bank, back, cash>>
      BY <2>6, RefundRecords, Shapes DEF RefundRequest, refundVars
    <3>2. back[p] = {} /\ ~cash[p]
      BY <3>1, StatesApart DEF RefundInv
    <3> QED BY <2>2, <3>1, <3>2, StatesApart DEF PayMoves, Where, Kept
  <2>7. ASSUME \/ MarkCreated(p) \/ ApplyFailed(p) \/ CancelFails(p)
               \/ RefundFailed(p) \/ RefundRetry(p)
               \/ \E unknown \in BOOLEAN : RefundUnheard(p, unknown)
        PROVE  PayMoves(p)
    <3>1. UNCHANGED <<back, cash>>
      BY <2>7 DEF MarkCreated, ApplyFailed, CancelFails, RefundFailed,
                  RefundRetry, RefundUnheard, refundVars
    <3>2. CASE MarkCreated(p) \/ CancelFails(p) \/ ApplyFailed(p)
      <4>1. \/ pay'[p].st = pay[p].st
            \/ pay[p].st \in Unsettled /\ pay'[p].st \in Unsettled
        <5>1. "created" \in Unsettled /\ "pending" \in Unsettled
                /\ "failed" \in Unsettled
          BY DEF Unsettled, OpenStates, WrittenOff
        <5>2. CASE MarkCreated(p)
          BY <5>1, <5>2, Shapes DEF MarkCreated, Payments
        <5>3. CASE CancelFails(p)
          BY <5>3, Shapes DEF CancelFails, Payments
        <5>4. CASE ApplyFailed(p)
          <6>1. pay'[p].st = "failed" /\ pay[p].st \in Unsettled
            BY <5>4, Shapes DEF ApplyFailed, Ended, Payments, Open, Unsettled
          <6> QED BY <5>1, <6>1
        <5> QED BY <3>2, <5>2, <5>3, <5>4
      <4> QED BY <2>1, <2>2, <2>4, <3>1, <4>1, NothingMoves
    <3>3. CASE \/ RefundFailed(p) \/ RefundRetry(p)
               \/ \E unknown \in BOOLEAN : RefundUnheard(p, unknown)
      <4>1. /\ pay[p].st \in {"refund_pending", "refund_failed"}
            /\ pay'[p].st \in {"refund_pending", "refund_failed"}
        BY <3>3, Shapes DEF RefundFailed, RefundRetry, RefundUnheard, Payments
      <4> QED BY <2>1, <2>2, <3>1, <4>1, NothingMoves
    <3> QED BY <2>7, <3>2, <3>3
  <2> QED BY <1>3, <2>5, <2>6, <2>7 DEF PayStep
<1>4. CASE BothStep
  <2>0. UNCHANGED <<back, cash>>
    BY <1>4, BothTyped DEF refundVars
  <2>1. ASSUME NEW now, NEW r \in Rows, NEW p \in Pays, DepositPrepare(p, r, now)
        PROVE  PayMoves(p)
    <3>1. /\ pay[p].st = "none" /\ pay'[p].st = "created" /\ bank' = bank
          /\ \A q \in Pays \ {p} : pay'[q] = pay[q]
      BY <2>1, Shapes DEF DepositPrepare, NoPayment
    <3>2. "created" \in Unsettled
      BY DEF Unsettled, OpenStates
    <3> QED BY <2>0, <3>1, <3>2, NothingMoves
  <2>2. ASSUME NEW r \in Rows, pay' = RefundAll(r) \/ pay' = KeepAll(r),
               bank' = bank
        PROVE  \E d \in Pays : PayMoves(d)
    <3>1. \A q \in Succeeded(r) : /\ q \in Pays /\ pay[q].st = "succeeded"
                                  /\ ~pay[q].kept /\ pay[q].res = r
      BY DEF Succeeded
    <3>2. CASE Succeeded(r) = {}
      <4>1. \A q \in Pays : pay'[q] = pay[q]
        BY <2>2, <3>2 DEF RefundAll, KeepAll
      <4> QED BY <2>0, <2>2, <4>1, NothingMoves
    <3>3. ASSUME NEW d \in Succeeded(r) PROVE PayMoves(d)
      <4>1. Succeeded(r) = {d}
        BY <3>1, <3>3 DEF DepositInv, PaidOnce, PaidFor
      <4>2. \A q \in Pays \ {d} : pay'[q] = pay[q]
        BY <2>2, <4>1 DEF RefundAll, KeepAll
      <4>3. Where(d) = "venue" /\ Kept(d) /\ back[d] = {} /\ ~cash[d]
        BY <3>1, StatesApart DEF Where, Kept, RefundInv
      <4>4. CASE pay' = RefundAll(r)
        <5>1. pay'[d].st = "refund_pending"
          BY <3>1, <4>4, RefundRecords, Shapes DEF RefundAll
        <5> QED BY <2>0, <2>2, <3>1, <4>2, <4>3, <5>1, StatesApart
                DEF PayMoves, Where, Kept
      <4>5. CASE pay' = KeepAll(r)
        <5>1. pay'[d].st = "succeeded" /\ pay'[d].kept
          BY <3>1, <4>5, Shapes DEF KeepAll, Payments
        <5> QED BY <2>0, <2>2, <3>1, <4>2, <4>3, <5>1, StatesApart
                DEF PayMoves, Where, Kept
      <4> QED BY <2>2, <4>4, <4>5
    <3> QED BY <3>1, <3>2, <3>3
  <2>3. ASSUME NEW now, NEW r \in Rows,
               \/ \E desk \in BOOLEAN : CancelReservation(r, desk, now)
               \/ \E keep \in BOOLEAN : MarkNoShow(r, now, keep)
        PROVE  \E d \in Pays : PayMoves(d)
    BY <2>2, <2>3 DEF CancelReservation, MarkNoShow
  <2>4. ASSUME NEW now \in Began, NEW p \in Pays, NEW offline \in BOOLEAN,
               ApplySuccess(p, now, offline)
        PROVE  PayMoves(p)
    <3>1. /\ pay[p].st \in Unsettled /\ "paid" \in bank[p]
          /\ \A q \in Pays : "paid" \in bank'[q] <=> "paid" \in bank[q]
      BY <2>4, Shapes DEF ApplySuccess, Forget, Unsettled
    <3>2. Where(p) = "bank" /\ ~Kept(p) /\ ~pay[p].kept
      BY <3>1, StatesApart DEF Where, Kept, DepositInv, Links
    <3>3. PICK gone \in SUBSET Rows :
             KeepsIt(p) \/ ConfirmsIt(p) \/ RecreatesIt(p, gone) \/ RefundsIt(p, gone)
      BY <2>4, ApplySuccessCases
    <3>4. \A q \in Pays \ {p} : pay'[q] = pay[q]
      BY <3>3, Shapes DEF KeepsIt, ConfirmsIt, RecreatesIt, RefundsIt
    <3>5. CASE KeepsIt(p) \/ ConfirmsIt(p) \/ RecreatesIt(p, gone)
      <4>1. \E v : /\ pay' = [pay EXCEPT ![p] = v]
                   /\ v.st = "succeeded" /\ v.kept = pay[p].kept
        BY <3>5, SettledRecords DEF KeepsIt, ConfirmsIt, RecreatesIt
      <4>2. pay'[p].st = "succeeded" /\ pay'[p].kept = pay[p].kept
        BY <4>1, Shapes
      <4> QED BY <2>0, <3>1, <3>2, <3>4, <4>2, StatesApart
              DEF PayMoves, Where, Kept
    <3>6. CASE RefundsIt(p, gone)
      <4>1. Settled(p) \in Payments
        BY SettledRecords
      <4>2. BeginRefund(Settled(p), FALSE).st = "refund_pending"
        BY <4>1, RefundRecords
      <4>3. pay'[p].st = "refund_pending"
        BY <3>6, <4>2, Shapes DEF RefundsIt
      <4>4. back[p] = {} /\ ~cash[p]
        BY <3>1, StatesApart DEF RefundInv
      <4> QED BY <2>0, <3>1, <3>2, <3>4, <4>3, <4>4, StatesApart
              DEF PayMoves, Where, Kept
    <3> QED BY <3>3, <3>5, <3>6
  <2>5. ASSUME NEW p \in Pays, ApplyExpired(p) PROVE PayMoves(p)
    <3>1. /\ pay[p].st \in Unsettled /\ pay'[p].st = "expired"
          /\ \A q \in Pays \ {p} : pay'[q] = pay[q]
          /\ \A q \in Pays : "paid" \in bank'[q] <=> "paid" \in bank[q]
      BY <2>5, Shapes DEF ApplyExpired, Ended, Forget, Open, Unsettled, Payments
    <3>2. "expired" \in Unsettled
      BY DEF Unsettled, WrittenOff
    <3> QED BY <2>0, <3>1, <3>2, NothingMoves
  <2> QED BY <1>4, <2>1, <2>3, <2>4, <2>5 DEF BothStep
<1> QED BY <1>1, <1>2, <1>3, <1>4, StepKinds

\* Court booking with online deposits keeps DepositPromise, for any number of
\* rows and payments.
THEOREM BookingKeepsItsPromise == BookingSpec => KeepsItsPromise
<1>1. DepositsInit => Promise!PromiseInit
  <2> SUFFICES ASSUME DepositsInit
               PROVE  \A p \in Pays : MoneyOf(p) = "guest" /\ ~Deposited(p)
    BY DEF Promise!PromiseInit, Deposited
  <2>1. RefundInv
    BY StatesApart DEF DepositsInit, NoPayment, RefundInv
  <2>2. \A p \in Pays : pay[p].st = "none" /\ bank[p] = {}
    BY DEF DepositsInit, NoPayment
  <2> QED BY <2>1, <2>2, MoneyState, StatesApart DEF Deposited
<1>2. DepositsTypeOK /\ DepositInv /\ RefundInv
        /\ DepositInv' /\ RefundInv' /\ [BookingNext]_depositVars
          => [Promise!PromiseNext]_(Promise!promiseVars)
  BY PromiseStep
<1> QED BY <1>1, <1>2, BookingTyped, DepositsLinked, RefundsStaySingle, PTL
        DEF BookingSpec, BookingTypeOK, KeepsItsPromise, Promise!PromiseSpec
=============================================================================
