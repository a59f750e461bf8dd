------------------------------ MODULE TabMoney ------------------------------
(***************************************************************************)
(* Tabs, settlement, refunds, till shifts and the close of the day, as the *)
(* transactions that write them.  An RPC that waits for a lock while it    *)
(* holds another, or reads what it has not locked, is a call of a clerk's  *)
(* session: it asks for its locks one at a time, keeps them to its end,    *)
(* reads the rest unlocked (READ COMMITTED, one snapshot a statement), and *)
(* writes at its commit or, refused, rolls back.  The others are one step, *)
(* taken when their rows are free.                                         *)
(***************************************************************************)
EXTENDS TillRows, Sequences

CONSTANT Clerks \* sessions of one manager: the till, its replay, the office

VARIABLES tx,   \* each clerk's open transaction
          locks \* and the rows it has locked

vars == <<rows, tx, locks>>

Ops == {"settle", "refund", "void", "merge", "closeDay"}

\* Mutant: close_day looks for open tabs before it locks the day.
ClosePlan_lookFirst == <<"look", "day", "shift", "sum">>

\* Mutant: close_day locks the shifts before it looks for open tabs.
ClosePlan_lookLast == <<"day", "shift", "look", "sum">>

ClosePlan == <<"day", "look", "shift", "sum">>

\* What a call reads and locks, in order.  `key` is the lock the foreign key
\* of a payment takes on its day.
Plan(op) ==
    CASE op = "settle"   -> <<"tab", "seek", "shift", "key">>
      [] op = "refund"   -> <<"day", "grant", "tab", "seek", "shift">>
      [] op = "void"     -> <<"grant", "find", "tab">>
      [] op = "merge"    -> <<"first", "second">>
      [] op = "closeDay" -> ClosePlan

\* A call with its arguments and the day it is about; it has not found a
\* shift, grant or line's tab yet, nor added up anything.
NewTx(op, x, y, d) ==
    [op |-> op, pc |-> 1, x |-> x, y |-> y, day |-> d, shift |-> 0,
     grant |-> 0, at |-> 0, took |-> {}, gave |-> {}]

NoTx == NewTx("idle", 0, 0, 0)

Step(c) == IF tx[c].op = "idle" \/ tx[c].pc > Len(Plan(tx[c].op)) THEN "commit"
           ELSE Plan(tx[c].op)[tx[c].pc]

\* The clerk's call is past step k of its plan.
Past(c, k) == \E i \in 1..(tx[c].pc - 1) : Plan(tx[c].op)[i] = k

-----------------------------------------------------------------------------
(* Row locks: <<table, id, exclusive>> *)

Locks == {"day", "shift", "tab"} \X Nat \X BOOLEAN

Clash(l, m) == l[1] = m[1] /\ l[2] = m[2] /\ (l[3] \/ m[3])

\* Some session of `who` holds a lock that clashes with one of `asked`.
Taken(who, asked) == \E c \in who : \E l \in locks[c], m \in asked : Clash(l, m)

\* The tab a call locks, and the merged pair in the order of their ids.
TabOf(c) == CASE tx[c].op = "refund" -> pay[tx[c].x].tab
              [] tx[c].op = "void"   -> tx[c].at
              [] OTHER               -> tx[c].x

Pair(c) == IF tx[c].x < tx[c].y THEN <<tx[c].x, tx[c].y>>
                                ELSE <<tx[c].y, tx[c].x>>

\* Mutant: the stamp reads the open shift without FOR SHARE.
ShiftLock_none(c) == {}

\* close_day takes every open shift of its day FOR UPDATE (the station has at
\* most one); the stamp takes the shift it found FOR SHARE.
ShiftLock(c) == IF tx[c].op = "closeDay"
                THEN {<<"shift", s, TRUE>> : s \in OpenShifts(tx[c].day)}
                ELSE {<<"shift", s, FALSE>> : s \in {tx[c].shift} \ {0}}

Asks(c) ==
    LET k == Step(c) IN
    CASE k = "day"    -> {<<"day", tx[c].day, tx[c].op = "closeDay">>}
      [] k = "key"    -> {<<"day", tab[tx[c].x].day, FALSE>>}
      [] k = "tab"    -> {<<"tab", TabOf(c), TRUE>>}
      [] k = "first"  -> {<<"tab", Pair(c)[1], TRUE>>}
      [] k = "second" -> {<<"tab", Pair(c)[2], TRUE>>}
      [] k = "shift"  -> ShiftLock(c)
      [] OTHER        -> {}

-----------------------------------------------------------------------------
(* The guards an RPC raises on, once the rows they read are locked *)

Due(t) == Total(t) - NetPaid(t)

CanSettle(t, amt) == tab[t].st \in Unpaid /\ Due(t) >= 1 /\ amt <= Due(t)

CanRefund(p, amt) == Refunded(p) + amt <= pay[p].amt

Empty(t) == LinesOf(t) \cup PaysOf(t) \cup DiscsOf(t) = {}

\* Mutant: it is the bill before the change that must cover what was paid.
Covers_before(t, goods, off) == NetPaid(t) > 0 => Total(t) >= NetPaid(t)

\* A smaller bill must still cover what was paid.
Covers(t, goods, off) == NetPaid(t) > 0 => TotalOf(goods, off) >= NetPaid(t)

\* A discount is held to the goods it is taken from.
DiscountAmount(t) == IF Subtotal(t) = 0 THEN 0 ELSE 1

CanDiscount(t) ==
    /\ tab[t].st \in Unpaid
    /\ Covers(t, Subtotal(t), Discount(t) + DiscountAmount(t))

\* A line already void answers as a duplicate.
CanVoid(l, t) ==
    /\ line[l].tab = t
    /\ line[l].st = "live" => /\ tab[t].st \in Unpaid
                              /\ Covers(t, Subtotal(t) - Price, Discount(t))

CanMerge(donor, survivor) ==
    /\ tab[donor].st = "open" /\ tab[survivor].st = "open"
    /\ tab[donor].day = tab[survivor].day
    /\ PaysOf(donor) = {}

\* Mutant: the day is not read again once its lock is granted.
DayGone_stale(c) == FALSE

\* A day that closed while the call waited for its lock is no open day.
DayGone(c) == Past(c, "day") /\ day[tx[c].day].st # "open"

NoOpenTab(d) == ~\E t \in Tabs : tab[t].day = d /\ tab[t].st \in Unpaid

\* FOR UPDATE SKIP LOCKED: the grants no other call is spending.
FreeGrants == {g \in Grants : /\ grant[g] = "live"
                              /\ \A c \in Clerks : tx[c].grant # g}

\* The call of c raises an error at its present step.
Refused(c) ==
    LET op == tx[c].op  x == tx[c].x  y == tx[c].y IN
      \/ DayGone(c)
      \/ Step(c) = "grant" /\ FreeGrants = {}
      \/ Step(c) = "look" /\ ~NoOpenTab(tx[c].day)
      \/ op = "settle" /\ Past(c, "tab") /\ ~CanSettle(x, y)
      \/ op = "refund" /\ Past(c, "tab") /\ ~CanRefund(x, y)
      \/ op = "void" /\ Past(c, "tab") /\ ~CanVoid(x, tx[c].at)
      \/ op = "merge" /\ Past(c, "second") /\ ~CanMerge(x, y)

-----------------------------------------------------------------------------
(* A call begins, takes its steps, or rolls back *)

\* Bound: a call that adds a row finds room for it.
Room(op) ==
    LET busy(k) == Cardinality({c \in Clerks : tx[c].op = k}) IN
      /\ op = "settle"   => Cardinality(AllPays) + busy(op) < MaxPays
      /\ op = "refund"   => Cardinality(AllRefs) + busy(op) < MaxRefs

\* What the screens offer, the PIN entered where one is asked; rows and grant
\* may have changed by the time it is carried out.
Offered(op, x, y) ==
    LET unpaid == {t \in Tabs : tab[t].st \in Unpaid}
        open   == {t \in Tabs : tab[t].st = "open"}
    IN CASE op = "settle"     -> x \in unpaid /\ y \in 0..1
         [] op = "refund"     -> x \in AllPays /\ y \in 1..2
         [] op = "void"       -> /\ x \in AllLines /\ line[x].st = "live"
                                 /\ line[x].tab \in unpaid /\ y = 0
         [] op = "merge"      -> x \in open /\ y \in open \ {x}
         [] op = "closeDay"   -> x = 0 /\ y = 0

NeedsDay == {"refund", "closeDay"}
NeedsPin == {"refund", "void"}

Begin(c, op, x, y) ==
    /\ tx[c] = NoTx
    /\ Offered(op, x, y) /\ Room(op)
    /\ op \in NeedsDay => CurrentOpenDay # 0
    /\ op \in NeedsPin => FreeGrants # {}
    /\ tx' = [tx EXCEPT ![c] = NewTx(op, x, y, IF op \in NeedsDay
                                              THEN CurrentOpenDay ELSE 0)]
    /\ UNCHANGED <<rows, locks>>

\* The call of c, one step on.
Reads(c) == [tx[c] EXCEPT !.pc = @ + 1]

Proceeds(c, k) == tx[c].op # "idle" /\ Step(c) = k /\ ~Refused(c)

\* The stamp's shift closed while it waited: there is none.
StillOpen(s) == IF s # 0 /\ shift[s].st = "open" THEN s ELSE 0

Lock(c) ==
    /\ \E k \in {"day", "key", "tab", "first", "second", "shift"} : Proceeds(c, k)
    /\ ~Taken(Clerks \ {c}, Asks(c))
    /\ locks' = [locks EXCEPT ![c] = @ \cup Asks(c)]
    /\ tx' = [tx EXCEPT ![c] = [Reads(c) EXCEPT !.shift =
                IF Step(c) = "shift" THEN StillOpen(tx[c].shift) ELSE tx[c].shift]]
    /\ UNCHANGED rows

\* stamp_till_shift: the station's open shift, of the payment's day; for a
\* refund, of an open day.
Seek(c) ==
    LET d == IF tx[c].op = "settle" THEN tab[tx[c].x].day ELSE CurrentOpenDay
    IN /\ Proceeds(c, "seek")
       /\ tx' = [tx EXCEPT ![c] = [Reads(c) EXCEPT !.shift =
                   IF OpenShifts(d) = {} THEN 0
                   ELSE CHOOSE s \in OpenShifts(d) : TRUE]]
       /\ UNCHANGED <<rows, locks>>

\* void_order_item_internal: the line's tab, unlocked.
Find(c) == /\ Proceeds(c, "find")
           /\ tx' = [tx EXCEPT ![c] = [Reads(c) EXCEPT !.at = line[tx[c].x].tab]]
           /\ UNCHANGED <<rows, locks>>

\* Mutant: the grants another call is spending are not skipped.
Newest_locked == {g \in Grants : /\ grant[g] = "live"
                                 /\ \A f \in Grants : grant[f] = "live" => f <= g}

Newest == {g \in FreeGrants : \A f \in FreeGrants : f <= g}

\* app.consume_pin_grant.
Spend(c) == /\ Proceeds(c, "grant")
            /\ \E g \in Newest :
                 tx' = [tx EXCEPT ![c] = [Reads(c) EXCEPT !.grant = g]]
            /\ UNCHANGED <<rows, locks>>

\* close_day's guard 1.
Look(c) == /\ Proceeds(c, "look")
           /\ tx' = [tx EXCEPT ![c] = Reads(c)]
           /\ UNCHANGED <<rows, locks>>

\* close_day adds up the day, locking none of what it reads.
Sum(c) ==
    LET d == tx[c].day IN
      /\ Proceeds(c, "sum")
      /\ tx' = [tx EXCEPT ![c] =
                  [Reads(c) EXCEPT !.took = {p \in AllPays : pay[p].day = d},
                                   !.gave = {r \in AllRefs : CountedOn(r) = d}]]
      /\ UNCHANGED <<rows, locks>>

Rollback(c) == /\ tx[c].op # "idle" /\ Refused(c)
               /\ tx' = [tx EXCEPT ![c] = NoTx]
               /\ locks' = [locks EXCEPT ![c] = {}]
               /\ UNCHANGED rows

-----------------------------------------------------------------------------
(* What a call writes *)

Commits(c, op) == tx[c].op = op /\ Step(c) = "commit" /\ ~Refused(c)

Ends(c) == /\ tx' = [tx EXCEPT ![c] = NoTx]
           /\ locks' = [locks EXCEPT ![c] = {}]

Spent(c) == grant' = [grant EXCEPT ![tx[c].grant] = "used"]

\* Mutant: the total stamped is what was still owed.
Stamp_due(t) == Due(t)

Stamp(t) == Total(t)

\* All that is due unless the clerk asked for less.
SettleTab(c) ==
    LET t == tx[c].x IN
      /\ Commits(c, "settle")
      /\ \E p \in Pays, amt \in 1..Due(t) :
           /\ NextId(p, MaxPays, AllPays)
           /\ tx[c].y \in {0, amt} /\ (tx[c].y = 0 => amt = Due(t))
           /\ pay' = [pay EXCEPT ![p] = [tab |-> t, day |-> tab[t].day,
                                         amt |-> amt, shift |-> tx[c].shift]]
           /\ tab' = [tab EXCEPT ![t] =
                        [@ EXCEPT !.total = Stamp(t),
                                  !.st = IF amt = Due(t) THEN "settled"
                                                         ELSE "awaiting"]]
      /\ Ends(c)
      /\ UNCHANGED <<day, shift, line, disc, ref, grant>>

\* Mutant: a refund is written as money that came in negative.
Given_negative(amt) == -amt

Given(amt) == amt

Refund(c) ==
    /\ Commits(c, "refund")
    /\ \E r \in Refs :
         /\ NextId(r, MaxRefs, AllRefs)
         /\ ref' = [ref EXCEPT ![r] = [pay |-> tx[c].x, amt |-> Given(tx[c].y),
                                       shift |-> tx[c].shift,
                                       made |-> tx[c].day,
                                       auth |-> tx[c].grant]]
    /\ Spent(c) /\ Ends(c)
    /\ UNCHANGED <<day, shift, tab, line, disc, pay>>

\* A line that is void already is left as it is; the grant is spent.
VoidAfterSend(c) ==
    LET l == tx[c].x IN
      /\ Commits(c, "void")
      /\ line' = IF line[l].st = "void" THEN line
                 ELSE [line EXCEPT ![l] = [@ EXCEPT !.st = "void",
                                                    !.auth = tx[c].grant]]
      /\ Spent(c) /\ Ends(c)
      /\ UNCHANGED <<day, shift, tab, disc, pay, ref>>

MergeTabs(c) ==
    LET donor == tx[c].x  survivor == tx[c].y IN
      /\ Commits(c, "merge")
      /\ line' = [l \in Lines |-> IF line[l].tab = donor
                                  THEN [line[l] EXCEPT !.tab = survivor]
                                  ELSE line[l]]
      /\ disc' = [a \in Discs |-> IF disc[a].tab = donor
                                  THEN [disc[a] EXCEPT !.tab = survivor]
                                  ELSE disc[a]]
      /\ tab' = [tab EXCEPT ![donor] = [@ EXCEPT !.st = "void", !.total = 0]]
      /\ Ends(c)
      /\ UNCHANGED <<day, shift, pay, ref, grant>>

\* app.close_till_shift_internal: the figures stamped on a shift.
Closed(s, g) == [shift[s] EXCEPT
                   !.st = "closed", !.auth = g,
                   !.took = {p \in AllPays : pay[p].shift = s},
                   !.gave = {r \in AllRefs : ref[r].shift = s}]

CloseDay(c) ==
    LET d == tx[c].day IN
      /\ Commits(c, "closeDay")
      /\ day' = [day EXCEPT ![d] = [st |-> "closed", took |-> tx[c].took,
                                    gave |-> tx[c].gave]]
      /\ shift' = [s \in Shifts |-> IF s \in OpenShifts(d) THEN Closed(s, 0)
                                                           ELSE shift[s]]
      /\ Ends(c)
      /\ UNCHANGED <<tab, line, disc, pay, ref, grant>>

-----------------------------------------------------------------------------
(* RPCs of one step *)

OpenDay(d) ==
    /\ OpenDays = {}
    /\ NextId(d, MaxDays, {e \in Days : day[e].st # "none"})
    /\ day' = [day EXCEPT ![d].st = "open"]
    /\ UNCHANGED <<shift, tab, line, disc, pay, ref, grant, tx, locks>>

\* A call that would take the day FOR SHARE waits.
DayHeld(d) == Taken(Clerks, {<<"day", d, FALSE>>})

TabHeld(t) == Taken(Clerks, {<<"tab", t, TRUE>>})

OpenTab(t, d) ==
    /\ day[d].st = "open" /\ ~DayHeld(d)
    /\ NextId(t, MaxTabs, AllTabs)
    /\ tab' = [tab EXCEPT ![t] = [st |-> "open", day |-> d, total |-> 0]]
    /\ UNCHANGED <<day, shift, line, disc, pay, ref, grant, tx, locks>>

\* A tab of the open day, and both are free.
TabOfToday(t) == /\ tab[t].st # "none" /\ tab[t].day = CurrentOpenDay
                 /\ ~DayHeld(tab[t].day) /\ ~TabHeld(t)

TillAddItems(t) ==
    /\ TabOfToday(t) /\ tab[t].st = "open"
    /\ \E l \in Lines :
         /\ NextId(l, MaxLines, AllLines)
         /\ line' = [line EXCEPT ![l] = [st |-> "live", tab |-> t, auth |-> 0]]
    /\ UNCHANGED <<day, shift, tab, disc, pay, ref, grant, tx, locks>>

SettleZeroTab(t) ==
    /\ TabOfToday(t) /\ tab[t].st \in Unpaid
    /\ Total(t) = NetPaid(t) /\ ~Empty(t)
    /\ tab' = [tab EXCEPT ![t] = [@ EXCEPT !.total = Stamp(t), !.st = "settled"]]
    /\ UNCHANGED <<day, shift, line, disc, pay, ref, grant, tx, locks>>

CancelTab(t) ==
    /\ TabOfToday(t) /\ tab[t].st = "open" /\ Empty(t)
    /\ tab' = [tab EXCEPT ![t] = [@ EXCEPT !.total = 0, !.st = "void"]]
    /\ UNCHANGED <<day, shift, line, disc, pay, ref, grant, tx, locks>>

ApplyDiscount(t, g) ==
    /\ ~TabHeld(t) /\ CanDiscount(t) /\ g \in Newest
    /\ \E a \in Discs :
         /\ NextId(a, MaxDiscs, AllDiscs)
         /\ disc' = [disc EXCEPT ![a] = [tab |-> t, amt |-> DiscountAmount(t),
                                         auth |-> g]]
    /\ grant' = [grant EXCEPT ![g] = "used"]
    /\ UNCHANGED <<day, shift, tab, line, pay, ref, tx, locks>>

OpenTillShift(s, d) ==
    /\ day[d].st = "open" /\ ~DayHeld(d)
    /\ \A r \in Shifts : shift[r].st # "open"
    /\ NextId(s, MaxShifts, {r \in Shifts : shift[r].st # "none"})
    /\ shift' = [shift EXCEPT ![s] = [@ EXCEPT !.st = "open", !.day = d]]
    /\ UNCHANGED <<day, tab, line, disc, pay, ref, grant, tx, locks>>

ShiftFree(s) == /\ shift[s].st = "open"
                /\ ~Taken(Clerks, {<<"shift", s, TRUE>>})

\* The shift's holder closes it with their own PIN.
CloseTillShift(s) ==
    /\ ShiftFree(s)
    /\ shift' = [shift EXCEPT ![s] = Closed(s, 0)]
    /\ UNCHANGED <<day, tab, line, disc, pay, ref, grant, tx, locks>>

\* A manager closes it for them.
CloseTillShiftFor(s, g) ==
    /\ ShiftFree(s) /\ g \in Newest
    /\ shift' = [shift EXCEPT ![s] = Closed(s, g)]
    /\ grant' = [grant EXCEPT ![g] = "used"]
    /\ UNCHANGED <<day, tab, line, disc, pay, ref, tx, locks>>

\* app.verify_manager_pin mints a grant.  It may go unspent, as it does when it
\* lapses after two minutes.
VerifyManagerPin(g) ==
    /\ NextId(g, MaxGrants, {f \in Grants : grant[f] # "none"})
    /\ grant' = [grant EXCEPT ![g] = "live"]
    /\ UNCHANGED <<day, shift, tab, line, disc, pay, ref, tx, locks>>

-----------------------------------------------------------------------------

Init == RowsInit /\ tx = [c \in Clerks |-> NoTx] /\ locks = [c \in Clerks |-> {}]

Args == {0} \cup 1..2 \cup Tabs \cup Pays \cup Lines

Desk ==
    \/ \E d \in Days : OpenDay(d)
    \/ \E t \in Tabs, d \in Days : OpenTab(t, d)
    \/ \E t \in Tabs : TillAddItems(t) \/ SettleZeroTab(t) \/ CancelTab(t)
    \/ \E t \in Tabs, g \in Grants : ApplyDiscount(t, g)
    \/ \E s \in Shifts, d \in Days : OpenTillShift(s, d)
    \/ \E s \in Shifts : CloseTillShift(s)
    \/ \E s \in Shifts, g \in Grants : CloseTillShiftFor(s, g)
    \/ \E g \in Grants : VerifyManagerPin(g)

Call(c) ==
    \/ \E op \in Ops, x, y \in Args : Begin(c, op, x, y)
    \/ Lock(c) \/ Seek(c) \/ Find(c) \/ Spend(c) \/ Look(c) \/ Sum(c)
    \/ Rollback(c)
    \/ SettleTab(c) \/ Refund(c) \/ VoidAfterSend(c) \/ MergeTabs(c)
    \/ CloseDay(c)

Next == Desk \/ \E c \in Clerks : Call(c)

Spec == Init /\ [][Next]_vars

-----------------------------------------------------------------------------
(* Properties *)

\* Every row, call and lock is of its type; in particular every stamped
\* total and every refund is an amount.
MoneyTypeOK ==
    /\ RowsTypeOK
    /\ tx \in [Clerks -> [op : Ops \cup {"idle"}, pc : 1..7, x : Nat, y : Nat,
                          day : Days \cup {0}, shift : Shifts \cup {0},
                          grant : Grants \cup {0}, at : Tabs \cup {0},
                          took : SUBSET Pays, gave : SUBSET Refs]]
    /\ locks \in [Clerks -> SUBSET Locks]

\* close_day looks for open tabs without locking them: still, a closed day
\* never has an unpaid tab or an open till shift, whichever calls were under
\* way when it closed.
NothingOpenOnClosedDay ==
    \A d \in Days : day[d].st = "closed" =>
        NoOpenTab(d) /\ OpenShifts(d) = {}

\* The figures a closed day keeps are all the payments taken under it, and
\* all the refunds made on it that it counts, though close_day adds them up
\* unlocked and settle_tab never locks the day.
ClosedDayBalances ==
    \A d \in Days : day[d].st = "closed" =>
        /\ day[d].took = {p \in AllPays : pay[p].day = d}
        /\ day[d].gave = {r \in AllRefs : ref[r].made = d /\ CountedOn(r) = d}

\* The figures a closed till shift keeps are all the payments and refunds
\* that carry its stamp: none is stamped with a shift that has closed.
ClosedShiftBalances ==
    \A s \in Shifts : shift[s].st = "closed" =>
        /\ shift[s].took = {p \in AllPays : pay[p].shift = s}
        /\ shift[s].gave = {r \in AllRefs : ref[r].shift = s}

\* Voids, discounts, merges, part payments and refunds of several sessions
\* never leave a tab with more money on it than its bill, nor a payment with
\* more refunded than it took.
NeverOverpaid ==
    /\ \A t \in Tabs : tab[t].st \in Unpaid \cup {"settled"} => NetPaid(t) <= Total(t)
    /\ \A p \in Pays : Refunded(p) <= pay[p].amt

\* The total stamped on a settled tab is its bill for good, and was paid.
SettledIsPaid ==
    \A t \in Tabs : tab[t].st = "settled" =>
        tab[t].total = Total(t) /\ Gross(t) >= tab[t].total

\* One manager PIN pays for one act: a void, a discount, a refund or a shift
\* closed for someone.
Acts == ({"void"} \X Lines) \cup ({"discount"} \X Discs)
        \cup ({"refund"} \X Refs) \cup ({"shift"} \X Shifts)

AuthOf(a) == CASE a[1] = "void"     -> line[a[2]].auth
               [] a[1] = "discount" -> disc[a[2]].auth
               [] a[1] = "refund"   -> ref[a[2]].auth
               [] a[1] = "shift"    -> shift[a[2]].auth

OneGrantOneAct ==
    \A a, b \in Acts : AuthOf(a) = AuthOf(b) /\ AuthOf(a) # 0 => a = b

\* The lock order of the RPCs: no set of calls ever waits for each other.
Waits(c, d) == /\ tx[c].op # "idle" /\ ~Refused(c) /\ c # d
               /\ Taken({d}, Asks(c))

NoWaitCycle ==
    \A ring \in (SUBSET Clerks) \ {{}} :
        \E c \in ring : \A d \in ring : ~Waits(c, d)

=============================================================================
