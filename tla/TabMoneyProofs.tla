--------------------------- MODULE TabMoneyProofs ---------------------------
(***************************************************************************)
(* Proofs about tabs, till shifts and days, for any number of rows and any *)
(* number of sessions.                                                     *)
(***************************************************************************)
EXTENDS TabMoney, FiniteSetTheorems, TLAPS

-----------------------------------------------------------------------------
(* Where a call stands in its plan *)

\* A call is at a step of its plan, or done with all of them.
InPlan(c) == \/ tx[c].op = "settle" /\ tx[c].pc \in 1..5
             \/ tx[c].op = "refund" /\ tx[c].pc \in 1..6
             \/ tx[c].op = "void" /\ tx[c].pc \in 1..4
             \/ tx[c].op = "merge" /\ tx[c].pc \in 1..3
             \/ tx[c].op = "closeDay" /\ tx[c].pc \in 1..5

\* The next step of a call, and those it is past, by its program counter.
LEMMA SettlePlan ==
    ASSUME NEW c \in Clerks, InPlan(c), tx[c].op = "settle"
    PROVE  LET pc == tx[c].pc IN
           /\ pc \in 1..5
           /\ Step(c) = IF pc = 1 THEN "tab" ELSE IF pc = 2 THEN "seek"
                        ELSE IF pc = 3 THEN "shift"
                        ELSE IF pc = 4 THEN "key" ELSE "commit"
           /\ \A k : Past(c, k) <=> \/ k = "tab" /\ pc > 1
                                    \/ k = "seek" /\ pc > 2
                                    \/ k = "shift" /\ pc > 3
                                    \/ k = "key" /\ pc > 4
  BY DEF InPlan, Step, Past, Plan

\* The steps of a refund, by number.
LEMMA RefundPlan ==
    ASSUME NEW c \in Clerks, InPlan(c), tx[c].op = "refund"
    PROVE  LET pc == tx[c].pc IN
           /\ pc \in 1..6
           /\ Step(c) = IF pc = 1 THEN "day" ELSE IF pc = 2 THEN "grant"
                        ELSE IF pc = 3 THEN "tab" ELSE IF pc = 4 THEN "seek"
                        ELSE IF pc = 5 THEN "shift" ELSE "commit"
           /\ \A k : Past(c, k) <=> \/ k = "day" /\ pc > 1
                                    \/ k = "grant" /\ pc > 2
                                    \/ k = "tab" /\ pc > 3
                                    \/ k = "seek" /\ pc > 4
                                    \/ k = "shift" /\ pc > 5
  BY DEF InPlan, Step, Past, Plan

\* The steps of a void, by number.
LEMMA VoidPlan ==
    ASSUME NEW c \in Clerks, InPlan(c), tx[c].op = "void"
    PROVE  LET pc == tx[c].pc IN
           /\ pc \in 1..4
           /\ Step(c) = IF pc = 1 THEN "grant" ELSE IF pc = 2 THEN "find"
                        ELSE IF pc = 3 THEN "tab" ELSE "commit"
           /\ \A k : Past(c, k) <=> \/ k = "grant" /\ pc > 1
                                    \/ k = "find" /\ pc > 2
                                    \/ k = "tab" /\ pc > 3
  BY DEF InPlan, Step, Past, Plan

\* The steps of a merge, by number.
LEMMA MergePlan ==
    ASSUME NEW c \in Clerks, InPlan(c), tx[c].op = "merge"
    PROVE  LET pc == tx[c].pc IN
           /\ pc \in 1..3
           /\ Step(c) = IF pc = 1 THEN "first" ELSE IF pc = 2 THEN "second"
                        ELSE "commit"
           /\ \A k : Past(c, k) <=> \/ k = "first" /\ pc > 1
                                    \/ k = "second" /\ pc > 2
  BY DEF InPlan, Step, Past, Plan

\* The steps of a close of the day, by number.
LEMMA CloseDayPlan ==
    ASSUME NEW c \in Clerks, InPlan(c), tx[c].op = "closeDay"
    PROVE  LET pc == tx[c].pc IN
           /\ pc \in 1..5
           /\ Step(c) = IF pc = 1 THEN "day" ELSE IF pc = 2 THEN "look"
                        ELSE IF pc = 3 THEN "shift"
                        ELSE IF pc = 4 THEN "sum" ELSE "commit"
           /\ \A k : Past(c, k) <=> \/ k = "day" /\ pc > 1
                                    \/ k = "look" /\ pc > 2
                                    \/ k = "shift" /\ pc > 3
                                    \/ k = "sum" /\ pc > 4
  BY DEF InPlan, Step, Past, Plan, ClosePlan


-----------------------------------------------------------------------------
(* Types *)

Calls == [op : Ops \cup {"idle"}, pc : 1..7, x : Nat, y : Nat,
          day : Days \cup {0}, shift : Shifts \cup {0},
          grant : Grants \cup {0}, at : Tabs \cup {0},
          took : SUBSET Pays, gave : SUBSET Refs]

\* A call is at a step of its plan and names rows of the right table.
Fits(c) ==
    \/ tx[c] = NoTx
    \/ /\ InPlan(c)
       /\ tx[c].op = "settle" => tx[c].x \in Tabs
       /\ tx[c].op = "refund" => tx[c].x \in Pays
       /\ tx[c].op = "void"   => tx[c].x \in Lines
       /\ tx[c].op = "merge"  => tx[c].x \in Tabs /\ tx[c].y \in Tabs
       /\ tx[c].op \in NeedsDay => tx[c].day \in Days

Typed == MoneyTypeOK /\ \A c \in Clerks : Fits(c)

\* Ids are numbers from 1.
LEMMA Ids ==
    /\ MaxDays \in Nat /\ MaxShifts \in Nat /\ MaxTabs \in Nat
    /\ MaxLines \in Nat /\ MaxDiscs \in Nat /\ MaxPays \in Nat
    /\ MaxRefs \in Nat /\ MaxGrants \in Nat /\ Price \in Nat
    /\ \A i : \/ i \in Days \cup Shifts \cup Tabs \cup Lines
              \/ i \in Discs \cup Pays \cup Refs \cup Grants
              => i \in Nat /\ i # 0
  BY RowBounds DEF Days, Shifts, Tabs, Lines, Discs, Pays, Refs, Grants

\* The set a NextId picks from.
LEMMA NextIdIsNew ==
    ASSUME NEW n \in Nat, NEW used, NEW i, NextId(i, n, used)
    PROVE  i \in 1..n /\ i \notin used /\ \A j \in 1..n : j < i => j \in used
  BY DEF NextId

\* A bill is an amount.
LEMMA BillIsAmount ==
    ASSUME NEW t
    PROVE  Total(t) \in Nat
<1>1. /\ IsFiniteSet(Lines) /\ IsFiniteSet(Discs)
  BY Ids, FS_Interval DEF Lines, Discs
<1>2. /\ IsFiniteSet({l \in LinesOf(t) : line[l].st = "live"})
      /\ IsFiniteSet({a \in DiscsOf(t) : disc[a].amt = 1})
  BY <1>1, FS_Subset DEF LinesOf, DiscsOf
<1>3. /\ Cardinality({l \in LinesOf(t) : line[l].st = "live"}) \in Nat
      /\ Cardinality({a \in DiscsOf(t) : disc[a].amt = 1}) \in Nat
  BY <1>2, FS_CardinalityType
<1>4. /\ Subtotal(t) \in Nat /\ Discount(t) \in Nat
  BY <1>3, Ids DEF Subtotal, Discount
<1> QED
  BY <1>4 DEF Total, TotalOf

\* A call that goes on to its next step keeps its shape.
LEMMA StepsOn ==
    ASSUME Typed, NEW c \in Clerks, tx[c].op # "idle", Step(c) # "commit",
           NEW r \in Calls, tx' = [tx EXCEPT ![c] = r],
           r.op = tx[c].op, r.pc = tx[c].pc + 1,
           r.x = tx[c].x, r.y = tx[c].y, r.day = tx[c].day
    PROVE  tx' \in [Clerks -> Calls] /\ \A e \in Clerks : Fits(e)'
<1>1. tx \in [Clerks -> Calls] /\ Fits(c) /\ tx[c] # NoTx
  BY DEF Typed, MoneyTypeOK, Calls, NoTx, NewTx
<1>2. tx' \in [Clerks -> Calls] /\ tx'[c] = r
  BY <1>1
<1>3. InPlan(c)
  BY <1>1 DEF Fits
<1>4. tx'[c].op = tx[c].op /\ tx'[c].pc = tx[c].pc + 1
  BY <1>2
<1>5. InPlan(c)'
  <2>1. CASE tx[c].op = "settle"
    BY <1>3, <1>4, <2>1, SettlePlan DEF InPlan
  <2>2. CASE tx[c].op = "refund"
    BY <1>3, <1>4, <2>2, RefundPlan DEF InPlan
  <2>3. CASE tx[c].op = "void"
    BY <1>3, <1>4, <2>3, VoidPlan DEF InPlan
  <2>4. CASE tx[c].op = "merge"
    BY <1>3, <1>4, <2>4, MergePlan DEF InPlan
  <2>5. CASE tx[c].op = "closeDay"
    BY <1>3, <1>4, <2>5, CloseDayPlan DEF InPlan
  <2> QED
    BY <1>3, <2>1, <2>2, <2>3, <2>4, <2>5 DEF InPlan
<1>6. Fits(c)'
  BY <1>1, <1>2, <1>5 DEF Fits
<1>7. ASSUME NEW e \in Clerks, e # c PROVE Fits(e)'
  <2>1. tx'[e] = tx[e] /\ Fits(e)
    BY <1>1, <1>7 DEF Typed
  <2> QED
    BY <2>1 DEF Fits, InPlan
<1> QED
  BY <1>2, <1>6, <1>7

\* So does one that ends.
LEMMA EndsTyped ==
    ASSUME Typed, NEW c \in Clerks, tx' = [tx EXCEPT ![c] = NoTx],
           locks' = [locks EXCEPT ![c] = {}]
    PROVE  /\ tx' \in [Clerks -> Calls] /\ \A e \in Clerks : Fits(e)'
           /\ locks' \in [Clerks -> SUBSET Locks]
<1>1. tx \in [Clerks -> Calls] /\ locks \in [Clerks -> SUBSET Locks]
  BY DEF Typed, MoneyTypeOK, Calls
<1>2. NoTx \in Calls
  BY DEF NoTx, NewTx, Calls
<1>3. tx' \in [Clerks -> Calls] /\ tx'[c] = NoTx
  BY <1>1, <1>2
<1>4. ASSUME NEW e \in Clerks, e # c PROVE Fits(e)'
  <2>1. tx'[e] = tx[e] /\ Fits(e)
    BY <1>1, <1>4 DEF Typed
  <2> QED
    BY <2>1 DEF Fits, InPlan
<1>5. Fits(c)'
  BY <1>3 DEF Fits, NoTx, NewTx
<1> QED
  BY <1>1, <1>3, <1>4, <1>5

\* What a call asks for are locks.
LEMMA AsksLocks ==
    ASSUME Typed, NEW c \in Clerks, tx[c].op # "idle", Step(c) # "commit"
    PROVE  Asks(c) \subseteq Locks
<1>1. tx[c] \in Calls /\ InPlan(c) /\ Fits(c) /\ tx[c] # NoTx
  BY DEF Typed, MoneyTypeOK, Calls, Fits, NoTx, NewTx
<1>2. tab \in [Tabs -> [st : {"none", "open", "awaiting", "settled", "void"},
                         day : Days \cup {0}, total : Nat]]
  BY DEF Typed, MoneyTypeOK, RowsTypeOK
<1>3. \A n \in Nat, b \in BOOLEAN : /\ <<"day", n, b>> \in Locks
                                    /\ <<"shift", n, b>> \in Locks
                                    /\ <<"tab", n, b>> \in Locks
  BY DEF Locks
<1>4. tx[c].day \in Nat
  BY <1>1, Ids DEF Calls
<1>5. ShiftLock(c) \subseteq Locks
  BY <1>1, <1>3, Ids DEF ShiftLock, OpenShifts, Calls
<1>6. Step(c) = "key" => tab[tx[c].x].day \in Nat
  <2>1. Step(c) = "key" => tx[c].op = "settle"
    BY <1>1, SettlePlan, RefundPlan, VoidPlan, MergePlan, CloseDayPlan DEF InPlan
  <2> QED
    BY <1>1, <1>2, <2>1, Ids DEF Fits
<1>7. TabOf(c) \in Nat
  <2>1. tx[c].op = "refund" => pay[tx[c].x].tab \in Nat
    BY <1>1, Ids DEF Typed, MoneyTypeOK, RowsTypeOK, Fits
  <2>2. tx[c].at \in Nat /\ tx[c].x \in Nat
    BY <1>1, Ids DEF Calls
  <2> QED
    BY <2>1, <2>2 DEF TabOf
<1>8. Pair(c)[1] \in Nat /\ Pair(c)[2] \in Nat
  BY <1>1 DEF Pair, Calls
<1> QED
  BY <1>3, <1>4, <1>5, <1>6, <1>7, <1>8 DEF Asks

\* Initially there are no rows and no calls.
LEMMA MoneyInitTyped == Init => Typed
<1> SUFFICES ASSUME Init PROVE Typed
  OBVIOUS
<1>1. RowsTypeOK
  BY DEF Init, RowsInit, RowsTypeOK
<1>2. NoTx \in Calls
  BY DEF NoTx, NewTx, Calls
<1>3. tx \in [Clerks -> Calls] /\ locks \in [Clerks -> SUBSET Locks]
  BY <1>2 DEF Init
<1>4. \A c \in Clerks : Fits(c)
  BY DEF Init, Fits
<1> QED
  BY <1>1, <1>3, <1>4 DEF Typed, MoneyTypeOK, Calls

\* The steps of a call that write no row keep the types.
LEMMA ReadsTyped ==
    ASSUME Typed, NEW c \in Clerks,
           \/ \E op \in Ops, x, y \in Args : Begin(c, op, x, y)
           \/ Lock(c) \/ Seek(c) \/ Find(c) \/ Spend(c) \/ Look(c) \/ Sum(c)
           \/ Rollback(c)
    PROVE  Typed'
<1>1. /\ RowsTypeOK /\ tx \in [Clerks -> Calls] /\ tx[c] \in Calls
      /\ locks \in [Clerks -> SUBSET Locks]
  BY DEF Typed, MoneyTypeOK, Calls
<1>2. UNCHANGED rows
  BY DEF Begin, Lock, Seek, Find, Spend, Look, Sum, Rollback
<1>3. RowsTypeOK'
  BY <1>1, <1>2 DEF rows, RowsTypeOK
<1>4. SUFFICES /\ tx' \in [Clerks -> Calls] /\ \A e \in Clerks : Fits(e)'
               /\ locks' \in [Clerks -> SUBSET Locks]
  BY <1>3 DEF Typed, MoneyTypeOK, Calls
<1>5. ASSUME NEW k, Proceeds(c, k),
             k \in {"day", "key", "tab", "first", "second", "shift", "seek",
                    "find", "grant", "look", "sum"}
      PROVE  tx[c].op # "idle" /\ Step(c) # "commit" /\ Step(c) = k
  BY <1>5 DEF Proceeds
<1>6. ASSUME NEW op \in Ops, NEW x \in Args, NEW y \in Args, Begin(c, op, x, y)
      PROVE  /\ tx' \in [Clerks -> Calls] /\ \A e \in Clerks : Fits(e)'
             /\ locks' \in [Clerks -> SUBSET Locks]
  <2> DEFINE d == IF op \in NeedsDay THEN CurrentOpenDay ELSE 0
             r == NewTx(op, x, y, d)
  <2>1. tx' = [tx EXCEPT ![c] = r] /\ locks' = locks /\ tx[c] = NoTx
    BY <1>6 DEF Begin
  <2>2. /\ x \in Nat /\ y \in Nat
    BY Ids DEF Args
  <2>3. d \in Days \cup {0} /\ (op \in NeedsDay => d \in Days)
    <3>1. CurrentOpenDay # 0 => CurrentOpenDay \in Days
      BY DEF CurrentOpenDay, OpenDays
    <3>2. op \in NeedsDay => CurrentOpenDay # 0
      BY <1>6 DEF Begin
    <3> QED
      BY <3>1, <3>2
  <2>5. r \in Calls
    <3> HIDE DEF d
    <3> QED
      BY <2>2, <2>3 DEF Calls, NewTx
  <2>6. tx' \in [Clerks -> Calls] /\ tx'[c] = r
    BY <1>1, <2>1, <2>5
  <2>7. Offered(op, x, y)
    BY <1>6 DEF Begin
  <2>8. /\ op = "settle" => x \in Tabs
        /\ op = "refund" => x \in Pays
        /\ op = "void"   => x \in Lines
        /\ op = "merge"  => x \in Tabs /\ y \in Tabs
    BY <2>7 DEF Offered, AllPays, AllLines
  <2>9. Fits(c)'
    <3> HIDE DEF d
    <3>2. /\ tx'[c].op = op /\ tx'[c].x = x /\ tx'[c].y = y /\ tx'[c].day = d
          /\ tx'[c].pc = 1
      BY <2>6 DEF NewTx
    <3> HIDE DEF r
    <3>1. InPlan(c)'
      BY <3>2 DEF InPlan, Ops
    <3> QED
      BY <2>3, <2>8, <3>1, <3>2 DEF Fits
  <2>10. ASSUME NEW e \in Clerks, e # c PROVE Fits(e)'
    <3>1. tx'[e] = tx[e] /\ Fits(e)
      BY <1>1, <2>1, <2>10 DEF Typed
    <3> QED
      BY <3>1 DEF Fits, InPlan
  <2> QED
    BY <1>1, <2>1, <2>6, <2>9, <2>10
<1>7. CASE Lock(c)
  <2> DEFINE s == IF Step(c) = "shift" THEN StillOpen(tx[c].shift)
                                       ELSE tx[c].shift
             r == [Reads(c) EXCEPT !.shift = s]
  <2>1. /\ tx[c].op # "idle" /\ Step(c) # "commit"
    BY <1>5, <1>7 DEF Lock
  <2>2. /\ tx' = [tx EXCEPT ![c] = r]
        /\ locks' = [locks EXCEPT ![c] = @ \cup Asks(c)]
    BY <1>7 DEF Lock
  <2>3. s \in Shifts \cup {0} /\ InPlan(c)
    BY <1>1, <2>1 DEF StillOpen, Calls, Typed, Fits, NoTx, NewTx
  <2>4. r \in Calls /\ r.op = tx[c].op /\ r.pc = tx[c].pc + 1
        /\ r.x = tx[c].x /\ r.y = tx[c].y /\ r.day = tx[c].day
    <3> HIDE DEF s
    <3>1. tx[c].pc + 1 \in 1..7
      BY <2>3 DEF InPlan
    <3> QED
      BY <1>1, <2>3, <3>1 DEF Reads, Calls
  <2>5. tx' \in [Clerks -> Calls] /\ \A e \in Clerks : Fits(e)'
    <3> HIDE DEF r, s
    <3> QED
      BY <2>1, <2>2, <2>4, StepsOn
  <2>6. Asks(c) \subseteq Locks
    BY <2>1, AsksLocks
  <2> QED
    BY <1>1, <2>2, <2>5, <2>6
<1>8. ASSUME NEW r \in Calls, tx' = [tx EXCEPT ![c] = r],
             NEW k, Proceeds(c, k), locks' = locks,
             k \in {"seek", "find", "grant", "look", "sum"},
             r.op = tx[c].op, r.pc = tx[c].pc + 1,
             r.x = tx[c].x, r.y = tx[c].y, r.day = tx[c].day
      PROVE  /\ tx' \in [Clerks -> Calls] /\ \A e \in Clerks : Fits(e)'
             /\ locks' \in [Clerks -> SUBSET Locks]
  BY <1>1, <1>5, <1>8, StepsOn
<1>9. ASSUME NEW k, Proceeds(c, k), k \in {"seek", "find", "grant", "look", "sum"}
      PROVE  /\ InPlan(c) /\ tx[c].pc \in 1..6 /\ tx[c].pc + 1 \in 1..7
             /\ Fits(c) /\ tx[c] # NoTx
  BY <1>5, <1>9 DEF Typed, Fits, NoTx, NewTx, InPlan
<1>10. CASE Seek(c)
  <2> DEFINE d == IF tx[c].op = "settle" THEN tab[tx[c].x].day
                                         ELSE CurrentOpenDay
             s == IF OpenShifts(d) = {} THEN 0
                  ELSE CHOOSE s \in OpenShifts(d) : TRUE
             r == [Reads(c) EXCEPT !.shift = s]
  <2>1. Proceeds(c, "seek") /\ tx' = [tx EXCEPT ![c] = r] /\ locks' = locks
    BY <1>10 DEF Seek
  <2>2. s \in Shifts \cup {0}
    BY DEF OpenShifts
  <2>3. r \in Calls /\ r.op = tx[c].op /\ r.pc = tx[c].pc + 1
        /\ r.x = tx[c].x /\ r.y = tx[c].y /\ r.day = tx[c].day
    <3> HIDE DEF s
    <3> QED
      BY <1>1, <1>9, <2>1, <2>2 DEF Reads, Calls
  <2> HIDE DEF r
  <2> QED
    BY <1>8, <2>1, <2>3
<1>11. CASE Find(c)
  <2> DEFINE r == [Reads(c) EXCEPT !.at = line[tx[c].x].tab]
  <2>1. Proceeds(c, "find") /\ tx' = [tx EXCEPT ![c] = r] /\ locks' = locks
    BY <1>11 DEF Find
  <2>2. line[tx[c].x].tab \in Tabs \cup {0}
    <3>1. tx[c].op = "void"
      BY <1>5, <1>9, <2>1, SettlePlan, RefundPlan, VoidPlan, MergePlan,
         CloseDayPlan DEF InPlan
    <3> QED
      BY <1>1, <1>9, <2>1, <3>1 DEF Fits, RowsTypeOK
  <2>3. r \in Calls /\ r.op = tx[c].op /\ r.pc = tx[c].pc + 1
        /\ r.x = tx[c].x /\ r.y = tx[c].y /\ r.day = tx[c].day
    BY <1>1, <1>9, <2>1, <2>2 DEF Reads, Calls
  <2> HIDE DEF r
  <2> QED
    BY <1>8, <2>1, <2>3
<1>12. CASE Spend(c)
  <2>1. PICK g \in Newest : tx' = [tx EXCEPT ![c] = [Reads(c) EXCEPT !.grant = g]]
    BY <1>12 DEF Spend
  <2> DEFINE r == [Reads(c) EXCEPT !.grant = g]
  <2>2. Proceeds(c, "grant") /\ locks' = locks /\ g \in Grants
    BY <1>12 DEF Spend, Newest, FreeGrants
  <2>3. r \in Calls /\ r.op = tx[c].op /\ r.pc = tx[c].pc + 1
        /\ r.x = tx[c].x /\ r.y = tx[c].y /\ r.day = tx[c].day
    BY <1>1, <1>9, <2>2 DEF Reads, Calls
  <2> HIDE DEF r
  <2> QED
    BY <1>8, <2>1, <2>2, <2>3 DEF r
<1>13. CASE Look(c)
  <2> DEFINE r == Reads(c)
  <2>1. Proceeds(c, "look") /\ tx' = [tx EXCEPT ![c] = r] /\ locks' = locks
    BY <1>13 DEF Look
  <2>2. r \in Calls /\ r.op = tx[c].op /\ r.pc = tx[c].pc + 1
        /\ r.x = tx[c].x /\ r.y = tx[c].y /\ r.day = tx[c].day
    BY <1>1, <1>9, <2>1 DEF Reads, Calls
  <2> HIDE DEF r
  <2> QED
    BY <1>8, <2>1, <2>2
<1>14. CASE Sum(c)
  <2> DEFINE a == {p \in AllPays : pay[p].day = tx[c].day}
             b == {f \in AllRefs : CountedOn(f) = tx[c].day}
             r == [Reads(c) EXCEPT !.took = a, !.gave = b]
  <2>1. Proceeds(c, "sum") /\ tx' = [tx EXCEPT ![c] = r] /\ locks' = locks
    BY <1>14 DEF Sum
  <2>2. a \subseteq Pays /\ b \subseteq Refs
    BY DEF AllPays, AllRefs
  <2>3. r \in Calls /\ r.op = tx[c].op /\ r.pc = tx[c].pc + 1
        /\ r.x = tx[c].x /\ r.y = tx[c].y /\ r.day = tx[c].day
    <3> HIDE DEF a, b
    <3> QED
      BY <1>1, <1>9, <2>1, <2>2 DEF Reads, Calls
  <2> HIDE DEF r
  <2> QED
    BY <1>8, <2>1, <2>3
<1>15. CASE Rollback(c)
  BY <1>15, EndsTyped DEF Rollback
<1> QED
  BY <1>6, <1>7, <1>10, <1>11, <1>12, <1>13, <1>14, <1>15

DayRows == [st : {"none", "open", "closed"}, took : SUBSET Pays,
            gave : SUBSET Refs]

ShiftRows == [st : {"none", "open", "closed"}, day : Days \cup {0},
              took : SUBSET Pays, gave : SUBSET Refs, auth : Grants \cup {0}]

TabRows == [st : {"none", "open", "awaiting", "settled", "void"},
            day : Days \cup {0}, total : Nat]

LineRows == [st : {"none", "live", "void"}, tab : Tabs \cup {0},
             auth : Grants \cup {0}]

DiscRows == [tab : Tabs \cup {0}, amt : 0..1, auth : Grants \cup {0}]

PayRows == [tab : Tabs \cup {0}, day : Days \cup {0}, amt : Nat,
            shift : Shifts \cup {0}]

RefRows == [pay : Pays \cup {0}, amt : Nat, shift : Shifts \cup {0},
            made : Days \cup {0}, auth : Grants \cup {0}]

\* A row that is written keeps its shape.
LEMMA RowsTyped ==
    RowsTypeOK <=> /\ day \in [Days -> DayRows]
                   /\ shift \in [Shifts -> ShiftRows]
                   /\ tab \in [Tabs -> TabRows]
                   /\ line \in [Lines -> LineRows]
                   /\ disc \in [Discs -> DiscRows]
                   /\ pay \in [Pays -> PayRows]
                   /\ ref \in [Refs -> RefRows]
                   /\ grant \in [Grants -> {"none", "live", "used"}]
  BY DEF RowsTypeOK, DayRows, ShiftRows, TabRows, LineRows, DiscRows, PayRows,
         RefRows

\* Every row an RPC writes is a row of its table.
LEMMA Rewritten ==
    /\ \A r \in TabRows, n \in Nat,
          st \in {"none", "open", "awaiting", "settled", "void"} :
          [r EXCEPT !.total = n, !.st = st] \in TabRows
    /\ \A r \in TabRows, n \in Nat,
          st \in {"none", "open", "awaiting", "settled", "void"} :
          [r EXCEPT !.st = st, !.total = n] \in TabRows
    /\ \A r \in LineRows, st \in {"none", "live", "void"}, g \in Grants \cup {0} :
          [r EXCEPT !.st = st, !.auth = g] \in LineRows
    /\ \A r \in LineRows, t \in Tabs : [r EXCEPT !.tab = t] \in LineRows
    /\ \A r \in DiscRows, t \in Tabs : [r EXCEPT !.tab = t] \in DiscRows
    /\ \A r \in DayRows, st \in {"none", "open", "closed"} :
          [r EXCEPT !.st = st] \in DayRows
    /\ \A r \in ShiftRows, st \in {"none", "open", "closed"}, d \in Days :
          [r EXCEPT !.st = st, !.day = d] \in ShiftRows
    /\ \A r \in ShiftRows, st \in {"none", "open", "closed"},
          p \in SUBSET Pays, f \in SUBSET Refs, g \in Grants \cup {0} :
          [r EXCEPT !.st = st, !.auth = g, !.took = p, !.gave = f] \in ShiftRows
<1>1. ASSUME NEW r \in TabRows, NEW n \in Nat,
             NEW st \in {"none", "open", "awaiting", "settled", "void"}
      PROVE  /\ [r EXCEPT !.total = n, !.st = st] \in TabRows
             /\ [r EXCEPT !.st = st, !.total = n] \in TabRows
  BY DEF TabRows
<1>3. ASSUME NEW r \in DiscRows, NEW t \in Tabs
      PROVE  [r EXCEPT !.tab = t] \in DiscRows
  BY DEF DiscRows
<1>4. ASSUME NEW r \in DayRows, NEW st \in {"none", "open", "closed"}
      PROVE  [r EXCEPT !.st = st] \in DayRows
  BY DEF DayRows
<1>5. ASSUME NEW r \in ShiftRows, NEW st \in {"none", "open", "closed"},
             NEW d \in Days
      PROVE  [r EXCEPT !.st = st, !.day = d] \in ShiftRows
  BY DEF ShiftRows
<1>6. ASSUME NEW r \in ShiftRows, NEW st \in {"none", "open", "closed"},
             NEW p \in SUBSET Pays, NEW f \in SUBSET Refs,
             NEW g \in Grants \cup {0}
      PROVE  [r EXCEPT !.st = st, !.auth = g, !.took = p, !.gave = f]
               \in ShiftRows
  BY DEF ShiftRows
<1>2. ASSUME NEW r \in LineRows, NEW t \in Tabs
      PROVE  [r EXCEPT !.tab = t] \in LineRows
  BY DEF LineRows
<1>7. ASSUME NEW r \in LineRows, NEW st \in {"none", "live", "void"},
             NEW g \in Grants \cup {0}
      PROVE  [r EXCEPT !.st = st, !.auth = g] \in LineRows
  BY DEF LineRows
<1> QED
  BY <1>1, <1>2, <1>3, <1>4, <1>5, <1>6, <1>7

\* A shift that is closed is a shift, whatever it added up.
LEMMA ClosedTyped ==
    ASSUME NEW s \in Shifts, shift[s] \in ShiftRows, NEW g \in Grants \cup {0}
    PROVE  Closed(s, g) \in ShiftRows
<1>1. /\ {p \in AllPays : pay[p].shift = s} \in SUBSET Pays
      /\ {r \in AllRefs : ref[r].shift = s} \in SUBSET Refs
  BY DEF AllPays, AllRefs
<1> QED
  BY <1>1, Rewritten DEF Closed

\* Every call that commits keeps the types.
LEMMA WritesTyped ==
    ASSUME Typed, NEW c \in Clerks,
           SettleTab(c) \/ Refund(c) \/ VoidAfterSend(c) \/ MergeTabs(c)
             \/ CloseDay(c)
    PROVE  Typed'
<1>1. /\ RowsTypeOK /\ tx \in [Clerks -> Calls] /\ tx[c] \in Calls
      /\ locks \in [Clerks -> SUBSET Locks]
  BY DEF Typed, MoneyTypeOK, Calls
<1>2. Ends(c)
  BY DEF SettleTab, Refund, VoidAfterSend, MergeTabs, CloseDay
<1>3. /\ tx' \in [Clerks -> Calls] /\ \A e \in Clerks : Fits(e)'
      /\ locks' \in [Clerks -> SUBSET Locks]
  BY <1>2, EndsTyped DEF Ends
<1>4. SUFFICES RowsTypeOK'
  BY <1>3 DEF Typed, MoneyTypeOK, Calls
<1>5. ASSUME NEW op \in Ops, Commits(c, op)
      PROVE  InPlan(c) /\ Fits(c) /\ tx[c] # NoTx /\ tx[c].op = op
  BY <1>5 DEF Commits, Typed, Fits, NoTx, NewTx, Ops
<1>r. /\ day \in [Days -> DayRows] /\ shift \in [Shifts -> ShiftRows]
      /\ tab \in [Tabs -> TabRows] /\ line \in [Lines -> LineRows]
      /\ disc \in [Discs -> DiscRows] /\ pay \in [Pays -> PayRows]
      /\ ref \in [Refs -> RefRows]
      /\ grant \in [Grants -> {"none", "live", "used"}]
  BY <1>1, RowsTyped
<1>t. SUFFICES /\ day' \in [Days -> DayRows] /\ shift' \in [Shifts -> ShiftRows]
               /\ tab' \in [Tabs -> TabRows] /\ line' \in [Lines -> LineRows]
               /\ disc' \in [Discs -> DiscRows] /\ pay' \in [Pays -> PayRows]
               /\ ref' \in [Refs -> RefRows]
               /\ grant' \in [Grants -> {"none", "live", "used"}]
  BY DEF RowsTypeOK, DayRows, ShiftRows, TabRows, LineRows, DiscRows, PayRows,
         RefRows
<1>6. CASE SettleTab(c)
  <2> DEFINE t == tx[c].x
  <2>1. PICK p \in Pays, amt \in 1..Due(t) :
          /\ pay' = [pay EXCEPT ![p] = [tab |-> t, day |-> tab[t].day,
                                        amt |-> amt, shift |-> tx[c].shift]]
          /\ tab' = [tab EXCEPT ![t] =
                       [@ EXCEPT !.total = Stamp(t),
                                 !.st = IF amt = Due(t) THEN "settled"
                                                        ELSE "awaiting"]]
    BY <1>6 DEF SettleTab
  <2> DEFINE st == IF amt = Due(t) THEN "settled" ELSE "awaiting"
             new == [tab[t] EXCEPT !.total = Stamp(t), !.st = st]
  <2>2. t \in Tabs
    BY <1>5, <1>6 DEF SettleTab, Fits, Ops
  <2>3. amt \in Nat /\ Stamp(t) \in Nat /\ tab[t] \in TabRows
    BY <1>r, <2>2, BillIsAmount DEF Stamp
  <2>4. UNCHANGED <<day, shift, line, disc, ref, grant>>
    BY <1>6 DEF SettleTab
  <2>5. tx[c].shift \in Shifts \cup {0} /\ tab[t].day \in Days \cup {0}
    BY <1>1, <2>3 DEF Calls, TabRows
  <2>6. [tab |-> t, day |-> tab[t].day, amt |-> amt, shift |-> tx[c].shift]
          \in PayRows
    BY <2>2, <2>3, <2>5 DEF PayRows
  <2>7. new \in TabRows
    BY <2>3, Rewritten
  <2>8. tab' = [tab EXCEPT ![t] = new]
    BY <2>1
  <2> HIDE DEF new
  <2> QED
    BY <1>r, <2>1, <2>2, <2>4, <2>6, <2>7, <2>8
<1>7. CASE Refund(c)
  <2>1. PICK r \in Refs :
          ref' = [ref EXCEPT ![r] = [pay |-> tx[c].x, amt |-> Given(tx[c].y),
                                     shift |-> tx[c].shift,
                                     made |-> tx[c].day, auth |-> tx[c].grant]]
    BY <1>7 DEF Refund
  <2>2. tx[c].x \in Pays /\ tx[c].y \in Nat
    BY <1>1, <1>5, <1>7 DEF Refund, Fits, Ops, Calls
  <2>3. /\ tx[c].shift \in Shifts \cup {0} /\ tx[c].day \in Days \cup {0}
        /\ tx[c].grant \in Grants \cup {0}
    BY <1>1 DEF Calls
  <2>4. /\ grant' = [grant EXCEPT ![tx[c].grant] = "used"]
        /\ UNCHANGED <<day, shift, tab, line, disc, pay>>
    BY <1>7 DEF Refund, Spent
  <2>5. [pay |-> tx[c].x, amt |-> Given(tx[c].y), shift |-> tx[c].shift,
         made |-> tx[c].day, auth |-> tx[c].grant] \in RefRows
    BY <2>2, <2>3 DEF RefRows, Given
  <2> QED
    BY <1>r, <2>1, <2>4, <2>5
<1>8. CASE VoidAfterSend(c)
  <2> DEFINE l == tx[c].x
             new == [line[l] EXCEPT !.st = "void", !.auth = tx[c].grant]
  <2>1. l \in Lines /\ line[l] \in LineRows
    BY <1>r, <1>5, <1>8 DEF VoidAfterSend, Fits, Ops
  <2>2. tx[c].grant \in Grants \cup {0}
    BY <1>1 DEF Calls
  <2>3. /\ grant' = [grant EXCEPT ![tx[c].grant] = "used"]
        /\ UNCHANGED <<day, shift, tab, disc, pay, ref>>
    BY <1>8 DEF VoidAfterSend, Spent
  <2>4. line' = line \/ line' = [line EXCEPT ![l] = new]
    BY <1>8 DEF VoidAfterSend
  <2>5. new \in LineRows
    BY <2>1, <2>2, Rewritten
  <2> HIDE DEF new
  <2> QED
    BY <1>r, <2>1, <2>3, <2>4, <2>5
<1>9. CASE MergeTabs(c)
  <2> DEFINE donor == tx[c].x  survivor == tx[c].y
             moved(row) == IF row.tab = donor
                           THEN [row EXCEPT !.tab = survivor] ELSE row
             new == [tab[donor] EXCEPT !.st = "void", !.total = 0]
  <2>1. donor \in Tabs /\ survivor \in Tabs /\ tab[donor] \in TabRows
    BY <1>r, <1>5, <1>9 DEF MergeTabs, Fits, Ops
  <2>2. /\ line' = [l \in Lines |-> moved(line[l])]
        /\ disc' = [a \in Discs |-> moved(disc[a])]
        /\ tab' = [tab EXCEPT ![donor] = new]
        /\ UNCHANGED <<day, shift, pay, ref, grant>>
    BY <1>9 DEF MergeTabs
  <2>3. \A l \in Lines : moved(line[l]) \in LineRows
    BY <1>r, <2>1, Rewritten
  <2>4. \A a \in Discs : moved(disc[a]) \in DiscRows
    BY <1>r, <2>1, Rewritten
  <2>5. new \in TabRows
    BY <2>1, Rewritten
  <2> HIDE DEF moved, new
  <2> QED
    BY <1>r, <2>1, <2>2, <2>3, <2>4, <2>5
<1>10. CASE CloseDay(c)
  <2> DEFINE d == tx[c].day
             new(s) == IF s \in OpenShifts(d) THEN Closed(s, 0) ELSE shift[s]
  <2>1. d \in Days
    BY <1>5, <1>10 DEF CloseDay, Fits, Ops, NeedsDay
  <2>2. /\ day' = [day EXCEPT ![d] = [st |-> "closed", took |-> tx[c].took,
                                      gave |-> tx[c].gave]]
        /\ shift' = [s \in Shifts |-> new(s)]
        /\ UNCHANGED <<tab, line, disc, pay, ref, grant>>
    BY <1>10 DEF CloseDay
  <2>3. [st |-> "closed", took |-> tx[c].took, gave |-> tx[c].gave] \in DayRows
    BY <1>1 DEF Calls, DayRows
  <2>4. \A s \in Shifts : new(s) \in ShiftRows
    BY <1>r, ClosedTyped
  <2> HIDE DEF new
  <2> QED
    BY <1>r, <2>1, <2>2, <2>3, <2>4
<1> QED
  BY <1>6, <1>7, <1>8, <1>9, <1>10

\* Every RPC that takes one step keeps the types.
LEMMA DeskTyped ==
    ASSUME Typed, Desk
    PROVE  Typed'
<1>1. RowsTypeOK /\ UNCHANGED <<tx, locks>>
  BY DEF Typed, MoneyTypeOK, Desk, OpenDay, OpenTab, TillAddItems,
         SettleZeroTab, CancelTab, ApplyDiscount, OpenTillShift,
         CloseTillShift, CloseTillShiftFor, VerifyManagerPin
<1>2. SUFFICES RowsTypeOK'
  <2>1. \A c \in Clerks : Fits(c)'
    BY <1>1 DEF Typed, Fits, InPlan
  <2> QED
    BY <1>1, <2>1 DEF Typed, MoneyTypeOK
<1>r. /\ day \in [Days -> DayRows] /\ shift \in [Shifts -> ShiftRows]
      /\ tab \in [Tabs -> TabRows] /\ line \in [Lines -> LineRows]
      /\ disc \in [Discs -> DiscRows] /\ pay \in [Pays -> PayRows]
      /\ ref \in [Refs -> RefRows]
      /\ grant \in [Grants -> {"none", "live", "used"}]
  BY <1>1, RowsTyped
<1>t. SUFFICES /\ day' \in [Days -> DayRows] /\ shift' \in [Shifts -> ShiftRows]
               /\ tab' \in [Tabs -> TabRows] /\ line' \in [Lines -> LineRows]
               /\ disc' \in [Discs -> DiscRows] /\ pay' \in [Pays -> PayRows]
               /\ ref' \in [Refs -> RefRows]
               /\ grant' \in [Grants -> {"none", "live", "used"}]
  BY DEF RowsTypeOK, DayRows, ShiftRows, TabRows, LineRows, DiscRows, PayRows,
         RefRows
<1> DEFINE Goal == /\ day' \in [Days -> DayRows]
                   /\ shift' \in [Shifts -> ShiftRows]
                   /\ tab' \in [Tabs -> TabRows] /\ line' \in [Lines -> LineRows]
                   /\ disc' \in [Discs -> DiscRows] /\ pay' \in [Pays -> PayRows]
                   /\ ref' \in [Refs -> RefRows]
                   /\ grant' \in [Grants -> {"none", "live", "used"}]
<1>3. ASSUME NEW d \in Days, OpenDay(d) PROVE Goal
  <2>1. [day[d] EXCEPT !.st = "open"] \in DayRows
    BY <1>r, Rewritten
  <2>2. /\ day' = [day EXCEPT ![d] = [day[d] EXCEPT !.st = "open"]]
        /\ UNCHANGED <<shift, tab, line, disc, pay, ref, grant>>
    BY <1>3 DEF OpenDay
  <2> QED
    BY <1>r, <2>1, <2>2
<1>4. ASSUME NEW t \in Tabs, NEW d \in Days, OpenTab(t, d) PROVE Goal
  <2>1. [st |-> "open", day |-> d, total |-> 0] \in TabRows
    BY DEF TabRows
  <2> QED
    BY <1>r, <1>4, <2>1 DEF OpenTab
<1>5. ASSUME NEW t \in Tabs, TillAddItems(t) PROVE Goal
  <2>1. [st |-> "live", tab |-> t, auth |-> 0] \in LineRows
    BY DEF LineRows
  <2> QED
    BY <1>r, <1>5, <2>1 DEF TillAddItems
<1>6. ASSUME NEW t \in Tabs, SettleZeroTab(t) PROVE Goal
  <2> DEFINE new == [tab[t] EXCEPT !.total = Stamp(t), !.st = "settled"]
  <2>1. new \in TabRows
    BY <1>r, Rewritten, BillIsAmount DEF Stamp
  <2>2. /\ tab' = [tab EXCEPT ![t] = new]
        /\ UNCHANGED <<day, shift, line, disc, pay, ref, grant>>
    BY <1>6 DEF SettleZeroTab
  <2> HIDE DEF new
  <2> QED
    BY <1>r, <2>1, <2>2
<1>7. ASSUME NEW t \in Tabs, CancelTab(t) PROVE Goal
  <2> DEFINE new == [tab[t] EXCEPT !.total = 0, !.st = "void"]
  <2>1. new \in TabRows
    BY <1>r, Rewritten
  <2>2. /\ tab' = [tab EXCEPT ![t] = new]
        /\ UNCHANGED <<day, shift, line, disc, pay, ref, grant>>
    BY <1>7 DEF CancelTab
  <2> HIDE DEF new
  <2> QED
    BY <1>r, <2>1, <2>2
<1>8. ASSUME NEW t \in Tabs, NEW g \in Grants, ApplyDiscount(t, g)
      PROVE  Goal
  <2>1. [tab |-> t, amt |-> DiscountAmount(t), auth |-> g] \in DiscRows
    BY DEF DiscountAmount, DiscRows
  <2> QED
    BY <1>r, <1>8, <2>1 DEF ApplyDiscount
<1>9. ASSUME NEW s \in Shifts, NEW d \in Days, OpenTillShift(s, d)
      PROVE  Goal
  <2> DEFINE new == [shift[s] EXCEPT !.st = "open", !.day = d]
  <2>1. new \in ShiftRows
    BY <1>r, Rewritten
  <2>2. /\ shift' = [shift EXCEPT ![s] = new]
        /\ UNCHANGED <<day, tab, line, disc, pay, ref, grant>>
    BY <1>9 DEF OpenTillShift
  <2> HIDE DEF new
  <2> QED
    BY <1>r, <2>1, <2>2
<1>10. ASSUME NEW s \in Shifts, CloseTillShift(s) PROVE Goal
  <2>1. Closed(s, 0) \in ShiftRows
    BY <1>r, ClosedTyped
  <2> QED
    BY <1>r, <1>10, <2>1 DEF CloseTillShift
<1>11. ASSUME NEW s \in Shifts, NEW g \in Grants, CloseTillShiftFor(s, g)
       PROVE  Goal
  <2>1. Closed(s, g) \in ShiftRows
    BY <1>r, ClosedTyped
  <2> QED
    BY <1>r, <1>11, <2>1 DEF CloseTillShiftFor
<1>12. ASSUME NEW g \in Grants, VerifyManagerPin(g) PROVE Goal
  BY <1>r, <1>12 DEF VerifyManagerPin
<1> QED
  BY <1>3, <1>4, <1>5, <1>6, <1>7, <1>8, <1>9, <1>10, <1>11, <1>12 DEF Desk

\* Every step keeps the types.
LEMMA StepsTyped == Typed /\ [Next]_vars => Typed'
<1> SUFFICES ASSUME Typed, [Next]_vars PROVE Typed'
  OBVIOUS
<1>1. CASE Desk
  BY <1>1, DeskTyped
<1>2. ASSUME NEW c \in Clerks, Call(c) PROVE Typed'
  BY <1>2, ReadsTyped, WritesTyped DEF Call
<1>3. CASE UNCHANGED vars
  BY <1>3 DEF vars, rows, Typed, MoneyTypeOK, RowsTypeOK, Fits, InPlan
<1> QED
  BY <1>1, <1>2, <1>3 DEF Next

\* Rows, calls and locks keep their types, and every stamped total, payment
\* and refund is an amount, whatever the calls do to each other.
THEOREM MoneyTyped == Spec => []MoneyTypeOK
<1>1. Typed => MoneyTypeOK
  BY DEF Typed
<1> QED
  BY <1>1, MoneyInitTyped, StepsTyped, PTL DEF Spec

-----------------------------------------------------------------------------
(* The invariant behind the balances *)

\* Days follow each other, and every row belongs to a day that was opened; a
\* refund is made no earlier than its payment, on the day of its shift.
RowsInOrder ==
    /\ \A d, e \in Days : d < e /\ day[e].st # "none" => day[d].st = "closed"
    /\ \A t \in Tabs : tab[t].st # "none" =>
          tab[t].day \in Days /\ day[tab[t].day].st # "none"
    /\ \A s \in Shifts : shift[s].st # "none" =>
          shift[s].day \in Days /\ day[shift[s].day].st # "none"
    /\ \A p \in AllPays :
          /\ pay[p].day \in Days /\ day[pay[p].day].st # "none"
          /\ pay[p].shift # 0 => shift[pay[p].shift].st # "none"
    /\ \A r \in AllRefs :
          /\ ref[r].pay \in AllPays /\ ref[r].made \in Days
          /\ day[ref[r].made].st # "none" /\ pay[ref[r].pay].day <= ref[r].made
          /\ ref[r].shift # 0 => /\ shift[ref[r].shift].st # "none"
                                 /\ shift[ref[r].shift].day = ref[r].made

\* No two sessions hold clashing locks.
LocksFit ==
    \A c, e \in Clerks : c # e =>
        \A l \in locks[c], m \in locks[e] : ~Clash(l, m)

PaidOn(d)  == {p \in AllPays : pay[p].day = d}
GivenOn(d) == {r \in AllRefs : CountedOn(r) = d}
MadeOn(d)  == {r \in AllRefs : ref[r].made = d /\ CountedOn(r) = d}
PaidIn(s)  == {p \in AllPays : pay[p].shift = s}
GivenIn(s) == {r \in AllRefs : ref[r].shift = s}

\* What a call relies on between its steps, because of the locks it holds.
HoldsDay(c) ==
    /\ tx[c].op = "closeDay" /\ Past(c, "day") =>
          <<"day", tx[c].day, TRUE>> \in locks[c]
    /\ tx[c].op = "refund" /\ Past(c, "day") =>
          <<"day", tx[c].day, FALSE>> \in locks[c]

Closing(c) == tx[c].op = "closeDay" /\ Past(c, "look") =>
                  day[tx[c].day].st = "open" /\ NoOpenTab(tx[c].day)

HoldsShifts(c) ==
    tx[c].op = "closeDay" /\ Past(c, "shift") =>
        \A s \in OpenShifts(tx[c].day) : <<"shift", s, TRUE>> \in locks[c]

Added(c) == tx[c].op = "closeDay" /\ Past(c, "sum") =>
                /\ tx[c].took = PaidOn(tx[c].day)
                /\ tx[c].gave = GivenOn(tx[c].day)

Found(c) ==
    LET s == tx[c].shift IN
    tx[c].op \in {"settle", "refund"} /\ Past(c, "seek") /\ s # 0 =>
        /\ shift[s].st # "none"
        /\ tx[c].op = "refund" => shift[s].day = tx[c].day

HoldsStamp(c) ==
    LET s == tx[c].shift IN
    tx[c].op \in {"settle", "refund"} /\ Past(c, "shift") /\ s # 0 =>
        shift[s].st = "open" /\ <<"shift", s, FALSE>> \in locks[c]

Held(c) == /\ HoldsDay(c) /\ Closing(c) /\ HoldsShifts(c) /\ Added(c)
           /\ Found(c) /\ HoldsStamp(c)
           /\ tx[c].op = "refund" => tx[c].x \in AllPays

Balanced == NothingOpenOnClosedDay /\ ClosedDayBalances /\ ClosedShiftBalances

MoneyInv == /\ Typed /\ RowsInOrder /\ LocksFit /\ Balanced
            /\ \A c \in Clerks : Held(c)

-----------------------------------------------------------------------------
(* Lemmas about the sums *)

\* Where no payment, refund or shift changes, no sum does.
LEMMA SameSums ==
    ASSUME UNCHANGED <<pay, ref, shift>>
    PROVE  /\ AllPays' = AllPays /\ AllRefs' = AllRefs
           /\ \A d : /\ PaidOn(d)' = PaidOn(d) /\ GivenOn(d)' = GivenOn(d)
                     /\ MadeOn(d)' = MadeOn(d)
           /\ \A s : PaidIn(s)' = PaidIn(s) /\ GivenIn(s)' = GivenIn(s)
           /\ \A d : OpenShifts(d)' = OpenShifts(d)
  BY DEF AllPays, AllRefs, PaidOn, GivenOn, MadeOn, PaidIn, GivenIn, CountedOn,
         OpenShifts

\* A shift that opens or closes moves no payment or refund.
LEMMA SumsOfShifts ==
    ASSUME Typed, RowsInOrder, UNCHANGED <<pay, ref>>,
           \A s \in Shifts : shift[s].st # "none" => shift'[s].day = shift[s].day
    PROVE  /\ AllPays' = AllPays /\ AllRefs' = AllRefs
           /\ \A d : /\ PaidOn(d)' = PaidOn(d) /\ GivenOn(d)' = GivenOn(d)
                     /\ MadeOn(d)' = MadeOn(d)
           /\ \A s : PaidIn(s)' = PaidIn(s) /\ GivenIn(s)' = GivenIn(s)
<1>1. AllPays' = AllPays /\ AllRefs' = AllRefs
  BY DEF AllPays, AllRefs
<1>2. ASSUME NEW r \in AllRefs PROVE CountedOn(r)' = CountedOn(r)
  <2>1. ref[r].shift \in Shifts \cup {0}
    BY DEF Typed, MoneyTypeOK, RowsTypeOK, AllRefs
  <2> QED
    BY <2>1 DEF CountedOn, RowsInOrder
<1> QED
  BY <1>1, <1>2 DEF PaidOn, GivenOn, MadeOn, PaidIn, GivenIn

\* A payment adds to the sums of its day and its shift, and to no others.
LEMMA SumsOfPayment ==
    ASSUME Typed, RowsInOrder, NEW p \in Pays \ AllPays, NEW row,
           row.tab \in Tabs, pay' = [pay EXCEPT ![p] = row],
           UNCHANGED <<ref, shift>>
    PROVE  /\ AllPays' = AllPays \cup {p} /\ AllRefs' = AllRefs
           /\ pay'[p] = row /\ \A q \in AllPays : pay'[q] = pay[q]
           /\ \A d : /\ d # row.day => PaidOn(d)' = PaidOn(d)
                     /\ GivenOn(d)' = GivenOn(d) /\ MadeOn(d)' = MadeOn(d)
           /\ \A s : /\ s # row.shift => PaidIn(s)' = PaidIn(s)
                     /\ GivenIn(s)' = GivenIn(s)
<1>1. /\ pay'[p] = row /\ \A q \in Pays : q # p => pay'[q] = pay[q]
      /\ row.tab # 0
  BY Ids, RowsTyped DEF Typed, MoneyTypeOK
<1>2. AllPays' = AllPays \cup {p} /\ AllRefs' = AllRefs
  BY <1>1 DEF AllPays, AllRefs
<1>3. ASSUME NEW r \in AllRefs PROVE CountedOn(r)' = CountedOn(r)
  BY <1>1 DEF CountedOn, RowsInOrder, AllPays
<1>4. \A q \in AllPays : q # p /\ pay'[q] = pay[q]
  BY <1>1 DEF AllPays
<1>5. ASSUME NEW d, d # row.day PROVE PaidOn(d)' = PaidOn(d)
  BY <1>1, <1>2, <1>4, <1>5 DEF PaidOn
<1>6. ASSUME NEW s, s # row.shift PROVE PaidIn(s)' = PaidIn(s)
  BY <1>1, <1>2, <1>4, <1>6 DEF PaidIn
<1>7. \A d : GivenOn(d)' = GivenOn(d) /\ MadeOn(d)' = MadeOn(d)
  BY <1>2, <1>3 DEF GivenOn, MadeOn
<1>8. \A s : GivenIn(s)' = GivenIn(s)
  BY <1>2 DEF GivenIn
<1> QED
  BY <1>1, <1>2, <1>4, <1>5, <1>6, <1>7, <1>8

\* A refund adds to the sums of its shift and of the day it is made.
LEMMA SumsOfRefund ==
    ASSUME Typed, RowsInOrder, NEW r \in Refs \ AllRefs, NEW row,
           row.pay \in Pays, ref' = [ref EXCEPT ![r] = row],
           UNCHANGED <<pay, shift>>
    PROVE  /\ AllPays' = AllPays /\ AllRefs' = AllRefs \cup {r}
           /\ ref'[r] = row /\ \A q \in AllRefs : ref'[q] = ref[q]
           /\ \A d : /\ PaidOn(d)' = PaidOn(d)
                     /\ d # row.made => MadeOn(d)' = MadeOn(d)
           /\ \A s : /\ s # row.shift => GivenIn(s)' = GivenIn(s)
                     /\ PaidIn(s)' = PaidIn(s)
<1>1. /\ ref'[r] = row /\ \A q \in Refs : q # r => ref'[q] = ref[q]
      /\ row.pay # 0
  BY Ids, RowsTyped DEF Typed, MoneyTypeOK
<1>2. AllPays' = AllPays /\ AllRefs' = AllRefs \cup {r}
  BY <1>1 DEF AllPays, AllRefs
<1>3. \A q \in AllRefs : q # r /\ ref'[q] = ref[q]
  BY <1>1 DEF AllRefs
<1>4. \A q \in AllRefs : CountedOn(q)' = CountedOn(q)
  BY <1>3 DEF CountedOn
<1>5. ASSUME NEW d, d # row.made PROVE MadeOn(d)' = MadeOn(d)
  BY <1>1, <1>2, <1>3, <1>4, <1>5 DEF MadeOn
<1>6. ASSUME NEW s, s # row.shift PROVE GivenIn(s)' = GivenIn(s)
  BY <1>1, <1>2, <1>3, <1>6 DEF GivenIn
<1>7. \A d : PaidOn(d)' = PaidOn(d)
  BY <1>2 DEF PaidOn
<1>8. \A s : PaidIn(s)' = PaidIn(s)
  BY <1>2 DEF PaidIn
<1> QED
  BY <1>1, <1>2, <1>3, <1>5, <1>6, <1>7, <1>8

-----------------------------------------------------------------------------
(* Lemmas about calls and their locks *)

\* A session without a call is past nothing.
LEMMA PastOfNoTx ==
    ASSUME NEW c \in Clerks, tx[c] = NoTx
    PROVE  \A k : ~Past(c, k)
<1>1. tx[c].pc = 1
  BY DEF NoTx, NewTx
<1> QED
  BY <1>1 DEF Past

\* A call that did not move is past what it was past.
LEMMA SamePast ==
    ASSUME NEW c \in Clerks, tx'[c] = tx[c]
    PROVE  \A k : Past(c, k)' <=> Past(c, k)
  BY DEF Past

\* A session without a call relies on nothing.
LEMMA IdleHolds ==
    ASSUME NEW c \in Clerks, tx[c] = NoTx
    PROVE  Held(c)
<1>1. tx[c].op = "idle"
  BY DEF NoTx, NewTx
<1> QED
  BY <1>1 DEF Held, HoldsDay, Closing, HoldsShifts, Added, Found, HoldsStamp

\* A call that did not move relies on the same locks.
LEMMA SameLocks ==
    ASSUME NEW c \in Clerks, tx'[c] = tx[c], locks'[c] = locks[c], HoldsDay(c)
    PROVE  HoldsDay(c)'
  BY SamePast DEF HoldsDay

\* The day close_day holds is held by nobody else.
LEMMA DayIsAlone ==
    ASSUME MoneyInv, NEW c \in Clerks, tx[c].op = "closeDay", Past(c, "day")
    PROVE  /\ DayHeld(tx[c].day)
           /\ \A e \in Clerks : e # c =>
                 \A b : <<"day", tx[c].day, b>> \notin locks[e]
<1>1. <<"day", tx[c].day, TRUE>> \in locks[c]
  BY DEF MoneyInv, Held, HoldsDay
<1>2. DayHeld(tx[c].day)
  BY <1>1 DEF DayHeld, Taken, Clash
<1>3. ASSUME NEW e \in Clerks, NEW b, e # c, <<"day", tx[c].day, b>> \in locks[e]
      PROVE  FALSE
  BY <1>1, <1>3 DEF MoneyInv, LocksFit, Clash
<1> QED
  BY <1>2, <1>3

\* A closing call is at work on an open day; there is only one.
LEMMA OneOpenDay ==
    ASSUME Typed, RowsInOrder, NEW d \in Days, NEW e \in Days,
           day[d].st = "open", day[e].st = "open"
    PROVE  d = e /\ CurrentOpenDay = d
<1>1. d = e
  BY Ids DEF RowsInOrder
<1>2. \A f \in OpenDays : f = d
  BY Ids DEF RowsInOrder, OpenDays
<1>3. d \in OpenDays
  BY DEF OpenDays
<1> QED
  BY <1>1, <1>2, <1>3 DEF CurrentOpenDay

\* The order of close_day's steps.
LEMMA ClosingOrder ==
    ASSUME Typed, NEW c \in Clerks, tx[c].op = "closeDay"
    PROVE  /\ InPlan(c) /\ tx[c].day \in Days
           /\ Past(c, "sum") => Past(c, "shift")
           /\ Past(c, "shift") => Past(c, "look")
           /\ Past(c, "look") => Past(c, "day")
<1>1. tx[c] # NoTx /\ InPlan(c) /\ tx[c].day \in Days
  BY DEF Typed, Fits, NoTx, NewTx, NeedsDay
<1> QED
  BY <1>1, CloseDayPlan

\* What a settle_tab may rely on when it commits: its tab, its day and its shift
\* are as it found them.
LEMMA SettleCommits ==
    ASSUME MoneyInv, NEW c \in Clerks, Commits(c, "settle")
    PROVE  /\ tx[c].x \in Tabs /\ tab[tx[c].x].st \in Unpaid
           /\ tab[tx[c].x].day \in Days /\ day[tab[tx[c].x].day].st = "open"
           /\ tx[c].shift \in Shifts \cup {0}
           /\ tx[c].shift # 0 => shift[tx[c].shift].st = "open"
<1>1. Typed /\ tx[c].op = "settle" /\ Held(c)
  BY DEF MoneyInv, Commits
<1>2. tx[c] # NoTx /\ InPlan(c) /\ tx[c].x \in Tabs /\ tx[c] \in Calls
  BY <1>1 DEF Typed, Fits, NoTx, NewTx, MoneyTypeOK, Calls
<1>3. Past(c, "tab") /\ Past(c, "shift")
  BY <1>1, <1>2, SettlePlan DEF Commits
<1>4. tab[tx[c].x].st \in Unpaid
  BY <1>1, <1>3 DEF Commits, Refused, CanSettle
<1>5. tab[tx[c].x].day \in Days /\ day[tab[tx[c].x].day].st = "open"
  <2>1. /\ tab[tx[c].x].day \in Days /\ day[tab[tx[c].x].day].st # "none"
    BY <1>2, <1>4 DEF MoneyInv, RowsInOrder, Unpaid
  <2>2. day[tab[tx[c].x].day].st # "closed"
    BY <1>2, <1>4, <2>1 DEF MoneyInv, Balanced, NothingOpenOnClosedDay, NoOpenTab
  <2> QED
    BY <1>1, <2>1, <2>2 DEF Typed, MoneyTypeOK, RowsTypeOK
<1> QED
  BY <1>1, <1>2, <1>3, <1>4, <1>5 DEF Calls, Held, HoldsStamp

\* What a refund may rely on when it commits.
LEMMA RefundCommits ==
    ASSUME MoneyInv, NEW c \in Clerks, Commits(c, "refund")
    PROVE  /\ tx[c].x \in AllPays
           /\ tx[c].day \in Days /\ day[tx[c].day].st = "open"
           /\ <<"day", tx[c].day, FALSE>> \in locks[c]
           /\ tx[c].shift \in Shifts \cup {0}
           /\ tx[c].shift # 0 => /\ shift[tx[c].shift].st = "open"
                                 /\ shift[tx[c].shift].day = tx[c].day
<1>1. Typed /\ tx[c].op = "refund" /\ Held(c)
  BY DEF MoneyInv, Commits
<1>2. tx[c] # NoTx /\ InPlan(c) /\ tx[c].day \in Days /\ tx[c] \in Calls
  BY <1>1 DEF Typed, Fits, NoTx, NewTx, MoneyTypeOK, Calls, NeedsDay
<1>3. Past(c, "day") /\ Past(c, "seek") /\ Past(c, "shift")
  BY <1>1, <1>2, RefundPlan DEF Commits
<1>4. day[tx[c].day].st = "open"
  BY <1>1, <1>3 DEF Commits, Refused, DayGone
<1> QED
  BY <1>1, <1>2, <1>3, <1>4 DEF Calls, Held, HoldsStamp, HoldsDay, Found

\* What a close_day may rely on when it commits: there is no open tab, and its
\* sums, read without locks, are still those of the day.
LEMMA CloseCommits ==
    ASSUME MoneyInv, NEW c \in Clerks, Commits(c, "closeDay")
    PROVE  /\ tx[c].day \in Days /\ day[tx[c].day].st = "open"
           /\ NoOpenTab(tx[c].day) /\ Past(c, "day")
           /\ \A s \in OpenShifts(tx[c].day) : <<"shift", s, TRUE>> \in locks[c]
           /\ tx[c].took = PaidOn(tx[c].day) /\ tx[c].gave = GivenOn(tx[c].day)
<1>1. Typed /\ tx[c].op = "closeDay" /\ Held(c)
  BY DEF MoneyInv, Commits
<1>2. InPlan(c) /\ tx[c].day \in Days
  BY <1>1, ClosingOrder
<1>3. Past(c, "day") /\ Past(c, "look") /\ Past(c, "shift") /\ Past(c, "sum")
  BY <1>1, <1>2, CloseDayPlan DEF Commits
<1> QED
  BY <1>1, <1>2, <1>3 DEF Held, Closing, HoldsShifts, Added

-----------------------------------------------------------------------------
(* Steps that write no row *)

\* An empty till satisfies the invariant.
LEMMA MoneyInitInv == Init => MoneyInv
<1> SUFFICES ASSUME Init PROVE MoneyInv
  OBVIOUS
<1>1. Typed
  BY MoneyInitTyped
<1>2. AllPays = {} /\ AllRefs = {}
  BY DEF Init, RowsInit, AllPays, AllRefs
<1>3. /\ \A d \in Days : day[d].st = "none"
      /\ \A t \in Tabs : tab[t].st = "none"
      /\ \A s \in Shifts : shift[s].st = "none"
  BY DEF Init, RowsInit
<1>4. RowsInOrder
  BY <1>2, <1>3 DEF RowsInOrder
<1>5. Balanced
  BY <1>3 DEF Balanced, NothingOpenOnClosedDay, ClosedDayBalances,
              ClosedShiftBalances
<1>6. LocksFit
  BY DEF Init, LocksFit
<1>7. \A c \in Clerks : Held(c)
  BY IdleHolds DEF Init
<1> QED
  BY <1>1, <1>4, <1>5, <1>6, <1>7 DEF MoneyInv

\* Rows that did not change are still in order and still balanced.
LEMMA SameRows ==
    ASSUME RowsInOrder, Balanced, UNCHANGED rows
    PROVE  RowsInOrder' /\ Balanced'
  BY DEF RowsInOrder, Balanced, NothingOpenOnClosedDay, ClosedDayBalances,
         ClosedShiftBalances, rows, AllPays, AllRefs, NoOpenTab, OpenShifts,
         CountedOn

\* Where no row changed, a call that did not move knows what it knew.
LEMMA SameHeld ==
    ASSUME NEW c \in Clerks, Held(c), UNCHANGED rows,
           tx'[c] = tx[c], locks'[c] = locks[c]
    PROVE  Held(c)'
<1>1. \A k : Past(c, k)' <=> Past(c, k)
  BY SamePast
<1>2. HoldsDay(c)'
  BY SameLocks DEF Held
<1>3. UNCHANGED <<day, shift, tab, pay, ref>>
  BY DEF rows
<1>4. Closing(c)'
  BY <1>1, <1>3 DEF Held, Closing, NoOpenTab
<1>5. HoldsShifts(c)'
  BY <1>1, <1>3 DEF Held, HoldsShifts, OpenShifts
<1>6. Added(c)'
  <2>1. \A d : PaidOn(d)' = PaidOn(d) /\ GivenOn(d)' = GivenOn(d)
    BY <1>3, SameSums
  <2> QED
    BY <1>1, <2>1 DEF Held, Added
<1>7. Found(c)'
  BY <1>1, <1>3 DEF Held, Found
<1>8. HoldsStamp(c)'
  BY <1>1, <1>3 DEF Held, HoldsStamp
<1>9. tx'[c].op = "refund" => tx'[c].x \in AllPays'
  BY <1>3 DEF Held, AllPays
<1> QED
  BY <1>2, <1>4, <1>5, <1>6, <1>7, <1>8, <1>9 DEF Held

\* A call that goes a step on is past that step as well.
LEMMA PastReads ==
    ASSUME Typed, NEW c \in Clerks, tx[c].op # "idle", Step(c) # "commit",
           tx'[c].op = tx[c].op, tx'[c].pc = tx[c].pc + 1
    PROVE  \A k : Past(c, k)' <=> Past(c, k) \/ Step(c) = k
<1>1. InPlan(c)
  BY DEF Typed, Fits, NoTx, NewTx
<1>2. tx[c].pc \in 1..Len(Plan(tx[c].op)) /\ Step(c) = Plan(tx[c].op)[tx[c].pc]
  <2>1. tx[c].pc \in 1..7
    BY <1>1 DEF InPlan
  <2>2. ~(tx[c].pc > Len(Plan(tx[c].op)))
    BY DEF Step
  <2>3. Len(Plan(tx[c].op)) \in Nat
    BY <1>1 DEF InPlan, Plan, ClosePlan
  <2> QED
    BY <2>1, <2>2, <2>3 DEF Step
<1>3. tx[c].pc \in Nat \ {0}
  BY <1>1 DEF InPlan
<1>4. \A i : i \in 1..(tx'[c].pc - 1) <=> i \in 1..(tx[c].pc - 1) \/ i = tx[c].pc
  BY <1>3
<1> QED
  BY <1>2, <1>4 DEF Past

\* To keep the invariant, a step that writes no row has to keep what its own
\* call relies on, and its locks clear of the others'.
LEMMA OwnStep ==
    ASSUME MoneyInv, Typed', NEW c \in Clerks, UNCHANGED rows,
           \A e \in Clerks : e # c => tx'[e] = tx[e] /\ locks'[e] = locks[e],
           Held(c)',
           \A e \in Clerks : e # c =>
              \A l \in locks'[c], m \in locks[e] : ~Clash(l, m)
    PROVE  MoneyInv'
<1>1. RowsInOrder' /\ Balanced'
  BY SameRows DEF MoneyInv
<1>2. \A e \in Clerks : Held(e)'
  BY SameHeld DEF MoneyInv
<1>3. LocksFit'
  <2>1. \A l, m : Clash(l, m) <=> Clash(m, l)
    BY DEF Clash
  <2>2. ASSUME NEW a \in Clerks, NEW b \in Clerks, a # b,
               NEW l \in locks'[a], NEW m \in locks'[b]
        PROVE  ~Clash(l, m)
    <3>1. CASE a = c
      BY <2>2, <3>1
    <3>2. CASE b = c
      BY <2>1, <2>2, <3>2
    <3>3. CASE a # c /\ b # c
      BY <2>2, <3>3 DEF MoneyInv, LocksFit
    <3> QED
      BY <3>1, <3>2, <3>3
  <2> QED
    BY <2>2 DEF LocksFit, Clash
<1> QED
  BY <1>1, <1>2, <1>3 DEF MoneyInv

\* A call that begins knows nothing yet.
LEMMA BeginKeeps ==
    ASSUME MoneyInv, Typed', NEW c \in Clerks,
           NEW op \in Ops, NEW x \in Args, NEW y \in Args, Begin(c, op, x, y)
    PROVE  MoneyInv'
<1>1. /\ tx' = [tx EXCEPT ![c] = NewTx(op, x, y, IF op \in NeedsDay
                                                 THEN CurrentOpenDay ELSE 0)]
      /\ UNCHANGED <<rows, locks>> /\ Offered(op, x, y)
  BY DEF Begin
<1>2. tx \in [Clerks -> Calls] /\ locks \in [Clerks -> SUBSET Locks]
  BY DEF MoneyInv, Typed, MoneyTypeOK, Calls
<1>3. tx'[c].pc = 1 /\ tx'[c].op = op /\ tx'[c].x = x
  BY <1>1, <1>2 DEF NewTx
<1>4. \A k : ~Past(c, k)'
  BY <1>3 DEF Past
<1>5. op = "refund" => x \in AllPays
  BY <1>1 DEF Offered
<1>6. AllPays' = AllPays
  BY <1>1 DEF rows, AllPays
<1>7. Held(c)'
  BY <1>3, <1>4, <1>5, <1>6 DEF Held, HoldsDay, Closing, HoldsShifts, Added,
                               Found, HoldsStamp
<1>8. \A e \in Clerks : e # c => tx'[e] = tx[e] /\ locks'[e] = locks[e]
  BY <1>1, <1>2
<1>9. \A e \in Clerks : e # c =>
         \A l \in locks'[c], m \in locks[e] : ~Clash(l, m)
  BY <1>1 DEF MoneyInv, LocksFit
<1> QED
  BY <1>1, <1>7, <1>8, <1>9, OwnStep

\* A call that is rolled back leaves nothing behind.
LEMMA RollbackKeeps ==
    ASSUME MoneyInv, Typed', NEW c \in Clerks, Rollback(c)
    PROVE  MoneyInv'
<1>1. /\ tx' = [tx EXCEPT ![c] = NoTx] /\ locks' = [locks EXCEPT ![c] = {}]
      /\ UNCHANGED rows
  BY DEF Rollback
<1>2. tx \in [Clerks -> Calls] /\ locks \in [Clerks -> SUBSET Locks]
  BY DEF MoneyInv, Typed, MoneyTypeOK, Calls
<1>4. tx'[c].op = "idle" /\ locks'[c] = {}
  BY <1>1, <1>2 DEF NoTx, NewTx
<1>5. Held(c)'
  BY <1>4 DEF Held, HoldsDay, Closing, HoldsShifts, Added, Found, HoldsStamp
<1>6. \A e \in Clerks : e # c => tx'[e] = tx[e] /\ locks'[e] = locks[e]
  BY <1>1, <1>2
<1> QED
  BY <1>1, <1>4, <1>5, <1>6, OwnStep

\* A call goes a step on: what it relied on it still relies on.
LEMMA StepsKeep ==
    ASSUME MoneyInv, Typed', NEW c \in Clerks,
           Lock(c) \/ Seek(c) \/ Find(c) \/ Spend(c) \/ Look(c) \/ Sum(c)
    PROVE  MoneyInv'
<1>1. /\ tx \in [Clerks -> Calls] /\ tx[c] \in Calls
      /\ locks \in [Clerks -> SUBSET Locks] /\ Typed /\ Held(c)
  BY DEF MoneyInv, Typed, MoneyTypeOK, Calls
<1>2. UNCHANGED rows
  BY DEF Lock, Seek, Find, Spend, Look, Sum
<1>3. /\ tx[c].op # "idle" /\ ~Refused(c)
      /\ Step(c) \in {"day", "key", "tab", "first", "second", "shift", "seek",
                      "find", "grant", "look", "sum"}
  BY DEF Lock, Seek, Find, Spend, Look, Sum, Proceeds
<1>4. InPlan(c) /\ Fits(c) /\ tx[c] # NoTx
  BY <1>1, <1>3 DEF Typed, Fits, NoTx, NewTx
<1>5. /\ tx'[c].op = tx[c].op /\ tx'[c].pc = tx[c].pc + 1
      /\ tx'[c].x = tx[c].x /\ tx'[c].day = tx[c].day
  <2>1. \/ tx'[c] = Reads(c)
        \/ \E v : tx'[c] = [Reads(c) EXCEPT !.shift = v]
        \/ \E v : tx'[c] = [Reads(c) EXCEPT !.at = v]
        \/ \E v : tx'[c] = [Reads(c) EXCEPT !.grant = v]
        \/ \E v, w : tx'[c] = [Reads(c) EXCEPT !.took = v, !.gave = w]
    <3>1. CASE Lock(c)
      BY <1>1, <3>1 DEF Lock
    <3>2. CASE Seek(c)
      BY <1>1, <3>2 DEF Seek
    <3>3. CASE Find(c)
      BY <1>1, <3>3 DEF Find
    <3>4. CASE Spend(c)
      BY <1>1, <3>4 DEF Spend
    <3>5. CASE Look(c)
      BY <1>1, <3>5 DEF Look
    <3>6. CASE Sum(c)
      BY <1>1, <3>6 DEF Sum
    <3> QED
      BY <3>1, <3>2, <3>3, <3>4, <3>5, <3>6
  <2>2. /\ Reads(c).op = tx[c].op /\ Reads(c).pc = tx[c].pc + 1
        /\ Reads(c).x = tx[c].x /\ Reads(c).day = tx[c].day
        /\ DOMAIN Reads(c) = {"op", "pc", "x", "y", "day", "shift", "grant",
                              "at", "took", "gave"}
    BY <1>1 DEF Reads, Calls
  <2> QED
    BY <2>1, <2>2
<1>6. \A k : Past(c, k)' <=> Past(c, k) \/ Step(c) = k
  BY <1>1, <1>3, <1>5, PastReads
<1>7. \A e \in Clerks : e # c => tx'[e] = tx[e] /\ locks'[e] = locks[e]
  BY <1>1 DEF Lock, Seek, Find, Spend, Look, Sum
<1>8. locks[c] \subseteq locks'[c]
  BY <1>1 DEF Lock, Seek, Find, Spend, Look, Sum
<1>9. \A e \in Clerks : e # c =>
         \A l \in locks'[c], m \in locks[e] : ~Clash(l, m)
  <2>1. CASE Lock(c)
    <3>1. locks'[c] = locks[c] \cup Asks(c) /\ ~Taken(Clerks \ {c}, Asks(c))
      BY <1>1, <2>1 DEF Lock
    <3>2. \A e \in Clerks : e # c =>
             \A l \in Asks(c), m \in locks[e] : ~Clash(l, m)
      BY <3>1 DEF Taken, Clash
    <3> QED
      BY <3>1, <3>2 DEF MoneyInv, LocksFit
  <2>2. CASE ~Lock(c)
    <3>1. locks' = locks
      BY <2>2 DEF Seek, Find, Spend, Look, Sum
    <3> QED
      BY <3>1 DEF MoneyInv, LocksFit
  <2> QED
    BY <2>1, <2>2
<1>10. Step(c) \in {"day", "shift"} => Lock(c)
  BY DEF Seek, Find, Spend, Look, Sum, Proceeds
<1>11. Lock(c) => Asks(c) \subseteq locks'[c]
  BY <1>1 DEF Lock
<1>12. UNCHANGED <<day, shift, tab, pay, ref>>
  BY <1>2 DEF rows
<1>13. Step(c) = "day" => ~Past(c, "look")
  BY <1>4, SettlePlan, RefundPlan, VoidPlan, MergePlan, CloseDayPlan DEF InPlan
<1>14. HoldsDay(c)'
  <2>1. Step(c) = "day" =>
           <<"day", tx[c].day, tx[c].op = "closeDay">> \in locks'[c]
    BY <1>10, <1>11 DEF Asks
  <2> QED
    BY <1>1, <1>5, <1>6, <1>8, <2>1 DEF Held, HoldsDay
<1>15. Closing(c)'
  <2>1. CASE tx[c].op = "closeDay" /\ Step(c) = "look"
    <3>1. Past(c, "day") /\ tx[c].day \in Days
      BY <1>1, <1>4, <2>1, CloseDayPlan DEF Fits, NeedsDay
    <3>2. day[tx[c].day].st = "open" /\ NoOpenTab(tx[c].day)
      BY <1>3, <2>1, <3>1 DEF Refused, DayGone
    <3> QED
      BY <1>5, <1>12, <3>2 DEF Closing, NoOpenTab
  <2>2. CASE ~(tx[c].op = "closeDay" /\ Step(c) = "look")
    BY <1>1, <1>5, <1>6, <1>12, <2>2 DEF Held, Closing, NoOpenTab
  <2> QED
    BY <2>1, <2>2
<1>16. HoldsShifts(c)'
  <2>1. tx[c].op = "closeDay" /\ Step(c) = "shift" =>
           \A s \in OpenShifts(tx[c].day) : <<"shift", s, TRUE>> \in locks'[c]
    BY <1>10, <1>11 DEF Asks, ShiftLock
  <2> QED
    BY <1>1, <1>5, <1>6, <1>8, <1>12, <2>1 DEF Held, HoldsShifts, OpenShifts
<1>17. Added(c)'
  <2>1. /\ \A d : PaidOn(d)' = PaidOn(d) /\ GivenOn(d)' = GivenOn(d)
    BY <1>12, SameSums
  <2>2. CASE tx[c].op = "closeDay" /\ Step(c) = "sum"
    <3>1. Sum(c)
      BY <2>2 DEF Lock, Seek, Find, Spend, Look, Proceeds
    <3>2. tx'[c].took = PaidOn(tx[c].day) /\ tx'[c].gave = GivenOn(tx[c].day)
      BY <1>1, <3>1 DEF Sum, Reads, Calls, PaidOn, GivenOn
    <3> QED
      BY <1>5, <2>1, <3>2 DEF Added
  <2>3. CASE tx[c].op = "closeDay" /\ Step(c) # "sum" /\ Past(c, "sum")
    BY <1>3, <1>4, <2>3, CloseDayPlan
  <2> QED
    BY <1>5, <1>6, <2>2, <2>3 DEF Added
<1>18. Found(c)' /\ HoldsStamp(c)'
  <2>1. CASE tx[c].op \notin {"settle", "refund"}
    BY <1>5, <2>1 DEF Found, HoldsStamp
  <2>2. CASE tx[c].op \in {"settle", "refund"} /\ Step(c) = "seek"
    <3>1. Seek(c)
      BY <2>2 DEF Lock, Find, Spend, Look, Sum, Proceeds
    <3> DEFINE d == IF tx[c].op = "settle" THEN tab[tx[c].x].day
                                           ELSE CurrentOpenDay
    <3>2. tx'[c].shift = IF OpenShifts(d) = {} THEN 0
                         ELSE CHOOSE s \in OpenShifts(d) : TRUE
      BY <1>1, <3>1 DEF Seek, Reads, Calls
    <3>3. tx'[c].shift # 0 => /\ shift[tx'[c].shift].st = "open"
                              /\ shift[tx'[c].shift].day = d
      BY <3>2 DEF OpenShifts
    <3>4. tx[c].op = "refund" => d = tx[c].day
      <4>1. SUFFICES ASSUME tx[c].op = "refund" PROVE CurrentOpenDay = tx[c].day
        OBVIOUS
      <4>2. Past(c, "day") /\ tx[c].day \in Days
        BY <1>4, <2>2, <4>1, RefundPlan DEF Fits, NeedsDay
      <4>3. day[tx[c].day].st = "open"
        BY <1>3, <4>2 DEF Refused, DayGone
      <4> QED
        BY <1>1, <4>2, <4>3, OneOpenDay DEF MoneyInv
    <3>5. ~Past(c, "shift")
      BY <1>4, <2>2, SettlePlan, RefundPlan
    <3> HIDE DEF d
    <3>6. Found(c)'
      BY <1>5, <1>12, <3>3, <3>4 DEF Found
    <3>7. HoldsStamp(c)'
      BY <1>6, <2>2, <3>5 DEF HoldsStamp
    <3> QED
      BY <3>6, <3>7
  <2>3. CASE tx[c].op \in {"settle", "refund"} /\ Step(c) = "shift"
    <3>1. Lock(c)
      BY <1>10, <2>3
    <3>2. tx'[c].shift = StillOpen(tx[c].shift)
      BY <1>1, <2>3, <3>1 DEF Lock, Reads, Calls
    <3>3. Past(c, "seek")
      BY <1>4, <2>3, SettlePlan, RefundPlan
    <3>4. tx'[c].shift # 0 => /\ tx'[c].shift = tx[c].shift
                              /\ shift[tx[c].shift].st = "open"
      BY <3>2 DEF StillOpen
    <3>5. tx'[c].shift # 0 => <<"shift", tx[c].shift, FALSE>> \in locks'[c]
      BY <1>11, <2>3, <3>1, <3>4 DEF Asks, ShiftLock
    <3>6. Found(c)'
      BY <1>1, <1>5, <1>12, <3>3, <3>4 DEF Found, Held
    <3>7. HoldsStamp(c)'
      BY <1>5, <1>12, <3>4, <3>5 DEF HoldsStamp
    <3> QED
      BY <3>6, <3>7
  <2>4. CASE tx[c].op \in {"settle", "refund"} /\ Step(c) \notin {"seek", "shift"}
    <3>1. tx'[c].shift = tx[c].shift
      <4>1. CASE Lock(c)
        BY <1>1, <2>4, <4>1 DEF Lock, Reads, Calls
      <4>2. CASE Spend(c)
        BY <1>1, <4>2 DEF Spend, Reads, Calls
      <4>3. CASE Find(c) \/ Look(c) \/ Sum(c)
        BY <1>1, <4>3 DEF Find, Look, Sum, Reads, Calls
      <4>4. ~Seek(c)
        BY <2>4 DEF Seek, Proceeds
      <4> QED
        BY <4>1, <4>2, <4>3, <4>4
    <3>2. Found(c)'
      BY <1>1, <1>5, <1>6, <1>12, <2>4, <3>1 DEF Found, Held
    <3>3. HoldsStamp(c)'
      BY <1>1, <1>5, <1>6, <1>8, <1>12, <2>4, <3>1 DEF HoldsStamp, Held
    <3> QED
      BY <3>2, <3>3
  <2> QED
    BY <2>1, <2>2, <2>3, <2>4
<1>19. tx'[c].op = "refund" => tx'[c].x \in AllPays'
  BY <1>1, <1>5, <1>12 DEF Held, AllPays
<1>20. Held(c)'
  BY <1>14, <1>15, <1>16, <1>17, <1>18, <1>19 DEF Held
<1> QED
  BY <1>2, <1>7, <1>9, <1>20, OwnStep

-----------------------------------------------------------------------------
(* Steps that write rows *)

\* What a call may count on while others write.
LEMMA StillHeld ==
    ASSUME Typed, NEW e \in Clerks, Held(e),
           tx'[e] = tx[e], locks'[e] = locks[e],
           tx[e].op = "closeDay" /\ Past(e, "look") =>
              day'[tx[e].day].st = "open" /\ NoOpenTab(tx[e].day)',
           tx[e].op = "closeDay" /\ Past(e, "shift") =>
              OpenShifts(tx[e].day)' \subseteq OpenShifts(tx[e].day),
           tx[e].op = "closeDay" /\ Past(e, "sum") =>
              /\ PaidOn(tx[e].day)' = PaidOn(tx[e].day)
              /\ GivenOn(tx[e].day)' = GivenOn(tx[e].day),
           \A s \in Shifts : shift[s].st # "none" =>
              shift'[s].st # "none" /\ shift'[s].day = shift[s].day,
           \A s \in Shifts :
              shift[s].st = "open" /\ <<"shift", s, FALSE>> \in locks[e] =>
                 shift'[s].st = "open",
           AllPays \subseteq AllPays'
    PROVE  Held(e)'
<1>1. \A k : Past(e, k)' <=> Past(e, k)
  BY SamePast
<1>2. HoldsDay(e)'
  BY SameLocks DEF Held
<1>3. Closing(e)'
  BY <1>1 DEF Closing
<1>4. HoldsShifts(e)'
  BY <1>1 DEF Held, HoldsShifts
<1>5. Added(e)'
  BY <1>1 DEF Held, Added
<1>6. tx[e].shift \in Shifts \cup {0}
  BY DEF Typed, MoneyTypeOK
<1>7. Found(e)'
  BY <1>1, <1>6 DEF Held, Found
<1>8. HoldsStamp(e)'
  BY <1>1, <1>6 DEF Held, HoldsStamp
<1>9. tx'[e].op = "refund" => tx'[e].x \in AllPays'
  BY DEF Held
<1> QED
  BY <1>2, <1>3, <1>4, <1>5, <1>7, <1>8, <1>9 DEF Held

\* Who ends gives its locks back; the others keep theirs.
LEMMA EndsFit ==
    ASSUME MoneyInv, NEW c \in Clerks, Ends(c)
    PROVE  /\ LocksFit' /\ Held(c)'
           /\ \A e \in Clerks : e # c => tx'[e] = tx[e] /\ locks'[e] = locks[e]
<1>1. tx \in [Clerks -> Calls] /\ locks \in [Clerks -> SUBSET Locks]
  BY DEF MoneyInv, Typed, MoneyTypeOK, Calls
<1>2. tx'[c].op = "idle" /\ locks'[c] = {}
  BY <1>1 DEF Ends, NoTx, NewTx
<1>3. Held(c)'
  BY <1>2 DEF Held, HoldsDay, Closing, HoldsShifts, Added, Found, HoldsStamp
<1>4. \A e \in Clerks : e # c => tx'[e] = tx[e] /\ locks'[e] = locks[e]
  BY <1>1 DEF Ends
<1>5. \A e \in Clerks : locks'[e] \subseteq locks[e]
  BY <1>2, <1>4
<1>6. LocksFit'
  BY <1>5 DEF MoneyInv, LocksFit, Clash
<1> QED
  BY <1>3, <1>4, <1>6

\* The commit of settle_tab.
LEMMA SettleKeeps ==
    ASSUME MoneyInv, Typed', NEW c \in Clerks, SettleTab(c)
    PROVE  MoneyInv'
<1> DEFINE t == tx[c].x
           d == tab[t].day
           s == tx[c].shift
<1>1. /\ t \in Tabs /\ tab[t].st \in Unpaid
      /\ d \in Days /\ day[d].st = "open"
      /\ s \in Shifts \cup {0} /\ (s # 0 => shift[s].st = "open")
  BY SettleCommits DEF SettleTab
<1>2. PICK p \in Pays, amt \in 1..Due(t) :
        /\ NextId(p, MaxPays, AllPays)
        /\ pay' = [pay EXCEPT ![p] = [tab |-> t, day |-> d, amt |-> amt,
                                      shift |-> s]]
        /\ tab' = [tab EXCEPT ![t] =
                     [@ EXCEPT !.total = Stamp(t),
                               !.st = IF amt = Due(t) THEN "settled"
                                                      ELSE "awaiting"]]
  BY DEF SettleTab
<1>3. Ends(c) /\ UNCHANGED <<day, shift, line, disc, ref, grant>>
  BY DEF SettleTab
<1>4. Typed /\ RowsInOrder /\ Balanced
  BY DEF MoneyInv
<1> DEFINE row == [tab |-> t, day |-> d, amt |-> amt, shift |-> s]
<1>5. p \in Pays \ AllPays
  BY <1>2 DEF NextId
<1>6. /\ AllPays' = AllPays \cup {p} /\ AllRefs' = AllRefs
      /\ pay'[p] = row /\ \A q \in AllPays : pay'[q] = pay[q]
      /\ \A f : /\ f # d => PaidOn(f)' = PaidOn(f)
                /\ GivenOn(f)' = GivenOn(f) /\ MadeOn(f)' = MadeOn(f)
      /\ \A f : /\ f # s => PaidIn(f)' = PaidIn(f)
                /\ GivenIn(f)' = GivenIn(f)
  <2>1. row.tab \in Tabs /\ row.day = d /\ row.shift = s
    BY <1>1
  <2>2. pay' = [pay EXCEPT ![p] = row]
    BY <1>2
  <2> HIDE DEF row
  <2> QED
    BY <1>3, <1>4, <1>5, <2>1, <2>2, SumsOfPayment
<1>7. /\ \A u \in Tabs : tab'[u].day = tab[u].day
      /\ \A u \in Tabs : tab'[u].st \in Unpaid => tab[u].st \in Unpaid
      /\ \A u \in Tabs : tab'[u].st # "none" => tab[u].st # "none"
  <2>1. tab \in [Tabs -> TabRows]
    BY <1>4, RowsTyped DEF Typed, MoneyTypeOK
  <2>2. /\ \A u \in Tabs : u # t => tab'[u] = tab[u]
        /\ tab'[t].day = tab[t].day
    BY <1>1, <1>2, <2>1 DEF TabRows
  <2> QED
    BY <1>1, <2>2 DEF Unpaid
<1>8. \A f : NoOpenTab(f) => NoOpenTab(f)'
  BY <1>7 DEF NoOpenTab
<1>9. ~NoOpenTab(d)
  BY <1>1 DEF NoOpenTab
<1>10. RowsInOrder'
  <2>1. \A q \in AllPays' : /\ pay'[q].day \in Days /\ day[pay'[q].day].st # "none"
                            /\ pay'[q].shift # 0 => shift[pay'[q].shift].st # "none"
    BY <1>1, <1>4, <1>6 DEF RowsInOrder
  <2>2. \A r \in AllRefs : pay'[ref[r].pay] = pay[ref[r].pay]
    BY <1>4, <1>6 DEF RowsInOrder
  <2> QED
    BY <1>3, <1>4, <1>6, <1>7, <2>1, <2>2 DEF RowsInOrder
<1>11. Balanced'
  <2>1. NothingOpenOnClosedDay'
    BY <1>3, <1>4, <1>8 DEF Balanced, NothingOpenOnClosedDay, OpenShifts
  <2>2. ClosedDayBalances'
    <3>1. \A f \in Days : day[f].st = "closed" =>
             PaidOn(f)' = PaidOn(f) /\ MadeOn(f)' = MadeOn(f)
      BY <1>1, <1>6
    <3> QED
      BY <1>3, <1>4, <3>1 DEF Balanced, ClosedDayBalances, PaidOn, MadeOn
  <2>3. ClosedShiftBalances'
    <3>1. \A f \in Shifts : shift[f].st = "closed" =>
             PaidIn(f)' = PaidIn(f) /\ GivenIn(f)' = GivenIn(f)
      BY <1>1, <1>6, Ids
    <3> QED
      BY <1>3, <1>4, <3>1 DEF Balanced, ClosedShiftBalances, PaidIn, GivenIn
  <2> QED
    BY <2>1, <2>2, <2>3 DEF Balanced
<1>12. ASSUME NEW e \in Clerks, e # c PROVE Held(e)'
  <2>1. Held(e) /\ tx'[e] = tx[e] /\ locks'[e] = locks[e]
    BY <1>3, <1>12, EndsFit DEF MoneyInv
  <2>2. tx[e].op = "closeDay" /\ Past(e, "look") =>
           /\ day[tx[e].day].st = "open" /\ NoOpenTab(tx[e].day)
    BY <2>1 DEF Held, Closing
  <2>3. tx[e].op = "closeDay" /\ Past(e, "sum") =>
           /\ PaidOn(tx[e].day)' = PaidOn(tx[e].day)
           /\ GivenOn(tx[e].day)' = GivenOn(tx[e].day)
    BY <1>4, <1>6, <1>9, <2>1, <2>2, ClosingOrder
  <2> HIDE DEF t, d, s, row
  <2> QED
    BY <1>3, <1>4, <1>6, <1>8, <2>1, <2>2, <2>3, StillHeld DEF OpenShifts
<1> QED
  BY <1>3, <1>10, <1>11, <1>12, EndsFit DEF MoneyInv

\* The commit of refund.
LEMMA RefundKeeps ==
    ASSUME MoneyInv, Typed', NEW c \in Clerks, Refund(c)
    PROVE  MoneyInv'
<1> DEFINE d == tx[c].day
           s == tx[c].shift
<1>1. /\ tx[c].x \in AllPays /\ tx[c].op = "refund"
      /\ d \in Days /\ day[d].st = "open"
      /\ <<"day", d, FALSE>> \in locks[c]
      /\ s \in Shifts \cup {0}
      /\ s # 0 => shift[s].st = "open" /\ shift[s].day = d
  BY RefundCommits DEF Refund, Commits
<1>2. PICK r \in Refs :
        /\ NextId(r, MaxRefs, AllRefs)
        /\ ref' = [ref EXCEPT ![r] = [pay |-> tx[c].x, amt |-> Given(tx[c].y),
                                      shift |-> s, made |-> d,
                                      auth |-> tx[c].grant]]
  BY DEF Refund
<1>3. Ends(c) /\ UNCHANGED <<day, shift, tab, line, disc, pay>>
  BY DEF Refund
<1>4. Typed /\ RowsInOrder /\ Balanced
  BY DEF MoneyInv
<1> DEFINE row == [pay |-> tx[c].x, amt |-> Given(tx[c].y), shift |-> s,
                   made |-> d, auth |-> tx[c].grant]
<1>5. r \in Refs \ AllRefs
  BY <1>2 DEF NextId
<1>6. /\ AllPays' = AllPays /\ AllRefs' = AllRefs \cup {r}
      /\ ref'[r] = row /\ \A q \in AllRefs : ref'[q] = ref[q]
      /\ \A f : /\ PaidOn(f)' = PaidOn(f)
                /\ f # d => MadeOn(f)' = MadeOn(f)
      /\ \A f : /\ f # s => GivenIn(f)' = GivenIn(f)
                /\ PaidIn(f)' = PaidIn(f)
  <2>1. row.pay \in Pays /\ row.made = d /\ row.shift = s
    BY <1>1 DEF AllPays
  <2>2. ref' = [ref EXCEPT ![r] = row]
    BY <1>2
  <2> HIDE DEF row
  <2> QED
    BY <1>3, <1>4, <1>5, <2>1, <2>2, SumsOfRefund
<1>7. pay[tx[c].x].day <= d
  <2>1. pay[tx[c].x].day \in Days /\ day[pay[tx[c].x].day].st # "none"
    BY <1>1, <1>4 DEF RowsInOrder
  <2>2. ~(d < pay[tx[c].x].day)
    BY <1>1, <1>4, <2>1 DEF RowsInOrder
  <2> QED
    BY <1>1, <2>1, <2>2, Ids
<1>8. RowsInOrder'
  <2>1. /\ row.pay = tx[c].x /\ row.made = d /\ row.shift = s
    OBVIOUS
  <2>2. \A q \in AllRefs' :
           /\ ref'[q].pay \in AllPays /\ ref'[q].made \in Days
           /\ day[ref'[q].made].st # "none"
           /\ pay[ref'[q].pay].day <= ref'[q].made
           /\ ref'[q].shift # 0 => /\ shift[ref'[q].shift].st # "none"
                                   /\ shift[ref'[q].shift].day = ref'[q].made
    <3> HIDE DEF row
    <3> QED
      BY <1>1, <1>4, <1>6, <1>7, <2>1 DEF RowsInOrder
  <2> QED
    BY <1>3, <1>4, <1>6, <2>2 DEF RowsInOrder
<1>9. Balanced'
  <2>1. NothingOpenOnClosedDay'
    BY <1>3, <1>4 DEF Balanced, NothingOpenOnClosedDay, NoOpenTab, OpenShifts
  <2>2. ClosedDayBalances'
    <3>1. \A f \in Days : day[f].st = "closed" =>
             PaidOn(f)' = PaidOn(f) /\ MadeOn(f)' = MadeOn(f)
      BY <1>1, <1>6
    <3> QED
      BY <1>3, <1>4, <3>1 DEF Balanced, ClosedDayBalances, PaidOn, MadeOn
  <2>3. ClosedShiftBalances'
    <3>1. \A f \in Shifts : shift[f].st = "closed" =>
             PaidIn(f)' = PaidIn(f) /\ GivenIn(f)' = GivenIn(f)
      BY <1>1, <1>6, Ids
    <3> QED
      BY <1>3, <1>4, <3>1 DEF Balanced, ClosedShiftBalances, PaidIn, GivenIn
  <2> QED
    BY <2>1, <2>2, <2>3 DEF Balanced
<1>10. ASSUME NEW e \in Clerks, e # c PROVE Held(e)'
  <2>1. Held(e) /\ tx'[e] = tx[e] /\ locks'[e] = locks[e]
    BY <1>3, <1>10, EndsFit DEF MoneyInv
  <2>2. ~(tx[e].op = "closeDay" /\ Past(e, "look"))
    <3> SUFFICES ASSUME tx[e].op = "closeDay", Past(e, "look") PROVE FALSE
      OBVIOUS
    <3>1. day[tx[e].day].st = "open" /\ tx[e].day \in Days /\ Past(e, "day")
      BY <1>4, <2>1, ClosingOrder DEF Held, Closing
    <3>2. tx[e].day = d
      BY <1>1, <1>4, <3>1, OneOpenDay
    <3> QED
      BY <1>1, <1>10, <3>1, <3>2, DayIsAlone
  <2>3. ~(tx[e].op = "closeDay" /\ (Past(e, "sum") \/ Past(e, "shift")))
    BY <1>4, <2>2, ClosingOrder
  <2> HIDE DEF d, s, row
  <2> QED
    BY <1>3, <1>4, <1>6, <2>1, <2>2, <2>3, StillHeld
<1> QED
  BY <1>3, <1>8, <1>9, <1>10, EndsFit DEF MoneyInv

\* The commit of void_after_send.
LEMMA VoidKeeps ==
    ASSUME MoneyInv, Typed', NEW c \in Clerks, VoidAfterSend(c)
    PROVE  MoneyInv'
<1>1. Ends(c) /\ UNCHANGED <<day, shift, tab, disc, pay, ref>>
  BY DEF VoidAfterSend
<1>2. Typed /\ RowsInOrder /\ Balanced
  BY DEF MoneyInv
<1>3. /\ AllPays' = AllPays /\ AllRefs' = AllRefs
      /\ \A d : PaidOn(d)' = PaidOn(d) /\ GivenOn(d)' = GivenOn(d)
      /\ \A d : OpenShifts(d)' = OpenShifts(d)
  BY <1>1, SameSums
<1>4. \A d : NoOpenTab(d)' = NoOpenTab(d)
  BY <1>1 DEF NoOpenTab
<1>5. RowsInOrder'
  BY <1>1, <1>2, <1>3 DEF RowsInOrder
<1>6. Balanced'
  BY <1>1, <1>2 DEF Balanced, NothingOpenOnClosedDay, ClosedDayBalances,
     ClosedShiftBalances, AllPays, AllRefs, NoOpenTab, OpenShifts, CountedOn
<1>7. ASSUME NEW e \in Clerks, e # c PROVE Held(e)'
  <2>1. Held(e) /\ tx'[e] = tx[e] /\ locks'[e] = locks[e]
    BY <1>1, <1>7, EndsFit DEF MoneyInv
  <2>2. tx[e].op = "closeDay" /\ Past(e, "look") =>
           day[tx[e].day].st = "open" /\ NoOpenTab(tx[e].day)'
    BY <1>1, <2>1 DEF Held, Closing, NoOpenTab
  <2> QED
    BY <1>1, <1>2, <1>3, <2>1, <2>2, StillHeld
<1> QED
  BY <1>1, <1>5, <1>6, <1>7, EndsFit DEF MoneyInv

\* The commit of merge_tabs.
LEMMA MergeKeeps ==
    ASSUME MoneyInv, Typed', NEW c \in Clerks, MergeTabs(c)
    PROVE  MoneyInv'
<1> DEFINE donor == tx[c].x
<1>1. /\ Ends(c) /\ UNCHANGED <<day, shift, pay, ref>>
      /\ tab' = [tab EXCEPT ![donor] = [@ EXCEPT !.st = "void", !.total = 0]]
  BY DEF MergeTabs
<1>2. Typed /\ RowsInOrder /\ Balanced
  BY DEF MoneyInv
<1>3. donor \in Tabs /\ tab[donor].st # "none"
  <2>1. tx[c].op = "merge" /\ tx[c] # NoTx /\ InPlan(c) /\ donor \in Tabs
    BY <1>2 DEF MergeTabs, Commits, Typed, Fits, NoTx, NewTx
  <2>2. Past(c, "second")
    BY <2>1, MergePlan DEF MergeTabs, Commits
  <2>3. CanMerge(donor, tx[c].y)
    BY <2>1, <2>2 DEF MergeTabs, Commits, Refused
  <2> QED
    BY <2>1, <2>3 DEF CanMerge
<1>4. /\ \A u \in Tabs : tab'[u].day = tab[u].day
      /\ \A u \in Tabs : tab'[u].st \in Unpaid => tab[u].st \in Unpaid
      /\ \A u \in Tabs : tab'[u].st # "none" => tab[u].st # "none"
  <2>1. tab \in [Tabs -> TabRows]
    BY <1>2, RowsTyped DEF Typed, MoneyTypeOK
  <2>2. /\ \A u \in Tabs : u # donor => tab'[u] = tab[u]
        /\ tab'[donor].day = tab[donor].day /\ tab'[donor].st = "void"
    BY <1>1, <1>3, <2>1 DEF TabRows
  <2> QED
    BY <1>3, <2>2 DEF Unpaid
<1>5. \A d : NoOpenTab(d) => NoOpenTab(d)'
  BY <1>4 DEF NoOpenTab
<1>6. /\ AllPays' = AllPays /\ AllRefs' = AllRefs
      /\ \A d : PaidOn(d)' = PaidOn(d) /\ GivenOn(d)' = GivenOn(d)
      /\ \A d : OpenShifts(d)' = OpenShifts(d)
  BY <1>1, SameSums
<1>7. RowsInOrder'
  BY <1>1, <1>2, <1>4, <1>6 DEF RowsInOrder
<1>8. Balanced'
  <2>1. NothingOpenOnClosedDay'
    BY <1>1, <1>2, <1>5, <1>6 DEF Balanced, NothingOpenOnClosedDay
  <2>2. ClosedDayBalances' /\ ClosedShiftBalances'
    BY <1>1, <1>2 DEF Balanced, ClosedDayBalances, ClosedShiftBalances,
                      AllPays, AllRefs, CountedOn
  <2> QED
    BY <2>1, <2>2 DEF Balanced
<1>9. ASSUME NEW e \in Clerks, e # c PROVE Held(e)'
  <2>1. Held(e) /\ tx'[e] = tx[e] /\ locks'[e] = locks[e]
    BY <1>1, <1>9, EndsFit DEF MoneyInv
  <2>2. tx[e].op = "closeDay" /\ Past(e, "look") =>
           day[tx[e].day].st = "open" /\ NoOpenTab(tx[e].day)
    BY <2>1 DEF Held, Closing
  <2> HIDE DEF donor
  <2> QED
    BY <1>1, <1>2, <1>5, <1>6, <2>1, <2>2, StillHeld
<1> QED
  BY <1>1, <1>7, <1>8, <1>9, EndsFit DEF MoneyInv

\* The figures a closed shift is stamped with.
LEMMA ClosedFigures ==
    ASSUME Typed, NEW s \in Shifts, NEW g
    PROVE  /\ Closed(s, g).st = "closed" /\ Closed(s, g).day = shift[s].day
           /\ Closed(s, g).took = PaidIn(s) /\ Closed(s, g).gave = GivenIn(s)
<1> DEFINE took == PaidIn(s)
           gave == GivenIn(s)
<1>1. shift[s] \in ShiftRows
  BY RowsTyped DEF Typed, MoneyTypeOK
<1>2. Closed(s, g) = [shift[s] EXCEPT !.st = "closed", !.auth = g,
                                      !.took = took, !.gave = gave]
  BY DEF Closed, PaidIn, GivenIn
<1> HIDE DEF took, gave
<1>3. /\ Closed(s, g).st = "closed" /\ Closed(s, g).day = shift[s].day
      /\ Closed(s, g).took = took /\ Closed(s, g).gave = gave
  BY <1>1, <1>2 DEF ShiftRows
<1> QED
  BY <1>3 DEF took, gave

\* On an open day, the refunds it would count are those made on it.
LEMMA RefundsOfOpenDay ==
    ASSUME Typed, RowsInOrder, NEW d \in Days, day[d].st = "open"
    PROVE  GivenOn(d) = MadeOn(d)
<1>1. ASSUME NEW r \in AllRefs, CountedOn(r) = d PROVE ref[r].made = d
  <2>1. /\ ref[r].made \in Days /\ day[ref[r].made].st # "none"
        /\ pay[ref[r].pay].day <= ref[r].made
    BY DEF RowsInOrder
  <2>2. CASE ref[r].shift # 0
    BY <1>1, <2>2 DEF CountedOn, RowsInOrder
  <2>3. CASE ref[r].shift = 0
    <3>1. d <= ref[r].made
      BY <1>1, <2>1, <2>3 DEF CountedOn
    <3>2. ~(d < ref[r].made)
      BY <2>1 DEF RowsInOrder
    <3> QED
      BY <2>1, <3>1, <3>2, Ids
  <2> QED
    BY <2>2, <2>3
<1> QED
  BY <1>1 DEF GivenOn, MadeOn

\* The commit of close_day.
LEMMA CloseDayKeeps ==
    ASSUME MoneyInv, Typed', NEW c \in Clerks, CloseDay(c)
    PROVE  MoneyInv'
<1> DEFINE d == tx[c].day
           closing == OpenShifts(d)
<1>1. /\ d \in Days /\ day[d].st = "open" /\ NoOpenTab(d) /\ Past(c, "day")
      /\ \A s \in closing : <<"shift", s, TRUE>> \in locks[c]
      /\ tx[c].took = PaidOn(d) /\ tx[c].gave = GivenOn(d)
      /\ tx[c].op = "closeDay"
  BY CloseCommits DEF CloseDay, Commits
<1>2. /\ Ends(c) /\ UNCHANGED <<tab, line, disc, pay, ref, grant>>
      /\ day' = [day EXCEPT ![d] = [st |-> "closed", took |-> tx[c].took,
                                    gave |-> tx[c].gave]]
      /\ shift' = [s \in Shifts |-> IF s \in closing THEN Closed(s, 0)
                                                     ELSE shift[s]]
  BY DEF CloseDay
<1>3. Typed /\ RowsInOrder /\ Balanced
  BY DEF MoneyInv
<1>4. /\ day'[d].st = "closed" /\ day'[d].took = PaidOn(d)
      /\ day'[d].gave = GivenOn(d)
      /\ \A f \in Days : f # d => day'[f] = day[f]
  BY <1>1, <1>2, <1>3, RowsTyped DEF Typed, MoneyTypeOK
<1>5. /\ \A s \in closing : /\ s \in Shifts /\ shift[s].st = "open"
                            /\ shift[s].day = d /\ shift'[s].st = "closed"
                            /\ shift'[s].day = shift[s].day
                            /\ shift'[s].took = PaidIn(s)
                            /\ shift'[s].gave = GivenIn(s)
      /\ \A s \in Shifts : s \notin closing => shift'[s] = shift[s]
  BY <1>2, <1>3, ClosedFigures DEF OpenShifts
<1> HIDE DEF d, closing
<1>6. /\ \A s \in Shifts : shift'[s].day = shift[s].day
      /\ \A s \in Shifts : shift'[s].st # "none" <=> shift[s].st # "none"
      /\ \A s \in Shifts : shift'[s].st = "open" =>
            shift[s].st = "open" /\ shift[s].day # d
  BY <1>5 DEF closing, OpenShifts
<1>7. /\ AllPays' = AllPays /\ AllRefs' = AllRefs
      /\ \A f : /\ PaidOn(f)' = PaidOn(f) /\ GivenOn(f)' = GivenOn(f)
                /\ MadeOn(f)' = MadeOn(f)
      /\ \A s : PaidIn(s)' = PaidIn(s) /\ GivenIn(s)' = GivenIn(s)
  BY <1>2, <1>3, <1>6, SumsOfShifts
<1>8. RowsInOrder'
  <2>1. \A f \in Days : /\ day'[f].st # "none" <=> day[f].st # "none"
                        /\ day[f].st = "closed" => day'[f].st = "closed"
    BY <1>1, <1>4
  <2>2. \A p \in AllPays : pay[p].shift \in Shifts \cup {0}
    BY <1>3 DEF Typed, MoneyTypeOK, RowsTypeOK, AllPays
  <2>3. \A r \in AllRefs : ref[r].shift \in Shifts \cup {0}
    BY <1>3 DEF Typed, MoneyTypeOK, RowsTypeOK, AllRefs
  <2>4. \A p \in AllPays : /\ pay[p].day \in Days /\ day'[pay[p].day].st # "none"
                           /\ pay[p].shift # 0 => shift'[pay[p].shift].st # "none"
    BY <1>3, <1>6, <2>1, <2>2 DEF RowsInOrder
  <2>5. \A r \in AllRefs :
           /\ ref[r].pay \in AllPays /\ ref[r].made \in Days
           /\ day'[ref[r].made].st # "none" /\ pay[ref[r].pay].day <= ref[r].made
           /\ ref[r].shift # 0 => /\ shift'[ref[r].shift].st # "none"
                                  /\ shift'[ref[r].shift].day = ref[r].made
    BY <1>3, <1>6, <2>1, <2>3 DEF RowsInOrder
  <2>6. /\ \A f, e \in Days : f < e /\ day'[e].st # "none" => day'[f].st = "closed"
        /\ \A t \in Tabs : tab[t].st # "none" =>
              tab[t].day \in Days /\ day'[tab[t].day].st # "none"
        /\ \A s \in Shifts : shift'[s].st # "none" =>
              shift'[s].day \in Days /\ day'[shift'[s].day].st # "none"
    BY <1>3, <1>6, <2>1 DEF RowsInOrder
  <2> QED
    BY <1>2, <1>7, <2>4, <2>5, <2>6 DEF RowsInOrder
<1>9. Balanced'
  <2>1. NothingOpenOnClosedDay'
    <3>1. \A f : NoOpenTab(f)' = NoOpenTab(f)
      BY <1>2 DEF NoOpenTab
    <3>2. \A f \in Days : f # d => OpenShifts(f)' \subseteq OpenShifts(f)
      BY <1>6 DEF OpenShifts
    <3>3. \A f \in Days : f = d => OpenShifts(f)' = {}
      BY <1>6 DEF OpenShifts
    <3> QED
      BY <1>1, <1>3, <1>4, <3>1, <3>2, <3>3 DEF Balanced, NothingOpenOnClosedDay
  <2>2. ClosedDayBalances'
    <3>1. GivenOn(d) = MadeOn(d)
      BY <1>1, <1>3, RefundsOfOpenDay
    <3>2. \A f \in Days : day'[f].st = "closed" =>
             day'[f].took = PaidOn(f) /\ day'[f].gave = MadeOn(f)
      BY <1>3, <1>4, <3>1 DEF Balanced, ClosedDayBalances, PaidOn, MadeOn
    <3>3. \A f \in Days : day'[f].st = "closed" =>
             day'[f].took = PaidOn(f)' /\ day'[f].gave = MadeOn(f)'
      BY <1>7, <3>2
    <3> QED
      BY <3>3 DEF ClosedDayBalances, PaidOn, MadeOn
  <2>3. ClosedShiftBalances'
    <3>1. \A s \in Shifts : shift'[s].st = "closed" =>
             shift'[s].took = PaidIn(s) /\ shift'[s].gave = GivenIn(s)
      BY <1>3, <1>5 DEF Balanced, ClosedShiftBalances, PaidIn, GivenIn
    <3>2. \A s \in Shifts : shift'[s].st = "closed" =>
             shift'[s].took = PaidIn(s)' /\ shift'[s].gave = GivenIn(s)'
      BY <1>7, <3>1
    <3> QED
      BY <3>2 DEF ClosedShiftBalances, PaidIn, GivenIn
  <2> QED
    BY <2>1, <2>2, <2>3 DEF Balanced
<1>10. ASSUME NEW e \in Clerks, e # c PROVE Held(e)'
  <2>1. Held(e) /\ tx'[e] = tx[e] /\ locks'[e] = locks[e]
    BY <1>2, <1>10, EndsFit DEF MoneyInv
  <2>2. ~(tx[e].op = "closeDay" /\ Past(e, "look"))
    <3> SUFFICES ASSUME tx[e].op = "closeDay", Past(e, "look") PROVE FALSE
      OBVIOUS
    <3>1. day[tx[e].day].st = "open" /\ tx[e].day \in Days /\ Past(e, "day")
      BY <1>3, <2>1, ClosingOrder DEF Held, Closing
    <3>2. tx[e].day = d
      BY <1>1, <1>3, <3>1, OneOpenDay
    <3>3. <<"day", d, TRUE>> \in locks[e]
      BY <2>1, <3>1, <3>2 DEF Held, HoldsDay
    <3> QED
      BY <1>1, <1>10, <3>3, DayIsAlone DEF d
  <2>3. ~(tx[e].op = "closeDay" /\ (Past(e, "sum") \/ Past(e, "shift")))
    BY <1>3, <2>2, ClosingOrder
  <2>4. ASSUME NEW s \in Shifts, shift[s].st = "open",
               <<"shift", s, FALSE>> \in locks[e]
        PROVE  shift'[s].st = "open"
    <3>1. s \notin closing
      BY <1>1, <1>10, <2>4 DEF MoneyInv, LocksFit, Clash
    <3> QED
      BY <1>5, <2>4, <3>1
  <2> QED
    BY <1>3, <1>6, <1>7, <2>1, <2>2, <2>3, <2>4, StillHeld
<1> QED
  BY <1>2, <1>8, <1>9, <1>10, EndsFit DEF MoneyInv

-----------------------------------------------------------------------------
(* RPCs of one step *)

\* Tabs that are not reopened disturb nothing.
LEMMA TabsEnd ==
    ASSUME MoneyInv, Typed', UNCHANGED <<day, shift, pay, ref, tx, locks>>,
           \A u \in Tabs : /\ tab'[u].day = tab[u].day
                           /\ tab'[u].st \in Unpaid => tab[u].st \in Unpaid
                           /\ tab'[u].st # "none" => tab[u].st # "none"
    PROVE  MoneyInv'
<1>1. Typed /\ RowsInOrder /\ Balanced
  BY DEF MoneyInv
<1>2. /\ AllPays' = AllPays /\ AllRefs' = AllRefs
      /\ \A d : PaidOn(d)' = PaidOn(d) /\ GivenOn(d)' = GivenOn(d)
      /\ \A d : OpenShifts(d)' = OpenShifts(d)
  BY SameSums
<1>3. \A d : NoOpenTab(d) => NoOpenTab(d)'
  BY DEF NoOpenTab
<1>4. RowsInOrder'
  BY <1>1, <1>2 DEF RowsInOrder
<1>5. Balanced'
  <2>1. NothingOpenOnClosedDay'
    BY <1>1, <1>2, <1>3 DEF Balanced, NothingOpenOnClosedDay
  <2>2. ClosedDayBalances' /\ ClosedShiftBalances'
    BY <1>1 DEF Balanced, ClosedDayBalances, ClosedShiftBalances, AllPays,
                AllRefs, CountedOn
  <2> QED
    BY <2>1, <2>2 DEF Balanced
<1>6. ASSUME NEW e \in Clerks PROVE Held(e)'
  <2>1. Held(e)
    BY DEF MoneyInv
  <2>2. tx[e].op = "closeDay" /\ Past(e, "look") =>
           day[tx[e].day].st = "open" /\ NoOpenTab(tx[e].day)
    BY <2>1 DEF Held, Closing
  <2> QED
    BY <1>1, <1>2, <1>3, <2>1, <2>2, StillHeld
<1>7. LocksFit'
  BY DEF MoneyInv, LocksFit, Clash
<1> QED
  BY <1>4, <1>5, <1>6, <1>7 DEF MoneyInv

\* A day that is opened.
LEMMA OpenDayKeeps ==
    ASSUME MoneyInv, Typed', NEW d \in Days, OpenDay(d)
    PROVE  MoneyInv'
<1>1. /\ OpenDays = {} /\ UNCHANGED <<shift, tab, pay, ref, tx, locks>>
      /\ day' = [day EXCEPT ![d].st = "open"]
      /\ NextId(d, MaxDays, {e \in Days : day[e].st # "none"})
  BY DEF OpenDay
<1>2. Typed /\ RowsInOrder /\ Balanced
  BY DEF MoneyInv
<1>3. /\ day[d].st = "none"
      /\ \A f \in Days : f < d => day[f].st # "none"
  BY <1>1, Ids, NextIdIsNew DEF Days
<1>4. /\ day'[d].st = "open" /\ \A f \in Days : f # d => day'[f] = day[f]
  BY <1>1, <1>2, RowsTyped DEF Typed, MoneyTypeOK, DayRows
<1>5. \A f \in Days : day[f].st \in {"none", "closed"}
  BY <1>1, <1>2, RowsTyped DEF Typed, MoneyTypeOK, DayRows, OpenDays
<1>6. /\ AllPays' = AllPays /\ AllRefs' = AllRefs
      /\ \A f : /\ PaidOn(f)' = PaidOn(f) /\ GivenOn(f)' = GivenOn(f)
                /\ MadeOn(f)' = MadeOn(f)
      /\ \A f : OpenShifts(f)' = OpenShifts(f)
  BY <1>1, SameSums
<1>7. RowsInOrder'
  <2>1. \A f, e \in Days : f < e /\ day'[e].st # "none" => day'[f].st = "closed"
    BY <1>2, <1>3, <1>4, <1>5, Ids DEF RowsInOrder
  <2>2. \A f \in Days : day[f].st # "none" => day'[f].st # "none"
    BY <1>4
  <2> QED
    BY <1>1, <1>2, <1>6, <2>1, <2>2 DEF RowsInOrder
<1>8. Balanced'
  <2>1. \A f : NoOpenTab(f)' = NoOpenTab(f)
    BY <1>1 DEF NoOpenTab
  <2>2. NothingOpenOnClosedDay'
    BY <1>2, <1>4, <1>6, <2>1 DEF Balanced, NothingOpenOnClosedDay
  <2>3. ClosedDayBalances'
    BY <1>2, <1>4, <1>6 DEF Balanced, ClosedDayBalances, PaidOn, MadeOn
  <2>4. ClosedShiftBalances'
    BY <1>1, <1>2, <1>6 DEF Balanced, ClosedShiftBalances
  <2> QED
    BY <2>2, <2>3, <2>4 DEF Balanced
<1>9. ASSUME NEW e \in Clerks PROVE Held(e)'
  <2>1. Held(e)
    BY DEF MoneyInv
  <2>2. ~(tx[e].op = "closeDay" /\ Past(e, "look"))
    BY <1>2, <1>5, <2>1, ClosingOrder DEF Held, Closing
  <2>3. ~(tx[e].op = "closeDay" /\ (Past(e, "sum") \/ Past(e, "shift")))
    BY <1>2, <2>2, ClosingOrder
  <2> QED
    BY <1>1, <1>2, <1>6, <2>1, <2>2, <2>3, StillHeld
<1>10. LocksFit'
  BY <1>1 DEF MoneyInv, LocksFit, Clash
<1> QED
  BY <1>7, <1>8, <1>9, <1>10 DEF MoneyInv

\* A day that can be taken FOR SHARE is not being closed.
LEMMA FreeDay ==
    ASSUME MoneyInv, NEW d \in Days, day[d].st = "open", ~DayHeld(d),
           NEW e \in Clerks, tx[e].op = "closeDay"
    PROVE  ~Past(e, "look") /\ ~Past(e, "shift") /\ ~Past(e, "sum")
<1>1. SUFFICES ASSUME Past(e, "look") PROVE FALSE
  BY ClosingOrder DEF MoneyInv
<1>2. Past(e, "day") /\ tx[e].day \in Days /\ day[tx[e].day].st = "open"
  BY <1>1, ClosingOrder DEF MoneyInv, Held, Closing
<1>3. tx[e].day = d
  BY <1>2, OneOpenDay DEF MoneyInv
<1> QED
  BY <1>2, <1>3, DayIsAlone

\* A tab that is opened.
LEMMA OpenTabKeeps ==
    ASSUME MoneyInv, Typed', NEW t \in Tabs, NEW d \in Days, OpenTab(t, d)
    PROVE  MoneyInv'
<1>1. /\ day[d].st = "open" /\ ~DayHeld(d)
      /\ UNCHANGED <<day, shift, pay, ref, tx, locks>>
      /\ tab' = [tab EXCEPT ![t] = [st |-> "open", day |-> d, total |-> 0]]
  BY DEF OpenTab
<1>2. Typed /\ RowsInOrder /\ Balanced
  BY DEF MoneyInv
<1>3. /\ tab'[t].st = "open" /\ tab'[t].day = d
      /\ \A u \in Tabs : u # t => tab'[u] = tab[u]
  BY <1>1, <1>2, RowsTyped DEF Typed, MoneyTypeOK
<1>4. /\ AllPays' = AllPays /\ AllRefs' = AllRefs
      /\ \A f : PaidOn(f)' = PaidOn(f) /\ GivenOn(f)' = GivenOn(f)
      /\ \A f : OpenShifts(f)' = OpenShifts(f)
  BY <1>1, SameSums
<1>5. RowsInOrder'
  BY <1>1, <1>2, <1>3, <1>4 DEF RowsInOrder
<1>6. Balanced'
  <2>1. \A f \in Days : f # d => (NoOpenTab(f) => NoOpenTab(f)')
    BY <1>3 DEF NoOpenTab
  <2>2. NothingOpenOnClosedDay'
    BY <1>1, <1>2, <1>4, <2>1 DEF Balanced, NothingOpenOnClosedDay
  <2>3. ClosedDayBalances' /\ ClosedShiftBalances'
    BY <1>1, <1>2 DEF Balanced, ClosedDayBalances, ClosedShiftBalances,
                      AllPays, AllRefs, CountedOn
  <2> QED
    BY <2>2, <2>3 DEF Balanced
<1>7. \A e \in Clerks : Held(e)'
  BY <1>1, <1>2, <1>4, StillHeld, FreeDay DEF MoneyInv
<1>8. LocksFit'
  BY <1>1 DEF MoneyInv, LocksFit, Clash
<1> QED
  BY <1>5, <1>6, <1>7, <1>8 DEF MoneyInv

\* A till shift that is opened.
LEMMA OpenShiftKeeps ==
    ASSUME MoneyInv, Typed', NEW s \in Shifts, NEW d \in Days,
           OpenTillShift(s, d)
    PROVE  MoneyInv'
<1>1. /\ day[d].st = "open" /\ ~DayHeld(d)
      /\ NextId(s, MaxShifts, {r \in Shifts : shift[r].st # "none"})
      /\ UNCHANGED <<day, tab, pay, ref, tx, locks>>
      /\ shift' = [shift EXCEPT ![s] = [@ EXCEPT !.st = "open", !.day = d]]
  BY DEF OpenTillShift
<1>2. Typed /\ RowsInOrder /\ Balanced
  BY DEF MoneyInv
<1>3. shift[s].st = "none"
  BY <1>1 DEF NextId
<1>4. /\ shift'[s].st = "open" /\ shift'[s].day = d
      /\ \A r \in Shifts : r # s => shift'[r] = shift[r]
  BY <1>1, <1>2, RowsTyped DEF Typed, MoneyTypeOK, ShiftRows
<1>5. \A r \in Shifts : shift[r].st # "none" => shift'[r] = shift[r]
  BY <1>3, <1>4
<1>6. /\ AllPays' = AllPays /\ AllRefs' = AllRefs
      /\ \A f : /\ PaidOn(f)' = PaidOn(f) /\ GivenOn(f)' = GivenOn(f)
                /\ MadeOn(f)' = MadeOn(f)
      /\ \A r : PaidIn(r)' = PaidIn(r) /\ GivenIn(r)' = GivenIn(r)
  BY <1>1, <1>2, <1>5, SumsOfShifts
<1>7. RowsInOrder'
  <2>1. \A p \in AllPays : pay[p].shift \in Shifts \cup {0}
    BY <1>2 DEF Typed, MoneyTypeOK, RowsTypeOK, AllPays
  <2>2. \A r \in AllRefs : ref[r].shift \in Shifts \cup {0}
    BY <1>2 DEF Typed, MoneyTypeOK, RowsTypeOK, AllRefs
  <2>3. \A r \in Shifts : shift'[r].st # "none" =>
           shift'[r].day \in Days /\ day[shift'[r].day].st # "none"
    BY <1>1, <1>2, <1>4 DEF RowsInOrder
  <2>4. \A p \in AllPays : /\ pay[p].day \in Days /\ day[pay[p].day].st # "none"
                           /\ pay[p].shift # 0 => shift'[pay[p].shift].st # "none"
    BY <1>2, <1>5, <2>1 DEF RowsInOrder
  <2>5. \A r \in AllRefs : ref[r].shift # 0 =>
           shift'[ref[r].shift].st # "none" /\ shift'[ref[r].shift].day = ref[r].made
    BY <1>2, <1>5, <2>2 DEF RowsInOrder
  <2> QED
    BY <1>1, <1>2, <1>6, <2>3, <2>4, <2>5 DEF RowsInOrder
<1>8. Balanced'
  <2>1. NothingOpenOnClosedDay'
    <3>1. \A f \in Days : f # d => OpenShifts(f)' \subseteq OpenShifts(f)
      BY <1>4 DEF OpenShifts
    <3>2. \A f : NoOpenTab(f)' = NoOpenTab(f)
      BY <1>1 DEF NoOpenTab
    <3> QED
      BY <1>1, <1>2, <3>1, <3>2 DEF Balanced, NothingOpenOnClosedDay
  <2>2. ClosedDayBalances'
    BY <1>1, <1>2, <1>6 DEF Balanced, ClosedDayBalances, PaidOn, MadeOn
  <2>3. ClosedShiftBalances'
    BY <1>2, <1>4, <1>6 DEF Balanced, ClosedShiftBalances, PaidIn, GivenIn
  <2> QED
    BY <2>1, <2>2, <2>3 DEF Balanced
<1>9. \A e \in Clerks : Held(e)'
  BY <1>1, <1>2, <1>5, <1>6, StillHeld, FreeDay DEF MoneyInv
<1>10. LocksFit'
  BY <1>1 DEF MoneyInv, LocksFit, Clash
<1> QED
  BY <1>7, <1>8, <1>9, <1>10 DEF MoneyInv

\* A till shift that is closed.
LEMMA CloseShiftKeeps ==
    ASSUME MoneyInv, Typed', NEW s \in Shifts, NEW g, ShiftFree(s),
           shift' = [shift EXCEPT ![s] = Closed(s, g)],
           UNCHANGED <<day, tab, pay, ref, tx, locks>>
    PROVE  MoneyInv'
<1>2. Typed /\ RowsInOrder /\ Balanced /\ shift[s].st = "open"
  BY DEF MoneyInv, ShiftFree
<1>4. /\ shift'[s].st = "closed" /\ shift'[s].day = shift[s].day
      /\ shift'[s].took = PaidIn(s) /\ shift'[s].gave = GivenIn(s)
      /\ \A r \in Shifts : r # s => shift'[r] = shift[r]
  BY <1>2, ClosedFigures, RowsTyped DEF Typed, MoneyTypeOK
<1>5. /\ \A r \in Shifts : shift'[r].day = shift[r].day
      /\ \A r \in Shifts : shift'[r].st # "none" <=> shift[r].st # "none"
      /\ \A r \in Shifts : shift'[r].st = "open" => shift[r].st = "open"
  BY <1>2, <1>4
<1>6. /\ AllPays' = AllPays /\ AllRefs' = AllRefs
      /\ \A f : /\ PaidOn(f)' = PaidOn(f) /\ GivenOn(f)' = GivenOn(f)
                /\ MadeOn(f)' = MadeOn(f)
      /\ \A r : PaidIn(r)' = PaidIn(r) /\ GivenIn(r)' = GivenIn(r)
  BY <1>2, <1>5, SumsOfShifts
<1>7. RowsInOrder'
  <2>1. \A p \in AllPays : pay[p].shift \in Shifts \cup {0}
    BY <1>2 DEF Typed, MoneyTypeOK, RowsTypeOK, AllPays
  <2>2. \A r \in AllRefs : ref[r].shift \in Shifts \cup {0}
    BY <1>2 DEF Typed, MoneyTypeOK, RowsTypeOK, AllRefs
  <2>3. \A r \in Shifts : shift'[r].st # "none" =>
           shift'[r].day \in Days /\ day[shift'[r].day].st # "none"
    BY <1>2, <1>5 DEF RowsInOrder
  <2>4. \A p \in AllPays : /\ pay[p].day \in Days /\ day[pay[p].day].st # "none"
                           /\ pay[p].shift # 0 => shift'[pay[p].shift].st # "none"
    BY <1>2, <1>5, <2>1 DEF RowsInOrder
  <2>5. \A r \in AllRefs : ref[r].shift # 0 =>
           shift'[ref[r].shift].st # "none" /\ shift'[ref[r].shift].day = ref[r].made
    BY <1>2, <1>5, <2>2 DEF RowsInOrder
  <2> QED
    BY <1>2, <1>6, <2>3, <2>4, <2>5 DEF RowsInOrder
<1>8. \A f : OpenShifts(f)' \subseteq OpenShifts(f)
  BY <1>5 DEF OpenShifts
<1>9. Balanced'
  <2>1. NothingOpenOnClosedDay'
    BY <1>2, <1>8 DEF Balanced, NothingOpenOnClosedDay, NoOpenTab
  <2>2. ClosedDayBalances'
    BY <1>2, <1>6 DEF Balanced, ClosedDayBalances, PaidOn, MadeOn
  <2>3. ClosedShiftBalances'
    BY <1>2, <1>4, <1>6 DEF Balanced, ClosedShiftBalances, PaidIn, GivenIn
  <2> QED
    BY <2>1, <2>2, <2>3 DEF Balanced
<1>10. ASSUME NEW e \in Clerks PROVE Held(e)'
  <2>1. Held(e) /\ <<"shift", s, FALSE>> \notin locks[e]
    BY DEF MoneyInv, ShiftFree, Taken, Clash
  <2>2. tx[e].op = "closeDay" /\ Past(e, "look") =>
           day[tx[e].day].st = "open" /\ NoOpenTab(tx[e].day)'
    BY <2>1 DEF Held, Closing, NoOpenTab
  <2>3. \A r \in Shifts : shift[r].st = "open" /\ <<"shift", r, FALSE>> \in locks[e]
                             => shift'[r].st = "open"
    BY <1>4, <2>1
  <2> QED
    BY <1>2, <1>5, <1>6, <1>8, <2>1, <2>2, <2>3, StillHeld
<1>11. LocksFit'
  BY DEF MoneyInv, LocksFit, Clash
<1> QED
  BY <1>7, <1>9, <1>10, <1>11 DEF MoneyInv

\* Every RPC that takes one step keeps the invariant.
LEMMA DeskKeeps ==
    ASSUME MoneyInv, Typed', Desk
    PROVE  MoneyInv'
<1>1. tab \in [Tabs -> TabRows]
  BY RowsTyped DEF MoneyInv, Typed, MoneyTypeOK
<1>2. ASSUME UNCHANGED <<day, shift, tab, pay, ref, tx, locks>> PROVE MoneyInv'
  BY <1>2, TabsEnd
<1>3. ASSUME NEW t \in Tabs, SettleZeroTab(t) \/ CancelTab(t) PROVE MoneyInv'
  <2>1. /\ UNCHANGED <<day, shift, pay, ref, tx, locks>>
        /\ tab[t].st \in Unpaid
        /\ \E n, st : /\ st \in {"settled", "void"}
                      /\ tab' = [tab EXCEPT ![t] = [@ EXCEPT !.total = n,
                                                             !.st = st]]
    BY <1>3 DEF SettleZeroTab, CancelTab, Unpaid
  <2>2. /\ tab'[t].day = tab[t].day /\ tab'[t].st \notin Unpaid
        /\ tab[t].st # "none" /\ \A u \in Tabs : u # t => tab'[u] = tab[u]
    BY <1>1, <2>1 DEF TabRows, Unpaid
  <2> QED
    BY <2>1, <2>2, TabsEnd
<1>4. ASSUME NEW s \in Shifts, NEW g \in Grants,
             CloseTillShiftFor(s, g)
      PROVE  MoneyInv'
  BY <1>4, CloseShiftKeeps DEF CloseTillShiftFor
<1>5. ASSUME NEW s \in Shifts, CloseTillShift(s) PROVE MoneyInv'
  BY <1>5, CloseShiftKeeps DEF CloseTillShift
<1>6. ASSUME NEW t \in Tabs, NEW g \in Grants, ApplyDiscount(t, g)
      PROVE  MoneyInv'
  BY <1>2, <1>6 DEF ApplyDiscount
<1>7. ASSUME NEW t \in Tabs, TillAddItems(t) PROVE MoneyInv'
  BY <1>2, <1>7 DEF TillAddItems
<1>8. ASSUME NEW g \in Grants, VerifyManagerPin(g) PROVE MoneyInv'
  BY <1>2, <1>8 DEF VerifyManagerPin
<1> QED
  BY <1>3, <1>4, <1>5, <1>6, <1>7, <1>8, OpenDayKeeps, OpenTabKeeps,
     OpenShiftKeeps DEF Desk

\* Every step keeps the invariant.
LEMMA MoneyStep == MoneyInv /\ [Next]_vars => MoneyInv'
<1> SUFFICES ASSUME MoneyInv, [Next]_vars PROVE MoneyInv'
  OBVIOUS
<1>1. Typed'
  BY StepsTyped DEF MoneyInv
<1>2. CASE Desk
  BY <1>1, <1>2, DeskKeeps
<1>3. ASSUME NEW c \in Clerks, Call(c) PROVE MoneyInv'
  BY <1>1, <1>3, BeginKeeps, StepsKeep, RollbackKeeps, SettleKeeps,
     RefundKeeps, VoidKeeps, MergeKeeps, CloseDayKeeps DEF Call
<1>4. CASE UNCHANGED vars
  BY <1>1, <1>4, TabsEnd DEF vars, rows
<1> QED
  BY <1>2, <1>3, <1>4 DEF Next

\* close_day looks for open tabs and shifts without locking the tabs: its lock
\* on the day, which open_tab and open_till_shift share, and the close of the
\* shifts it found make up for it.
THEOREM NothingLeftOpen == Spec => []NothingOpenOnClosedDay
<1>1. MoneyInv => NothingOpenOnClosedDay
  BY DEF MoneyInv, Balanced
<1> QED
  BY <1>1, MoneyInitInv, MoneyStep, PTL DEF Spec

\* What close_day adds up without a lock is still the day's money when it
\* commits, and for good: no tab is left that could be paid, and a refund
\* needs the lock on the day.
THEOREM DaysBalance == Spec => []ClosedDayBalances
<1>1. MoneyInv => ClosedDayBalances
  BY DEF MoneyInv, Balanced
<1> QED
  BY <1>1, MoneyInitInv, MoneyStep, PTL DEF Spec

\* A payment or refund that is stamped with a till shift is among the figures
\* the shift closes with: the stamp holds the shift until its call ends.
THEOREM ShiftsBalance == Spec => []ClosedShiftBalances
<1>1. MoneyInv => ClosedShiftBalances
  BY DEF MoneyInv, Balanced
<1> QED
  BY <1>1, MoneyInitInv, MoneyStep, PTL DEF Spec

-----------------------------------------------------------------------------
(* Manager PIN grants *)

\* The grant a call has taken is its own and unspent.
GrantsHeld ==
    \A c \in Clerks : tx[c].grant # 0 =>
        /\ grant[tx[c].grant] = "live"
        /\ \A e \in Clerks \ {c} : tx[e].grant # tx[c].grant

\* The grant behind an act is spent.
GrantsUsed == \A a \in Acts : AuthOf(a) # 0 => grant[AuthOf(a)] = "used"

GrantInv == Typed /\ GrantsHeld /\ GrantsUsed /\ OneGrantOneAct

\* The authority behind each act, before and after a step.
LEMMA Authorities ==
    /\ \A l \in Lines : /\ AuthOf(<<"void", l>>) = line[l].auth
                        /\ AuthOf(<<"void", l>>)' = line'[l].auth
    /\ \A a \in Discs : /\ AuthOf(<<"discount", a>>) = disc[a].auth
                        /\ AuthOf(<<"discount", a>>)' = disc'[a].auth
    /\ \A r \in Refs : /\ AuthOf(<<"refund", r>>) = ref[r].auth
                       /\ AuthOf(<<"refund", r>>)' = ref'[r].auth
    /\ \A s \in Shifts : /\ AuthOf(<<"shift", s>>) = shift[s].auth
                         /\ AuthOf(<<"shift", s>>)' = shift'[s].auth
    /\ \A b \in Acts : \/ \E l \in Lines : b = <<"void", l>>
                       \/ \E a \in Discs : b = <<"discount", a>>
                       \/ \E r \in Refs : b = <<"refund", r>>
                       \/ \E s \in Shifts : b = <<"shift", s>>
  BY DEF AuthOf, Acts

\* An act's authority is a grant or null.
LEMMA AuthTyped ==
    ASSUME Typed, NEW a \in Acts
    PROVE  AuthOf(a) \in Grants \cup {0}
  BY Authorities DEF Typed, MoneyTypeOK, RowsTypeOK

\* It is enough that a step authorises at most one act, by a grant it spends.
LEMMA OneMoreAct ==
    ASSUME GrantInv, Typed', NEW new, NEW g,
           \A f \in Grants : grant[f] = "used" => grant'[f] = "used",
           \A e \in Clerks : tx'[e].grant # 0 =>
              tx'[e].grant = tx[e].grant /\ grant'[tx[e].grant] = "live",
           \A a \in Acts : \/ AuthOf(a)' \in {AuthOf(a), 0}
                           \/ /\ a = new /\ AuthOf(a)' = g /\ g \in Grants
                              /\ grant[g] = "live" /\ grant'[g] = "used"
    PROVE  GrantInv'
<1>1. GrantsHeld'
  BY DEF GrantInv, GrantsHeld
<1>2. GrantsUsed'
  BY AuthTyped DEF GrantInv, GrantsUsed
<1>3. \A a, b \in Acts : AuthOf(a)' = AuthOf(b)' /\ AuthOf(a)' # 0 => a = b
  <2> SUFFICES ASSUME NEW a \in Acts, NEW b \in Acts,
                      AuthOf(a)' = AuthOf(b)', AuthOf(a)' # 0, a # b
               PROVE  FALSE
    OBVIOUS
  <2>1. CASE AuthOf(a)' = AuthOf(a) /\ AuthOf(b)' = AuthOf(b)
    BY <2>1 DEF GrantInv, OneGrantOneAct
  <2>2. ASSUME NEW x \in Acts, NEW y \in Acts, AuthOf(x)' = AuthOf(y)',
               AuthOf(x)' = g, g \in Grants, grant[g] = "live",
               AuthOf(y)' = AuthOf(y)
        PROVE  FALSE
    BY <2>2, Ids DEF GrantInv, GrantsUsed
  <2> QED
    BY <2>1, <2>2
<1>4. OneGrantOneAct'
  BY <1>3 DEF OneGrantOneAct, Acts
<1> QED
  BY <1>1, <1>2, <1>4 DEF GrantInv

\* Where no row gets an authority and no grant is spent.
LEMMA NoMoreActs ==
    ASSUME GrantInv, Typed', UNCHANGED <<line, disc, ref, grant>>,
           \A s \in Shifts : shift'[s].auth \in {shift[s].auth, 0},
           \A e \in Clerks : tx'[e].grant \in {tx[e].grant, 0}
    PROVE  GrantInv'
<1>1. \A a \in Acts : AuthOf(a)' \in {AuthOf(a), 0}
  BY Authorities
<1>2. \A e \in Clerks : tx'[e].grant # 0 =>
         tx'[e].grant = tx[e].grant /\ grant'[tx[e].grant] = "live"
  BY DEF GrantInv, GrantsHeld
<1> QED
  BY <1>1, <1>2, OneMoreAct

\* The steps of a call that write no row.
LEMMA ReadsKeepGrants ==
    ASSUME GrantInv, Typed', NEW c \in Clerks,
           \/ \E op \in Ops, x, y \in Args : Begin(c, op, x, y)
           \/ Lock(c) \/ Seek(c) \/ Find(c) \/ Spend(c) \/ Look(c) \/ Sum(c)
           \/ Rollback(c)
    PROVE  GrantInv'
<1>1. tx \in [Clerks -> Calls] /\ tx[c] \in Calls
  BY DEF GrantInv, Typed, MoneyTypeOK, Calls
<1>2. UNCHANGED <<shift, line, disc, ref, grant>>
  BY DEF Begin, Lock, Seek, Find, Spend, Look, Sum, Rollback, rows
<1>3. CASE Spend(c)
  <2>1. PICK g \in Newest : tx' = [tx EXCEPT ![c] = [Reads(c) EXCEPT !.grant = g]]
    BY <1>3 DEF Spend
  <2>2. tx'[c].grant = g /\ \A e \in Clerks : e # c => tx'[e] = tx[e]
    BY <1>1, <2>1 DEF Reads, Calls
  <2>3. grant[g] = "live" /\ \A e \in Clerks : tx[e].grant # g
    BY DEF Newest, FreeGrants
  <2>4. GrantsHeld'
    BY <1>2, <2>2, <2>3 DEF GrantInv, GrantsHeld
  <2>5. \A a \in Acts : AuthOf(a)' = AuthOf(a)
    BY <1>2, Authorities
  <2>6. GrantsUsed' /\ OneGrantOneAct'
    BY <1>2, <2>5 DEF GrantInv, GrantsUsed, OneGrantOneAct, Acts
  <2> QED
    BY <2>4, <2>6 DEF GrantInv
<1>4. CASE ~Spend(c)
  <2>1. \A e \in Clerks : e # c => tx'[e] = tx[e]
    BY <1>1, <1>4 DEF Begin, Lock, Seek, Find, Look, Sum, Rollback
  <2>2. tx'[c].grant \in {tx[c].grant, 0}
    <3>1. CASE \/ \E op \in Ops, x, y \in Args : Begin(c, op, x, y)
               \/ Rollback(c)
      BY <1>1, <3>1 DEF Begin, Rollback, NoTx, NewTx
    <3>2. CASE Lock(c)
      BY <1>1, <3>2 DEF Lock, Reads, Calls
    <3>3. CASE Seek(c)
      BY <1>1, <3>3 DEF Seek, Reads, Calls
    <3>4. CASE Find(c) \/ Look(c) \/ Sum(c)
      BY <1>1, <3>4 DEF Find, Look, Sum, Reads, Calls
    <3> QED
      BY <1>4, <3>1, <3>2, <3>3, <3>4
  <2> QED
    BY <1>2, <2>1, <2>2, NoMoreActs
<1> QED
  BY <1>3, <1>4

\* A call that spends its grant and ends.
LEMMA SpentKeeps ==
    ASSUME GrantInv, NEW c \in Clerks, Spent(c), Ends(c)
    PROVE  /\ \A f \in Grants : grant[f] = "used" => grant'[f] = "used"
           /\ \A e \in Clerks : tx'[e].grant # 0 =>
                 tx'[e].grant = tx[e].grant /\ grant'[tx[e].grant] = "live"
           /\ tx[c].grant # 0 => /\ tx[c].grant \in Grants
                                 /\ grant[tx[c].grant] = "live"
                                 /\ grant'[tx[c].grant] = "used"
<1>1. tx \in [Clerks -> Calls] /\ tx[c] \in Calls /\ RowsTypeOK
  BY DEF GrantInv, Typed, MoneyTypeOK, Calls
<1>2. grant \in [Grants -> {"none", "live", "used"}]
  BY <1>1 DEF RowsTypeOK
<1>3. tx[c].grant \in Grants \cup {0}
  BY <1>1 DEF Calls
<1>4. \A f \in Grants : grant'[f] = IF f = tx[c].grant THEN "used" ELSE grant[f]
  BY <1>2 DEF Spent
<1>5. tx'[c].grant = 0 /\ \A e \in Clerks : e # c => tx'[e] = tx[e]
  BY <1>1 DEF Ends, NoTx, NewTx
<1>6. \A e \in Clerks : tx[e].grant \in Grants \cup {0}
  BY <1>1 DEF Calls
<1> QED
  BY <1>3, <1>4, <1>5, <1>6 DEF GrantInv, GrantsHeld

\* A grant that is spent is spent on the act that commits with it.
LEMMA WritesKeepGrants ==
    ASSUME GrantInv, Typed', NEW c \in Clerks,
           SettleTab(c) \/ Refund(c) \/ VoidAfterSend(c) \/ MergeTabs(c)
             \/ CloseDay(c)
    PROVE  GrantInv'
<1>1. /\ tx \in [Clerks -> Calls] /\ tx[c] \in Calls
      /\ shift \in [Shifts -> ShiftRows] /\ line \in [Lines -> LineRows]
      /\ ref \in [Refs -> RefRows]
  BY RowsTyped DEF GrantInv, Typed, MoneyTypeOK, Calls
<1>2. tx'[c].grant = 0 /\ \A e \in Clerks : e # c => tx'[e] = tx[e]
  <2>1. Ends(c)
    BY DEF SettleTab, Refund, VoidAfterSend, MergeTabs, CloseDay
  <2> QED
    BY <1>1, <2>1 DEF Ends, NoTx, NewTx
<1>3. \A e \in Clerks : tx'[e].grant \in {tx[e].grant, 0}
  BY <1>2
<1>4. CASE SettleTab(c)
  BY <1>3, <1>4, NoMoreActs DEF SettleTab
<1>5. CASE CloseDay(c)
  <2>1. \A s \in Shifts : Closed(s, 0).auth = 0
    BY <1>1 DEF Closed, ShiftRows
  <2>2. \A s \in Shifts : shift'[s].auth \in {shift[s].auth, 0}
    BY <1>5, <2>1 DEF CloseDay
  <2> QED
    BY <1>3, <1>5, <2>2, NoMoreActs DEF CloseDay
<1>6. CASE MergeTabs(c)
  <2>1. \A l \in Lines : line'[l].auth = line[l].auth
    BY <1>1, <1>6 DEF MergeTabs, LineRows
  <2>2. \A a \in Discs : disc'[a].auth = disc[a].auth
    <3>1. disc \in [Discs -> DiscRows]
      BY RowsTyped DEF GrantInv, Typed, MoneyTypeOK
    <3> QED
      BY <1>6, <3>1 DEF MergeTabs, DiscRows
  <2>3. UNCHANGED <<shift, ref, grant>>
    BY <1>6 DEF MergeTabs
  <2>4. \A a \in Acts : AuthOf(a)' = AuthOf(a)
    BY <2>1, <2>2, <2>3, Authorities
  <2>5. \A e \in Clerks : tx'[e].grant # 0 =>
           tx'[e].grant = tx[e].grant /\ grant'[tx[e].grant] = "live"
    BY <1>3, <2>3 DEF GrantInv, GrantsHeld
  <2> QED
    BY <2>3, <2>4, <2>5, OneMoreAct
<1>7. CASE Refund(c)
  <2>1. Spent(c) /\ Ends(c) /\ UNCHANGED <<shift, line, disc>>
    BY <1>7 DEF Refund
  <2>2. PICK r \in Refs :
          ref' = [ref EXCEPT ![r] = [pay |-> tx[c].x, amt |-> Given(tx[c].y),
                                     shift |-> tx[c].shift, made |-> tx[c].day,
                                     auth |-> tx[c].grant]]
    BY <1>7 DEF Refund
  <2>3. ref'[r].auth = tx[c].grant /\ \A q \in Refs : q # r => ref'[q] = ref[q]
    BY <1>1, <2>2
  <2>4. \A a \in Acts : \/ AuthOf(a)' = AuthOf(a)
                        \/ a = <<"refund", r>> /\ AuthOf(a)' = tx[c].grant
    BY <2>1, <2>3, Authorities
  <2> QED
    BY <2>1, <2>4, SpentKeeps, OneMoreAct
<1>8. CASE VoidAfterSend(c)
  <2> DEFINE l == tx[c].x
  <2>1. Spent(c) /\ Ends(c) /\ UNCHANGED <<shift, disc, ref>>
    BY <1>8 DEF VoidAfterSend
  <2>2. line' = IF line[l].st = "void" THEN line
                ELSE [line EXCEPT ![l] = [@ EXCEPT !.st = "void",
                                                   !.auth = tx[c].grant]]
    BY <1>8 DEF VoidAfterSend
  <2>3. \A k \in Lines : \/ line'[k].auth = line[k].auth
                         \/ k = l /\ line'[k].auth = tx[c].grant
    BY <1>1, <2>2 DEF LineRows
  <2> HIDE DEF l
  <2>4. \A a \in Acts : \/ AuthOf(a)' = AuthOf(a)
                        \/ a = <<"void", l>> /\ AuthOf(a)' = tx[c].grant
    BY <2>1, <2>3, Authorities
  <2> QED
    BY <2>1, <2>4, SpentKeeps, OneMoreAct
<1> QED
  BY <1>4, <1>5, <1>6, <1>7, <1>8

\* The RPCs of one step spend no grant twice either.
LEMMA DeskKeepsGrants ==
    ASSUME GrantInv, Typed', Desk
    PROVE  GrantInv'
<1>1. /\ shift \in [Shifts -> ShiftRows] /\ line \in [Lines -> LineRows]
      /\ disc \in [Discs -> DiscRows] /\ grant \in [Grants -> {"none", "live", "used"}]
      /\ \A e \in Clerks : tx[e].grant \in Grants \cup {0}
  BY RowsTyped DEF GrantInv, Typed, MoneyTypeOK, RowsTypeOK
<1>2. UNCHANGED tx
  BY DEF Desk, OpenDay, OpenTab, TillAddItems, SettleZeroTab, CancelTab,
         ApplyDiscount, OpenTillShift, CloseTillShift, CloseTillShiftFor,
         VerifyManagerPin
<1>3. ASSUME UNCHANGED <<line, disc, ref, grant>>,
             \A s \in Shifts : shift'[s].auth \in {shift[s].auth, 0}
      PROVE  GrantInv'
  BY <1>2, <1>3, NoMoreActs
<1>4. \A s \in Shifts : \A g : Closed(s, g).auth = g
  BY <1>1 DEF Closed, ShiftRows
\* A grant spent at once was nobody's.
<1>5. ASSUME NEW g \in Newest, grant' = [grant EXCEPT ![g] = "used"]
      PROVE  /\ g \in Grants /\ grant[g] = "live" /\ grant'[g] = "used"
             /\ \A f \in Grants : grant[f] = "used" => grant'[f] = "used"
             /\ \A e \in Clerks : tx'[e].grant # 0 =>
                   tx'[e].grant = tx[e].grant /\ grant'[tx[e].grant] = "live"
  BY <1>1, <1>2, <1>5 DEF Newest, FreeGrants, GrantInv, GrantsHeld
<1>6. ASSUME NEW t \in Tabs, NEW g \in Grants, ApplyDiscount(t, g)
      PROVE  GrantInv'
  <2>1. /\ g \in Newest /\ grant' = [grant EXCEPT ![g] = "used"]
        /\ UNCHANGED <<shift, line, ref>>
    BY <1>6 DEF ApplyDiscount
  <2>2. PICK a \in Discs :
          disc' = [disc EXCEPT ![a] = [tab |-> t, amt |-> DiscountAmount(t),
                                       auth |-> g]]
    BY <1>6 DEF ApplyDiscount
  <2>3. disc'[a].auth = g /\ \A b \in Discs : b # a => disc'[b] = disc[b]
    BY <1>1, <2>2
  <2>4. \A b \in Acts : \/ AuthOf(b)' = AuthOf(b)
                        \/ b = <<"discount", a>> /\ AuthOf(b)' = g
    BY <2>1, <2>3, Authorities
  <2>5. /\ g \in Grants /\ grant[g] = "live" /\ grant'[g] = "used"
        /\ \A f \in Grants : grant[f] = "used" => grant'[f] = "used"
        /\ \A e \in Clerks : tx'[e].grant # 0 =>
              tx'[e].grant = tx[e].grant /\ grant'[tx[e].grant] = "live"
    BY <1>5, <2>1
  <2> QED
    BY <2>4, <2>5, OneMoreAct
<1>7. ASSUME NEW s \in Shifts, NEW g \in Grants, CloseTillShiftFor(s, g)
      PROVE  GrantInv'
  <2>1. /\ g \in Newest /\ grant' = [grant EXCEPT ![g] = "used"]
        /\ UNCHANGED <<disc, line, ref>>
        /\ shift' = [shift EXCEPT ![s] = Closed(s, g)]
    BY <1>7 DEF CloseTillShiftFor
  <2>2. shift'[s].auth = g /\ \A r \in Shifts : r # s => shift'[r] = shift[r]
    BY <1>1, <1>4, <2>1
  <2>3. \A b \in Acts : \/ AuthOf(b)' = AuthOf(b)
                        \/ b = <<"shift", s>> /\ AuthOf(b)' = g
    BY <2>1, <2>2, Authorities
  <2>4. /\ g \in Grants /\ grant[g] = "live" /\ grant'[g] = "used"
        /\ \A f \in Grants : grant[f] = "used" => grant'[f] = "used"
        /\ \A e \in Clerks : tx'[e].grant # 0 =>
              tx'[e].grant = tx[e].grant /\ grant'[tx[e].grant] = "live"
    BY <1>5, <2>1
  <2> QED
    BY <2>3, <2>4, OneMoreAct
<1>8. ASSUME NEW s \in Shifts, CloseTillShift(s) PROVE GrantInv'
  <2>1. \A r \in Shifts : shift'[r].auth \in {shift[r].auth, 0}
    BY <1>1, <1>4, <1>8 DEF CloseTillShift
  <2> QED
    BY <1>3, <1>8, <2>1 DEF CloseTillShift
<1>9. ASSUME NEW s \in Shifts, NEW d \in Days, OpenTillShift(s, d)
      PROVE  GrantInv'
  <2>1. \A r \in Shifts : shift'[r].auth = shift[r].auth
    BY <1>1, <1>9 DEF OpenTillShift, ShiftRows
  <2> QED
    BY <1>3, <1>9, <2>1 DEF OpenTillShift
<1>10. ASSUME NEW t \in Tabs, TillAddItems(t) PROVE GrantInv'
  <2>1. /\ \A l \in Lines : line'[l].auth \in {line[l].auth, 0}
        /\ UNCHANGED <<shift, disc, ref, grant>>
    BY <1>1, <1>10 DEF TillAddItems
  <2>2. \A a \in Acts : AuthOf(a)' \in {AuthOf(a), 0}
    BY <2>1, Authorities
  <2>3. \A e \in Clerks : tx'[e].grant # 0 =>
           tx'[e].grant = tx[e].grant /\ grant'[tx[e].grant] = "live"
    BY <1>2, <2>1 DEF GrantInv, GrantsHeld
  <2> QED
    BY <2>1, <2>2, <2>3, OneMoreAct
<1>11. ASSUME NEW g \in Grants, VerifyManagerPin(g) PROVE GrantInv'
  <2>1. grant' = [grant EXCEPT ![g] = "live"] /\ grant[g] = "none"
        /\ UNCHANGED <<shift, line, disc, ref>>
    BY <1>11 DEF VerifyManagerPin, NextId
  <2>2. \A a \in Acts : AuthOf(a)' = AuthOf(a)
    BY <2>1, Authorities
  <2>3. \A e \in Clerks : tx'[e].grant # 0 =>
           tx'[e].grant = tx[e].grant /\ grant'[tx[e].grant] = "live"
    BY <1>1, <1>2, <2>1 DEF GrantInv, GrantsHeld
  <2>4. \A f \in Grants : grant[f] = "used" => grant'[f] = "used"
    BY <1>1, <2>1
  <2> QED
    BY <2>2, <2>3, <2>4, OneMoreAct
<1>12. ASSUME UNCHANGED <<shift, line, disc, ref, grant>> PROVE GrantInv'
  BY <1>3, <1>12
<1>13. ASSUME NEW t \in Tabs, NEW d \in Days,
              \/ OpenDay(d) \/ OpenTab(t, d) \/ SettleZeroTab(t) \/ CancelTab(t)
       PROVE  GrantInv'
  BY <1>12, <1>13 DEF OpenDay, OpenTab, SettleZeroTab, CancelTab
<1>14. ASSUME NEW d \in Days, OpenDay(d) PROVE GrantInv'
  BY <1>12, <1>14 DEF OpenDay
<1>15. ASSUME NEW t \in Tabs, SettleZeroTab(t) \/ CancelTab(t) PROVE GrantInv'
  BY <1>12, <1>15 DEF SettleZeroTab, CancelTab
<1> QED
  BY <1>6, <1>7, <1>8, <1>9, <1>10, <1>11, <1>13, <1>14, <1>15 DEF Desk

\* One manager PIN pays for one act, whichever sessions spend it at once.
THEOREM OnePinOneAct == Spec => []OneGrantOneAct
<1>1. Init => GrantInv
  <2> SUFFICES ASSUME Init PROVE GrantInv
    OBVIOUS
  <2>1. \A a \in Acts : AuthOf(a) = 0
    BY Authorities DEF Init, RowsInit
  <2>2. \A c \in Clerks : tx[c].grant = 0
    BY DEF Init, NoTx, NewTx
  <2> QED
    BY <2>1, <2>2, MoneyInitTyped DEF GrantInv, GrantsHeld, GrantsUsed,
                                      OneGrantOneAct
<1>2. GrantInv /\ [Next]_vars => GrantInv'
  <2> SUFFICES ASSUME GrantInv, [Next]_vars PROVE GrantInv'
    OBVIOUS
  <2>1. Typed'
    BY StepsTyped DEF GrantInv
  <2>2. CASE Desk
    BY <2>1, <2>2, DeskKeepsGrants
  <2>3. ASSUME NEW c \in Clerks, Call(c) PROVE GrantInv'
    BY <2>1, <2>3, ReadsKeepGrants, WritesKeepGrants DEF Call
  <2>4. CASE UNCHANGED vars
    BY <2>1, <2>4, NoMoreActs DEF vars, rows
  <2> QED
    BY <2>2, <2>3, <2>4 DEF Next
<1>3. GrantInv => OneGrantOneAct
  BY DEF GrantInv
<1> QED
  BY <1>1, <1>2, <1>3, PTL DEF Spec

=============================================================================
