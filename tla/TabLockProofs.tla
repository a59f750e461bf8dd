--------------------------- MODULE TabLockProofs ----------------------------
(***************************************************************************)
(* Proofs about the row locks of the till's RPCs: which of them a call     *)
(* holds at each step, for any number of rows and sessions.                *)
(***************************************************************************)
EXTENDS TabBillProofs

-----------------------------------------------------------------------------
(* What a call has locked so far *)

\* A call locks nothing before the step of its plan that asks for it.
Earned(c) ==
    /\ tx[c].op = "merge" => tx[c].x # tx[c].y
    /\ \A l \in locks[c] :
          \/ /\ l[1] = "day" /\ Past(c, "day")
             /\ l[2] = tx[c].day /\ l[3] = (tx[c].op = "closeDay")
          \/ l[1] = "day" /\ Past(c, "key") /\ ~l[3]
          \/ l[1] = "tab" /\ Past(c, "tab")
          \/ l[1] = "tab" /\ Past(c, "first")
               /\ (l[2] = Pair(c)[1] \/ Past(c, "second"))
          \/ l[1] = "shift" /\ Past(c, "shift")

\* And it keeps the tabs it has locked.
HoldsTabs(c) ==
    /\ Past(c, "tab") => <<"tab", TabOf(c), TRUE>> \in locks[c]
    /\ Past(c, "first") => <<"tab", Pair(c)[1], TRUE>> \in locks[c]
    /\ Past(c, "second") => <<"tab", Pair(c)[2], TRUE>> \in locks[c]

LockInv == MoneyInv /\ \A c \in Clerks : Earned(c) /\ HoldsTabs(c)

\* A session without a call holds nothing.
LEMMA IdleEarned ==
    ASSUME NEW c \in Clerks, tx[c] = NoTx, locks[c] = {}
    PROVE  Earned(c) /\ HoldsTabs(c)
<1>1. \A k : ~Past(c, k)
  BY PastOfNoTx
<1>2. tx[c].op = "idle"
  BY DEF NoTx, NewTx
<1> QED
  BY <1>1, <1>2 DEF Earned, HoldsTabs

\* A call that did not move has locked what it had: no step changes the tab of
\* a payment.
LEMMA SameEarned ==
    ASSUME NEW c \in Clerks, Earned(c), HoldsTabs(c), Held(c),
           tx'[c] = tx[c], locks'[c] = locks[c],
           \A p \in AllPays : pay'[p].tab = pay[p].tab
    PROVE  Earned(c)' /\ HoldsTabs(c)'
<1>1. \A k : Past(c, k)' <=> Past(c, k)
  BY SamePast
<1>2. Pair(c)' = Pair(c)
  BY DEF Pair
<1>3. TabOf(c)' = TabOf(c)
  BY DEF TabOf, Held
<1> QED
  BY <1>1, <1>2, <1>3 DEF Earned, HoldsTabs

\* Nothing moves a payment to another tab.
LEMMA PaysStayPut ==
    ASSUME MoneyInv, [Next]_vars
    PROVE  \A p \in AllPays : pay'[p] = pay[p]
<1>1. ASSUME UNCHANGED pay PROVE \A p \in AllPays : pay'[p] = pay[p]
  BY <1>1
<1>2. ASSUME NEW c \in Clerks, SettleTab(c)
      PROVE  \A p \in AllPays : pay'[p] = pay[p]
  <2>1. pay \in [Pays -> PayRows]
    BY RowsTyped DEF MoneyInv, Typed, MoneyTypeOK
  <2>2. PICK p \in Pays :
          p \notin AllPays /\ \E row : pay' = [pay EXCEPT ![p] = row]
    BY <1>2 DEF SettleTab, NextId
  <2> QED
    BY <2>1, <2>2 DEF AllPays
<1>3. ASSUME NEW c \in Clerks, Call(c), ~SettleTab(c) PROVE UNCHANGED pay
  BY <1>3 DEF Call, Begin, Lock, Seek, Find, Spend, Look, Sum, Rollback, Refund,
     VoidAfterSend, MergeTabs, CloseDay, rows
<1>4. CASE Desk
  BY <1>4 DEF Desk, OpenDay, OpenTab, TillAddItems, SettleZeroTab, CancelTab,
     ApplyDiscount, OpenTillShift, CloseTillShift, CloseTillShiftFor,
     VerifyManagerPin
<1>5. CASE UNCHANGED vars
  BY <1>5 DEF vars, rows
<1> QED
  BY <1>1, <1>2, <1>3, <1>4, <1>5 DEF Next

\* What the locks' proofs need of the types.
LEMMA LockTypes ==
    ASSUME MoneyInv
    PROVE  /\ Typed /\ tx \in [Clerks -> Calls]
           /\ locks \in [Clerks -> SUBSET Locks]
  BY DEF MoneyInv, Typed, MoneyTypeOK, Calls

\* What each step asks for.
LEMMA AsksByStep ==
    ASSUME NEW c \in Clerks
    PROVE  /\ Step(c) = "day" =>
                Asks(c) = {<<"day", tx[c].day, tx[c].op = "closeDay">>}
           /\ Step(c) = "key" => Asks(c) = {<<"day", tab[tx[c].x].day, FALSE>>}
           /\ Step(c) = "tab" => Asks(c) = {<<"tab", TabOf(c), TRUE>>}
           /\ Step(c) = "first" => Asks(c) = {<<"tab", Pair(c)[1], TRUE>>}
           /\ Step(c) = "second" => Asks(c) = {<<"tab", Pair(c)[2], TRUE>>}
           /\ Step(c) = "shift" =>
                \A l \in Asks(c) : l[1] = "shift" /\ l[2] \in Shifts \cup {tx[c].shift}
           /\ Step(c) \notin {"day", "key", "tab", "first", "second", "shift"}
                => Asks(c) = {}
<1>1. Step(c) = "shift" =>
        \A l \in Asks(c) : l[1] = "shift" /\ l[2] \in Shifts \cup {tx[c].shift}
  <2>1. ASSUME NEW l \in ShiftLock(c)
        PROVE  l[1] = "shift" /\ l[2] \in Shifts \cup {tx[c].shift}
    <3>1. /\ OpenShifts(tx[c].day) \subseteq Shifts
          /\ {tx[c].shift} \ {0} \subseteq {tx[c].shift}
      BY DEF OpenShifts
    <3>2. CASE tx[c].op = "closeDay"
      <4>1. PICK s \in Shifts : l = <<"shift", s, TRUE>>
        BY <2>1, <3>1, <3>2 DEF ShiftLock
      <4> QED
        BY <4>1
    <3>3. CASE tx[c].op # "closeDay"
      <4>1. l = <<"shift", tx[c].shift, FALSE>>
        BY <2>1, <3>1, <3>3 DEF ShiftLock
      <4> QED
        BY <4>1
    <3> QED
      BY <3>2, <3>3
  <2> QED
    BY <2>1 DEF Asks
<1> QED
  BY <1>1 DEF Asks

\* A call that begins has locked nothing.
LEMMA BeginEarns ==
    ASSUME LockInv, NEW c \in Clerks,
           NEW op \in Ops, NEW x \in Args, NEW y \in Args, Begin(c, op, x, y)
    PROVE  Earned(c)' /\ HoldsTabs(c)'
<1>1. /\ tx[c] = NoTx /\ locks' = locks /\ Offered(op, x, y)
      /\ tx' = [tx EXCEPT ![c] = NewTx(op, x, y, IF op \in NeedsDay
                                                 THEN CurrentOpenDay ELSE 0)]
  BY DEF Begin
<1>2. tx'[c].pc = 1 /\ tx'[c].op = op /\ tx'[c].x = x /\ tx'[c].y = y
  BY <1>1, LockTypes DEF NewTx, LockInv
<1>3. locks[c] = {}
  <2>1. \A k : ~Past(c, k)
    BY <1>1, PastOfNoTx
  <2> QED
    BY <2>1 DEF LockInv, Earned
<1>4. \A k : ~Past(c, k)'
  BY <1>2 DEF Past
<1>5. op = "merge" => x # y
  BY <1>1 DEF Offered
<1> QED
  BY <1>1, <1>2, <1>3, <1>4, <1>5 DEF Earned, HoldsTabs

\* A call that goes a step on earns what that step locks.
LEMMA StepEarns ==
    ASSUME LockInv, NEW c \in Clerks,
           Lock(c) \/ Seek(c) \/ Find(c) \/ Spend(c) \/ Look(c) \/ Sum(c)
    PROVE  Earned(c)' /\ HoldsTabs(c)'
<1>1. /\ Typed /\ tx \in [Clerks -> Calls] /\ tx[c] \in Calls
      /\ locks \in [Clerks -> SUBSET Locks] /\ Earned(c) /\ HoldsTabs(c)
  BY LockTypes DEF LockInv
<1>2. UNCHANGED rows
  BY DEF Lock, Seek, Find, Spend, Look, Sum
<1>3. PICK k : /\ Proceeds(c, k)
               /\ k \in {"day", "key", "tab", "first", "second", "shift", "seek",
                         "find", "grant", "look", "sum"}
               /\ k \in {"day", "key", "tab", "first", "second", "shift"} => Lock(c)
               /\ k \notin {"day", "key", "tab", "first", "second", "shift"} =>
                    locks' = locks
  BY DEF Lock, Seek, Find, Spend, Look, Sum
<1>4. tx[c].op # "idle" /\ Step(c) = k /\ k # "commit" /\ InPlan(c)
  BY <1>1, <1>3 DEF Proceeds, Typed, Fits, NoTx, NewTx
<1>5. /\ tx'[c].op = tx[c].op /\ tx'[c].pc = tx[c].pc + 1
      /\ tx'[c].x = tx[c].x /\ tx'[c].y = tx[c].y /\ tx'[c].day = tx[c].day
      /\ ~Find(c) => tx'[c].at = tx[c].at
  <2>1. ASSUME NEW s, tx'[c] = [Reads(c) EXCEPT !.shift = s]
        PROVE  /\ tx'[c].op = tx[c].op /\ tx'[c].pc = tx[c].pc + 1
               /\ tx'[c].x = tx[c].x /\ tx'[c].y = tx[c].y
               /\ tx'[c].day = tx[c].day /\ tx'[c].at = tx[c].at
    BY <1>1, <2>1 DEF Reads, Calls
  <2>2. CASE Lock(c) \/ Seek(c)
    BY <1>1, <2>1, <2>2 DEF Lock, Seek
  <2>3. CASE Find(c)
    BY <1>1, <2>3 DEF Find, Reads, Calls
  <2>4. CASE Spend(c)
    <3>1. PICK g : tx' = [tx EXCEPT ![c] = [Reads(c) EXCEPT !.grant = g]]
      BY <2>4 DEF Spend
    <3> QED
      BY <1>1, <3>1 DEF Reads, Calls
  <2>5. CASE Look(c)
    BY <1>1, <2>5 DEF Look, Reads, Calls
  <2>6. CASE Sum(c)
    BY <1>1, <2>6 DEF Sum, Reads, Calls
  <2> QED
    BY <2>2, <2>3, <2>4, <2>5, <2>6
<1>6. \A j : Past(c, j)' <=> Past(c, j) \/ k = j
  BY <1>1, <1>4, <1>5, PastReads
<1>7. Pair(c)' = Pair(c)
  BY <1>5 DEF Pair
<1>8. Past(c, "tab")' => TabOf(c)' = TabOf(c)
  <2>1. CASE Find(c)
    <3>1. k = "find" /\ tx[c].op = "void"
      BY <1>4, <2>1, SettlePlan, RefundPlan, VoidPlan, MergePlan, CloseDayPlan
         DEF Find, Proceeds, InPlan
    <3> QED
      BY <1>4, <1>6, <3>1, VoidPlan
  <2>2. CASE ~Find(c)
    BY <1>2, <1>5, <2>2 DEF TabOf, rows
  <2> QED
    BY <2>1, <2>2
<1>9. CASE k \notin {"day", "key", "tab", "first", "second", "shift"}
  BY <1>1, <1>3, <1>5, <1>6, <1>7, <1>8, <1>9 DEF Earned, HoldsTabs
<1>10. CASE k \in {"day", "key", "tab", "first", "second", "shift"}
  <2>1. locks'[c] = locks[c] \cup Asks(c)
    BY <1>1, <1>3, <1>10 DEF Lock
  <2>2. HoldsTabs(c)'
    <3>1. /\ k = "tab" => <<"tab", TabOf(c), TRUE>> \in Asks(c)
          /\ k = "first" => <<"tab", Pair(c)[1], TRUE>> \in Asks(c)
          /\ k = "second" => <<"tab", Pair(c)[2], TRUE>> \in Asks(c)
      BY <1>4 DEF Asks
    <3> QED
      BY <1>1, <1>6, <1>7, <1>8, <2>1, <3>1 DEF HoldsTabs
  <2>3. ASSUME NEW l \in Asks(c)
        PROVE  \/ /\ l[1] = "day" /\ k = "day"
                  /\ l[2] = tx[c].day /\ l[3] = (tx[c].op = "closeDay")
               \/ l[1] = "day" /\ k = "key" /\ ~l[3]
               \/ l[1] = "tab" /\ k = "tab"
               \/ l[1] = "tab" /\ k = "first" /\ l[2] = Pair(c)[1]
               \/ l[1] = "tab" /\ k = "second"
               \/ l[1] = "shift" /\ k = "shift"
    <3>1. CASE k = "day"
      <4>1. l = <<"day", tx[c].day, tx[c].op = "closeDay">>
        BY <1>4, <2>3, <3>1, AsksByStep
      <4> QED
        BY <3>1, <4>1
    <3>2. CASE k = "key"
      <4>1. l = <<"day", tab[tx[c].x].day, FALSE>>
        BY <1>4, <2>3, <3>2, AsksByStep
      <4> QED
        BY <3>2, <4>1
    <3>3. CASE k \in {"tab", "first", "second"}
      <4>1. PICK t : /\ l = <<"tab", t, TRUE>>
                     /\ k = "first" => t = Pair(c)[1]
        BY <1>4, <2>3, <3>3, AsksByStep
      <4> QED
        BY <3>3, <4>1
    <3>4. CASE k = "shift"
      BY <1>4, <2>3, <3>4, AsksByStep
    <3> QED
      BY <1>10, <3>1, <3>2, <3>3, <3>4
  <2>4. k = "second" => Past(c, "first")
    BY <1>4, SettlePlan, RefundPlan, VoidPlan, MergePlan, CloseDayPlan DEF InPlan
  <2>5. Earned(c)'
    BY <1>1, <1>5, <1>6, <1>7, <2>1, <2>3, <2>4 DEF Earned
  <2> QED
    BY <2>2, <2>5
<1> QED
  BY <1>9, <1>10

\* At the start nobody holds a lock.
LEMMA LockInit == Init => LockInv
<1> SUFFICES ASSUME Init PROVE LockInv
  OBVIOUS
<1>1. \A c \in Clerks : tx[c] = NoTx /\ locks[c] = {}
  BY DEF Init
<1> QED
  BY <1>1, MoneyInitInv, IdleEarned DEF LockInv

\* A step of one call moves no other call and takes none of its locks.
LEMMA OthersStay ==
    ASSUME MoneyInv, NEW c \in Clerks, Call(c)
    PROVE  \A e \in Clerks : e # c => tx'[e] = tx[e] /\ locks'[e] = locks[e]
<1>1. tx \in [Clerks -> Calls] /\ locks \in [Clerks -> SUBSET Locks]
  BY LockTypes
<1> QED
  BY <1>1 DEF Call, Begin, Lock, Seek, Find, Spend, Look, Sum, Rollback,
     SettleTab, Refund, VoidAfterSend, MergeTabs, CloseDay, Ends

\* Each step keeps what calls hold within what they asked for.
LEMMA LockStep == LockInv /\ [Next]_vars => LockInv'
<1> SUFFICES ASSUME LockInv, [Next]_vars PROVE LockInv'
  OBVIOUS
<1>1. MoneyInv /\ MoneyInv'
  BY MoneyStep DEF LockInv
<1>2. ASSUME NEW e \in Clerks, tx'[e] = tx[e], locks'[e] = locks[e]
      PROVE  Earned(e)' /\ HoldsTabs(e)'
  <2>1. \A p \in AllPays : pay'[p].tab = pay[p].tab
    BY <1>1, PaysStayPut
  <2> QED
    BY <1>1, <1>2, <2>1, SameEarned DEF LockInv, MoneyInv
<1>3. ASSUME NEW c \in Clerks, Call(c)
      PROVE  \A e \in Clerks : Earned(e)' /\ HoldsTabs(e)'
  <2>1. Earned(c)' /\ HoldsTabs(c)'
    <3>1. ASSUME tx' = [tx EXCEPT ![c] = NoTx], locks' = [locks EXCEPT ![c] = {}]
          PROVE  Earned(c)' /\ HoldsTabs(c)'
      <4>1. tx'[c] = NoTx /\ locks'[c] = {}
        BY <1>1, <3>1, LockTypes
      <4>2. \A k : ~Past(c, k)'
        BY <4>1 DEF Past, NoTx, NewTx
      <4> QED
        BY <4>1, <4>2 DEF Earned, HoldsTabs, NoTx, NewTx
    <3> QED
      BY <1>3, <3>1, BeginEarns, StepEarns DEF Call, Rollback, SettleTab, Refund,
         VoidAfterSend, MergeTabs, CloseDay, Ends
  <2> QED
    BY <1>1, <1>2, <1>3, <2>1, OthersStay
<1>4. CASE Desk
  <2>1. UNCHANGED <<tx, locks>>
    BY <1>4 DEF Desk, OpenDay, OpenTab, TillAddItems, SettleZeroTab, CancelTab,
       ApplyDiscount, OpenTillShift, CloseTillShift, CloseTillShiftFor,
       VerifyManagerPin
  <2> QED
    BY <1>1, <1>2, <2>1 DEF LockInv
<1>5. CASE UNCHANGED vars
  BY <1>1, <1>2, <1>5 DEF LockInv, vars
<1> QED
  BY <1>1, <1>3, <1>4, <1>5 DEF LockInv, Next

-----------------------------------------------------------------------------
(* The order in which locks are asked for *)

\* Calls ask for a day first, then tabs by their ids, then shifts, and last
\* for the day of a payment; who asks for nothing comes after all of them.
Rank(c) ==
    IF tx[c].op = "idle" \/ Refused(c) THEN MaxTabs + 5
    ELSE CASE Step(c) = "day"              -> 0
           [] Step(c) \in {"tab", "first"} -> 1
           [] Step(c) = "second"           -> 1 + Pair(c)[1]
           [] Step(c) = "shift"            -> MaxTabs + 3
           [] Step(c) = "key"              -> MaxTabs + 4
           [] OTHER                        -> MaxTabs + 5

\* What is left of a plan once a lock is taken.
LEMMA PlanOrder ==
    ASSUME NEW c \in Clerks, InPlan(c)
    PROVE  /\ Past(c, "day") => Step(c) # "day"
           /\ Past(c, "key") => Step(c) = "commit"
           /\ Past(c, "tab") => Step(c) \in {"seek", "shift", "key", "commit"}
           /\ Past(c, "first") => Step(c) \in {"second", "commit"}
           /\ Past(c, "second") => Step(c) = "commit"
           /\ Past(c, "shift") => Step(c) \in {"key", "sum", "commit"}
           /\ tx[c].op = "closeDay" /\ Past(c, "day") =>
                 /\ Step(c) \in {"look", "shift", "sum", "commit"}
                 /\ Step(c) = "shift" => Past(c, "look")
           /\ Step(c) = "key" => tx[c].op = "settle" /\ Past(c, "tab")
           /\ Step(c) \in {"first", "second"} => tx[c].op = "merge"
           /\ Step(c) = "second" => Past(c, "first")
<1>1. CASE tx[c].op = "settle"
  BY <1>1, SettlePlan
<1>2. CASE tx[c].op = "refund"
  BY <1>2, RefundPlan
<1>3. CASE tx[c].op = "void"
  BY <1>3, VoidPlan
<1>4. CASE tx[c].op = "merge"
  BY <1>4, MergePlan
<1>5. CASE tx[c].op = "closeDay"
  BY <1>5, CloseDayPlan
<1> QED
  BY <1>1, <1>2, <1>3, <1>4, <1>5 DEF InPlan

\* Ranks are bounded, and those of a merge lie between the tabs' and the
\* shifts'.
LEMMA RankRange ==
    ASSUME LockInv, NEW c \in Clerks
    PROVE  /\ Rank(c) \in 0..(MaxTabs + 5)
           /\ Step(c) = "second" /\ tx[c].op # "idle" =>
                 /\ Pair(c)[1] \in Tabs /\ Pair(c)[2] \in Tabs
                 /\ Pair(c)[1] < Pair(c)[2]
<1>1. ASSUME Step(c) = "second", tx[c].op # "idle"
      PROVE  /\ Pair(c)[1] \in Tabs /\ Pair(c)[2] \in Tabs
             /\ Pair(c)[1] < Pair(c)[2]
  <2>1. InPlan(c) /\ Fits(c) /\ tx[c] # NoTx
    BY <1>1, LockTypes DEF LockInv, Typed, Fits, NoTx, NewTx
  <2>2. tx[c].op = "merge"
    BY <1>1, <2>1, PlanOrder
  <2>3. tx[c].x \in Tabs /\ tx[c].y \in Tabs /\ tx[c].x # tx[c].y
    BY <2>1, <2>2 DEF Fits, LockInv, Earned
  <2> QED
    BY <2>3, Ids DEF Pair
<1>2. MaxTabs \in Nat /\ \A t \in Tabs : t \in Nat /\ t <= MaxTabs
  BY Ids DEF Tabs
<1> QED
  BY <1>1, <1>2 DEF Rank

\* A call that waits for another ranks below it.
LEMMA WaitsClimb ==
    ASSUME LockInv, NEW c \in Clerks, NEW d \in Clerks, Waits(c, d)
    PROVE  Rank(c) < Rank(d)
<1>1. /\ tx[c].op # "idle" /\ ~Refused(c) /\ c # d
      /\ \E l \in locks[d], m \in Asks(c) : Clash(l, m)
  BY DEF Waits, Taken
<1>2. PICK l \in locks[d], m \in Asks(c) : Clash(l, m)
  BY <1>1
<1>3. InPlan(c) /\ Fits(c)
  BY <1>1, LockTypes DEF LockInv, Typed, Fits, NoTx, NewTx
<1>4. tx[d] # NoTx
  <2>1. CASE tx[d] = NoTx
    BY <2>1, <1>2, PastOfNoTx DEF LockInv, Earned
  <2> QED
    BY <2>1
<1>5. InPlan(d) /\ Fits(d) /\ tx[d].op # "idle"
  BY <1>4, LockTypes DEF LockInv, Typed, Fits, InPlan
<1>6. Earned(d) /\ Held(d) /\ MoneyInv
  BY DEF LockInv, MoneyInv
<1>7. MaxTabs \in Nat /\ \A t \in Tabs : t \in Nat \ {0} /\ t <= MaxTabs
  BY Ids DEF Tabs
<1>8. SUFFICES ASSUME ~Refused(d) PROVE Rank(c) < Rank(d)
  <2>1. CASE Refused(d)
    <3>1. Rank(d) = MaxTabs + 5
      BY <2>1 DEF Rank
    <3>2. Step(c) \in {"day", "key", "tab", "first", "second", "shift"}
      BY <1>2, AsksByStep
    <3>3. Step(c) = "second" => Pair(c)[1] \in Tabs
      BY <1>1, RankRange
    <3>4. Rank(c) <= MaxTabs + 4
      BY <1>1, <1>7, <3>2, <3>3 DEF Rank
    <3> QED
      BY <1>7, <3>1, <3>4, RankRange
  <2> QED
    BY <2>1
<1>9. CASE Step(c) = "day"
  <2>1. m = <<"day", tx[c].day, tx[c].op = "closeDay">>
    BY <1>2, <1>9, AsksByStep
  <2>2. l[1] = "day"
    BY <1>2, <2>1 DEF Clash
  <2>3. Step(d) # "day"
    BY <1>5, <1>6, <2>2, PlanOrder DEF Earned
  <2>4. Rank(c) = 0
    BY <1>1, <1>9 DEF Rank
  <2>5. Step(d) = "second" => Pair(d)[1] \in Tabs
    BY <1>5, RankRange
  <2> QED
    BY <1>5, <1>7, <1>8, <2>3, <2>4, <2>5 DEF Rank
<1>10. CASE Step(c) \in {"tab", "first"}
  <2>1. PICK t : m = <<"tab", t, TRUE>>
    <3>1. CASE Step(c) = "tab"
      <4>1. m = <<"tab", TabOf(c), TRUE>>
        BY <1>2, <3>1, AsksByStep
      <4> QED
        BY <4>1
    <3>2. CASE Step(c) = "first"
      <4>1. m = <<"tab", Pair(c)[1], TRUE>>
        BY <1>2, <3>2, AsksByStep
      <4> QED
        BY <4>1
    <3> QED
      BY <1>10, <3>1, <3>2
  <2>2. l[1] = "tab"
    BY <1>2, <2>1 DEF Clash
  <2>3. Step(d) \in {"seek", "shift", "key", "commit", "second"}
    BY <1>5, <1>6, <2>2, PlanOrder DEF Earned
  <2>4. Rank(c) = 1
    BY <1>1, <1>10 DEF Rank
  <2>5. Step(d) = "second" => Pair(d)[1] \in Tabs
    BY <1>5, RankRange
  <2> QED
    BY <1>5, <1>7, <1>8, <2>3, <2>4, <2>5 DEF Rank
<1>11. CASE Step(c) = "second"
  <2>1. m = <<"tab", Pair(c)[2], TRUE>>
    BY <1>2, <1>11, AsksByStep
  <2>2. l[1] = "tab" /\ l[2] = Pair(c)[2]
    BY <1>2, <2>1 DEF Clash
  <2>3. /\ Pair(c)[1] \in Tabs /\ Pair(c)[2] \in Tabs
        /\ Pair(c)[1] < Pair(c)[2]
    BY <1>1, <1>11, RankRange
  <2>4. /\ Step(d) \in {"seek", "shift", "key", "commit", "second"}
        /\ Step(d) = "second" => l[2] = Pair(d)[1]
    BY <1>5, <1>6, <2>2, PlanOrder DEF Earned
  <2>5. Rank(c) = 1 + Pair(c)[1]
    BY <1>1, <1>11 DEF Rank
  <2> QED
    BY <1>5, <1>7, <1>8, <2>2, <2>3, <2>4, <2>5 DEF Rank
<1>12. CASE Step(c) = "shift"
  <2>1. m[1] = "shift"
    BY <1>2, <1>12, AsksByStep
  <2>2. l[1] = "shift"
    BY <1>2, <2>1 DEF Clash
  <2>3. Step(d) \in {"key", "sum", "commit"}
    BY <1>5, <1>6, <2>2, PlanOrder DEF Earned
  <2>4. Rank(c) = MaxTabs + 3
    BY <1>1, <1>12 DEF Rank
  <2> QED
    BY <1>5, <1>7, <1>8, <2>3, <2>4 DEF Rank
<1>13. CASE Step(c) = "key"
  <2>1. m = <<"day", tab[tx[c].x].day, FALSE>>
    BY <1>2, <1>13, AsksByStep
  <2>2. l[1] = "day" /\ l[2] = tab[tx[c].x].day /\ l[3]
    BY <1>2, <2>1 DEF Clash
  <2>3. /\ tx[d].op = "closeDay" /\ Past(d, "day")
        /\ tx[d].day = tab[tx[c].x].day
    BY <1>6, <2>2 DEF Earned
  <2>4. tx[c].op = "settle" /\ Past(c, "tab") /\ tx[c].x \in Tabs
    BY <1>3, <1>13, PlanOrder DEF Fits, NoTx, NewTx
  <2>5. tab[tx[c].x].st \in Unpaid
    BY <1>1, <2>4 DEF Refused, CanSettle
  <2>6. ~NoOpenTab(tx[d].day)
    BY <2>3, <2>4, <2>5 DEF NoOpenTab
  <2>7. Step(d) # "shift"
    BY <1>5, <1>6, <2>3, <2>6, PlanOrder DEF Held, Closing
  <2>8. Step(d) \in {"look", "sum", "commit"}
    BY <1>5, <2>3, <2>7, PlanOrder
  <2>9. Rank(c) = MaxTabs + 4
    BY <1>1, <1>13 DEF Rank
  <2> QED
    BY <1>5, <1>7, <1>8, <2>8, <2>9 DEF Rank
<1> QED
  BY <1>2, <1>9, <1>10, <1>11, <1>12, <1>13, AsksByStep

\* Of numbers up to n, one is the largest.
LEMMA Largest ==
    ASSUME NEW n \in Nat, NEW T, T \subseteq 0..n, T # {}
    PROVE  \E x \in T : \A y \in T : y <= x
<1> DEFINE B == {k \in 0..n : \A y \in T : y <= k}
           F == {0..k : k \in B}
<1>1. IsFiniteSet(0..n)
  BY FS_Interval
<1>2. n \in B
  OBVIOUS
<1>3. F \subseteq SUBSET (0..n) /\ F # {}
  BY <1>2
<1>4. PICK m \in F : \A s \in F : s \subseteq m => s = m
  <2> DEFINE S == 0..n
  <2>1. IsFiniteSet(S) /\ F \subseteq SUBSET S /\ F # {}
    BY <1>1, <1>3
  <2> HIDE DEF F, S
  <2> QED
    BY <2>1, SmallestMember
<1>5. PICK k \in B : m = 0..k
  OBVIOUS
<1>6. ASSUME k \notin T PROVE FALSE
  <2>1. PICK z \in T : TRUE
    OBVIOUS
  <2>2. z \in 0..n /\ z <= k /\ z # k /\ k \in 0..n
    BY <1>5, <1>6
  <2>3. \A y \in T : y \in 0..n /\ y <= k /\ y # k
    BY <1>5, <1>6
  <2>4. k - 1 \in B
    BY <2>2, <2>3
  <2>5. 0..(k - 1) \in F
    BY <2>4
  <2>6. 0..(k - 1) \subseteq 0..k /\ k \in 0..k /\ k \notin 0..(k - 1)
    BY <2>2
  <2> QED
    BY <1>4, <1>5, <2>5, <2>6
<1> QED
  BY <1>5, <1>6

\* No set of sessions, however many, ever waits for each other: the one of
\* the highest rank waits for none of the others.
THEOREM NoDeadlock == Spec => []NoWaitCycle
<1>1. LockInv => NoWaitCycle
  <2> SUFFICES ASSUME LockInv, NEW ring \in SUBSET Clerks, ring # {}
               PROVE  \E c \in ring : \A d \in ring : ~Waits(c, d)
    BY DEF NoWaitCycle
  <2> DEFINE T == {Rank(c) : c \in ring}
  <2>1. MaxTabs + 5 \in Nat
    BY Ids
  <2>2. T \subseteq 0..(MaxTabs + 5) /\ T # {}
    <3>1. \A c \in ring : Rank(c) \in 0..(MaxTabs + 5)
      BY RankRange
    <3>2. PICK c \in ring : TRUE
      OBVIOUS
    <3> QED
      BY <3>1, <3>2
  <2>3. PICK x \in T : \A y \in T : y <= x
    <3> HIDE DEF T
    <3> QED
      BY <2>1, <2>2, Largest
  <2>4. PICK c \in ring : \A d \in ring : Rank(d) <= Rank(c)
    BY <2>3
  <2>5. ASSUME NEW d \in ring, Waits(c, d) PROVE FALSE
    <3>1. Rank(c) < Rank(d)
      BY <2>5, WaitsClimb
    <3>2. Rank(c) \in Int /\ Rank(d) \in Int
      BY RankRange
    <3> QED
      BY <2>4, <3>1, <3>2
  <2> QED
    BY <2>5
<1> QED
  BY <1>1, LockInit, LockStep, PTL DEF Spec

=============================================================================
