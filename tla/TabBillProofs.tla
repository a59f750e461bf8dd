--------------------------- MODULE TabBillProofs ----------------------------
(***************************************************************************)
(* Proofs about what is on a tab and what was paid of it: bills, payments  *)
(* and refunds add up, for any number of rows and any number of sessions.  *)
(***************************************************************************)
EXTENDS TabMoneyProofs, SumTheorems

-----------------------------------------------------------------------------
(* The sums of TillRows *)

\* The tables that are summed over are finite.
LEMMA FiniteRows ==
    /\ IsFiniteSet(Lines) /\ IsFiniteSet(Discs)
    /\ IsFiniteSet(Pays) /\ IsFiniteSet(Refs)
  BY Ids, FS_Interval DEF Lines, Discs, Pays, Refs

\* What was refunded of a payment is an amount.
LEMMA RefundedIsAmount == RowsTypeOK => \A p : Refunded(p) \in Nat
<1> SUFFICES ASSUME RowsTypeOK, NEW p PROVE Refunded(p) \in Nat
  OBVIOUS
<1> DEFINE f == [r \in Refs |-> ref[r].amt]
<1>1. IsFiniteSet(RefsOf(p)) /\ RefsOf(p) \subseteq Refs
  BY FiniteRows, FS_Subset DEF RefsOf
<1>2. \A r \in RefsOf(p) : f[r] \in Nat
  BY <1>1 DEF RowsTypeOK
<1>3. SumFunctionOnSet(f, RefsOf(p)) \in Nat
  <2> HIDE DEF f
  <2> QED
    BY <1>1, <1>2, SumNat
<1> QED
  BY <1>3 DEF Refunded

\* What was paid on a tab is an amount, what is left of it after the refunds
\* is no more.
LEMMA PaidIsAmount ==
    RowsTypeOK => \A t : /\ Gross(t) \in Nat /\ NetPaid(t) \in Int
                         /\ NetPaid(t) <= Gross(t)
<1> SUFFICES ASSUME RowsTypeOK, NEW t
             PROVE  /\ Gross(t) \in Nat /\ NetPaid(t) \in Int
                    /\ NetPaid(t) <= Gross(t)
  OBVIOUS
<1> DEFINE f == [p \in Pays |-> pay[p].amt]
           g == [p \in Pays |-> pay[p].amt - Refunded(p)]
<1>1. IsFiniteSet(PaysOf(t)) /\ PaysOf(t) \subseteq Pays
  BY FiniteRows, FS_Subset DEF PaysOf
<1>2. \A p \in PaysOf(t) : /\ f[p] \in Nat /\ g[p] \in Int /\ f[p] \in Int
                           /\ g[p] <= f[p]
  BY <1>1, RefundedIsAmount DEF RowsTypeOK
<1>3. /\ SumFunctionOnSet(f, PaysOf(t)) \in Nat
      /\ SumFunctionOnSet(g, PaysOf(t)) \in Int
      /\ SumFunctionOnSet(g, PaysOf(t)) <= SumFunctionOnSet(f, PaysOf(t))
  <2> HIDE DEF f, g
  <2>1. SumFunctionOnSet(f, PaysOf(t)) \in Nat
    BY <1>1, <1>2, SumNat
  <2>2. SumFunctionOnSet(g, PaysOf(t)) \in Int
    BY <1>1, <1>2, SumInt
  <2>3. SumFunctionOnSet(g, PaysOf(t)) <= SumFunctionOnSet(f, PaysOf(t))
    BY <1>1, <1>2, SumMonotone
  <2> QED
    BY <2>1, <2>2, <2>3
<1> QED
  BY <1>3 DEF Gross, NetPaid

\* The bill after a step is an amount too.
LEMMA NextBillIsAmount == (\A t : Total(t) \in Nat)'
<1>1. \A t : Total(t) \in Nat
  BY BillIsAmount
<1> QED
  BY <1>1, PTL

\* A tab without payments has nothing paid.
LEMMA NothingPaid ==
    ASSUME NEW t, PaysOf(t) = {}
    PROVE  NetPaid(t) = 0 /\ Gross(t) = 0
  BY SumEmpty DEF NetPaid, Gross

\* What was refunded of p changes with the refunds of p only.
LEMMA SameRefunded ==
    ASSUME RowsTypeOK, NEW p,
           \A r \in Refs : /\ ref'[r].pay = p <=> ref[r].pay = p
                           /\ ref[r].pay = p => ref'[r].amt = ref[r].amt
    PROVE  Refunded(p)' = Refunded(p)
<1> DEFINE f == [r \in Refs |-> ref[r].amt]
           g == [r \in Refs |-> ref'[r].amt]
<1>1. IsFiniteSet(RefsOf(p)) /\ RefsOf(p)' = RefsOf(p)
  BY FiniteRows, FS_Subset DEF RefsOf
<1>2. \A r \in RefsOf(p) : f[r] \in Int /\ f[r] = g[r]
  BY DEF RowsTypeOK, RefsOf
<1>3. SumFunctionOnSet(f, RefsOf(p)) = SumFunctionOnSet(g, RefsOf(p))
  <2> HIDE DEF f, g
  <2> QED
    BY <1>1, <1>2, SumSame
<1> QED
  BY <1>1, <1>3 DEF Refunded

\* What was paid on t changes with the payments of t and their refunds only.
LEMMA SamePaid ==
    ASSUME RowsTypeOK, NEW t,
           \A p \in Pays :
              /\ pay'[p].tab = t <=> pay[p].tab = t
              /\ pay[p].tab = t => /\ pay'[p].amt = pay[p].amt
                                   /\ Refunded(p)' = Refunded(p)
    PROVE  NetPaid(t)' = NetPaid(t) /\ Gross(t)' = Gross(t)
<1> DEFINE f == [p \in Pays |-> pay[p].amt]
           F == [p \in Pays |-> pay'[p].amt]
           g == [p \in Pays |-> pay[p].amt - Refunded(p)]
           G == [p \in Pays |-> pay'[p].amt - Refunded(p)']
<1>1. IsFiniteSet(PaysOf(t)) /\ PaysOf(t)' = PaysOf(t)
  BY FiniteRows, FS_Subset DEF PaysOf
<1>2. \A p \in PaysOf(t) : /\ f[p] \in Int /\ f[p] = F[p]
                           /\ g[p] \in Int /\ g[p] = G[p]
  BY RefundedIsAmount DEF RowsTypeOK, PaysOf
<1>3. /\ SumFunctionOnSet(f, PaysOf(t)) = SumFunctionOnSet(F, PaysOf(t))
      /\ SumFunctionOnSet(g, PaysOf(t)) = SumFunctionOnSet(G, PaysOf(t))
  <2> HIDE DEF f, g, F, G
  <2> QED
    BY <1>1, <1>2, SumSame
<1> QED
  BY <1>1, <1>3 DEF Gross, NetPaid

\* The bill of t changes with the live lines and the discounts of t only.
LEMMA SameBill ==
    ASSUME NEW t,
           \A l \in Lines : (line'[l].tab = t /\ line'[l].st = "live")
                              <=> (line[l].tab = t /\ line[l].st = "live"),
           \A a \in Discs : (disc'[a].tab = t /\ disc'[a].amt = 1)
                              <=> (disc[a].tab = t /\ disc[a].amt = 1)
    PROVE  /\ Subtotal(t)' = Subtotal(t) /\ Discount(t)' = Discount(t)
           /\ Total(t)' = Total(t)
<1>1. /\ {l \in LinesOf(t)' : line'[l].st = "live"}
           = {l \in LinesOf(t) : line[l].st = "live"}
      /\ {a \in DiscsOf(t)' : disc'[a].amt = 1}
           = {a \in DiscsOf(t) : disc[a].amt = 1}
  BY DEF LinesOf, DiscsOf
<1>2. Subtotal(t)' = Subtotal(t) /\ Discount(t)' = Discount(t)
  BY <1>1 DEF Subtotal, Discount
<1> QED
  BY <1>2 DEF Total

-----------------------------------------------------------------------------
(* The invariant behind the bills *)

\* A payment is on a tab that was settled, wholly or in part.
PaidTabs == \A p \in AllPays : tab[pay[p].tab].st \in {"awaiting", "settled"}

\* The part of NeverOverpaid and SettledIsPaid that is about tab t.
Fine(t) ==
    /\ tab[t].st \in Unpaid \cup {"settled"} => NetPaid(t) <= Total(t)
    /\ tab[t].st = "settled" => /\ tab[t].total = Total(t)
                                /\ Gross(t) >= tab[t].total

RefundsFit == \A p \in Pays : Refunded(p) <= pay[p].amt

BillInv == /\ MoneyInv /\ PaidTabs /\ RefundsFit
           /\ \A t \in Tabs : Fine(t)

\* The types the invariant brings along.
LEMMA BillInvTypes ==
    ASSUME BillInv
    PROVE  /\ Typed /\ RowsTypeOK /\ tab \in [Tabs -> TabRows]
           /\ line \in [Lines -> LineRows] /\ disc \in [Discs -> DiscRows]
           /\ pay \in [Pays -> PayRows] /\ ref \in [Refs -> RefRows]
  BY RowsTyped DEF BillInv, MoneyInv, Typed, MoneyTypeOK

\* A tab that is open, or not there, has no payment.
LEMMA OpenIsUnpaid ==
    ASSUME BillInv, NEW t \in Tabs, tab[t].st \notin {"awaiting", "settled"}
    PROVE  PaysOf(t) = {} /\ NetPaid(t) = 0
<1>1. PaysOf(t) = {}
  BY Ids DEF BillInv, PaidTabs, PaysOf, AllPays
<1> QED
  BY <1>1, NothingPaid

\* A tab whose row, bill and payments stay is fine still.
LEMMA FineStays ==
    ASSUME NEW t, Fine(t), tab'[t] = tab[t], Total(t)' = Total(t),
           NetPaid(t)' = NetPaid(t), Gross(t)' = Gross(t)
    PROVE  Fine(t)'
  BY DEF Fine

\* A step that moves no payment or refund keeps what was paid.
LEMMA SamePays ==
    ASSUME BillInv, UNCHANGED <<pay, ref>>
    PROVE  /\ RefundsFit' /\ AllPays' = AllPays
           /\ \A t : /\ PaysOf(t)' = PaysOf(t)
                     /\ NetPaid(t)' = NetPaid(t) /\ Gross(t)' = Gross(t)
<1>1. \A p : Refunded(p)' = Refunded(p)
  BY BillInvTypes, SameRefunded
<1>2. \A t : NetPaid(t)' = NetPaid(t) /\ Gross(t)' = Gross(t)
  BY <1>1, BillInvTypes, SamePaid
<1> QED
  BY <1>1, <1>2 DEF BillInv, RefundsFit, AllPays, PaysOf

\* A step that touches no bill: it keeps the invariant.
LEMMA BillsStay ==
    ASSUME BillInv, MoneyInv', UNCHANGED <<tab, line, disc, pay, ref>>
    PROVE  BillInv'
<1>1. \A t : Total(t)' = Total(t)
  BY SameBill
<1>2. \A t \in Tabs : Fine(t)'
  BY <1>1, SamePays, FineStays DEF BillInv
<1> QED
  BY <1>2, SamePays DEF BillInv, PaidTabs

-----------------------------------------------------------------------------
(* The steps that write tabs, lines, discounts, payments or refunds *)

\* A payment of at most what is due.
LEMMA SettleKeepsBills ==
    ASSUME BillInv, MoneyInv', NEW c \in Clerks, SettleTab(c)
    PROVE  BillInv'
<1>1. PICK t \in Tabs : t = tx[c].x /\ tab[t].st \in Unpaid
  BY SettleCommits DEF SettleTab, BillInv
<1>2. PICK p \in Pays, amt \in 1..Due(t) :
        /\ NextId(p, MaxPays, AllPays)
        /\ pay' = [pay EXCEPT ![p] = [tab |-> t, day |-> tab[t].day, amt |-> amt,
                                      shift |-> tx[c].shift]]
        /\ tab' = [tab EXCEPT ![t] =
                     [@ EXCEPT !.total = Stamp(t),
                               !.st = IF amt = Due(t) THEN "settled"
                                                      ELSE "awaiting"]]
  BY <1>1 DEF SettleTab
<1>3. UNCHANGED <<line, disc, ref>>
  BY DEF SettleTab
<1>4. p \notin AllPays /\ pay[p].tab = 0
  BY <1>2 DEF NextId, AllPays
<1>5. /\ pay'[p].tab = t /\ pay'[p].amt = amt
      /\ \A q \in Pays : q # p => pay'[q] = pay[q]
  BY <1>2, BillInvTypes
<1>6. /\ tab'[t].total = Total(t)
      /\ tab'[t].st = IF amt = Due(t) THEN "settled" ELSE "awaiting"
      /\ \A u \in Tabs : u # t => tab'[u] = tab[u]
  BY <1>1, <1>2, BillInvTypes DEF TabRows, Stamp
<1>7. t # 0 /\ NetPaid(t) \in Int /\ Gross(t) \in Nat /\ Total(t) \in Nat
      /\ NetPaid(t) <= Gross(t)
  BY <1>1, Ids, BillInvTypes, PaidIsAmount, BillIsAmount
<1>8. amt \in Int /\ 1 <= amt /\ amt <= Total(t) - NetPaid(t)
  BY <1>7 DEF Due
<1>9. \A q : Refunded(q)' = Refunded(q)
  BY <1>3, BillInvTypes, SameRefunded
<1>10. Refunded(p) = 0
  <2>1. RefsOf(p) = {}
    <3>1. ASSUME NEW r \in Refs, ref[r].pay = p PROVE FALSE
      <4>1. r \in AllRefs
        BY <3>1, Ids DEF AllRefs
      <4> QED
        BY <1>4, <3>1, <4>1 DEF BillInv, MoneyInv, RowsInOrder
    <3> QED
      BY <3>1 DEF RefsOf
  <2> QED
    BY <2>1, SumEmpty DEF Refunded
<1>11. \A u : Total(u)' = Total(u)
  BY <1>3, SameBill
<1>12. ASSUME NEW u \in Tabs, u # t PROVE Fine(u)'
  <2>1. \A q \in Pays :
           /\ pay'[q].tab = u <=> pay[q].tab = u
           /\ pay[q].tab = u => pay'[q].amt = pay[q].amt
    BY <1>4, <1>5, <1>12, Ids
  <2>2. NetPaid(u)' = NetPaid(u) /\ Gross(u)' = Gross(u)
    BY <1>9, <2>1, BillInvTypes, SamePaid
  <2> QED
    BY <1>6, <1>11, <1>12, <2>2, FineStays DEF BillInv
<1>13. NetPaid(t)' = NetPaid(t) + amt /\ Gross(t)' = Gross(t) + amt
  <2> DEFINE f == [q \in Pays |-> pay[q].amt]
             F == [q \in Pays |-> pay'[q].amt]
             g == [q \in Pays |-> pay[q].amt - Refunded(q)]
             G == [q \in Pays |-> pay'[q].amt - Refunded(q)']
             S == PaysOf(t)
  <2>1. /\ IsFiniteSet(S) /\ p \notin S /\ PaysOf(t)' = S \cup {p}
        /\ S \subseteq Pays
    BY <1>4, <1>5, <1>7, FiniteRows, FS_Subset DEF PaysOf
  <2>2. /\ F[p] = amt /\ G[p] = amt
        /\ \A q \in S : /\ f[q] \in Int /\ f[q] = F[q]
                        /\ g[q] \in Int /\ g[q] = G[q]
    <3>1. F[p] = amt /\ G[p] = amt - 0
      BY <1>5, <1>9, <1>10
    <3>2. ASSUME NEW q \in S
          PROVE  /\ f[q] \in Int /\ f[q] = F[q]
                 /\ g[q] \in Int /\ g[q] = G[q]
      <4>1. q \in Pays /\ pay'[q] = pay[q] /\ pay[q].amt \in Nat
        BY <1>5, <2>1, <3>2, BillInvTypes DEF PayRows
      <4>2. Refunded(q)' = Refunded(q) /\ Refunded(q) \in Nat
        BY <1>9, BillInvTypes, RefundedIsAmount
      <4> QED
        BY <4>1, <4>2
    <3> HIDE DEF f, F, g, G, S
    <3> QED
      BY <1>8, <3>1, <3>2
  <2>3. /\ SumFunctionOnSet(F, S \cup {p}) = amt + SumFunctionOnSet(f, S)
        /\ SumFunctionOnSet(G, S \cup {p}) = amt + SumFunctionOnSet(g, S)
    <3> HIDE DEF f, F, g, G, S
    <3>1. \A q \in S \cup {p} : F[q] \in Int /\ G[q] \in Int
      BY <1>8, <2>2
    <3>2. /\ SumFunctionOnSet(F, S \cup {p}) = F[p] + SumFunctionOnSet(F, S)
          /\ SumFunctionOnSet(G, S \cup {p}) = G[p] + SumFunctionOnSet(G, S)
      BY <2>1, <3>1, SumAdd
    <3>3. /\ SumFunctionOnSet(f, S) = SumFunctionOnSet(F, S)
          /\ SumFunctionOnSet(g, S) = SumFunctionOnSet(G, S)
      BY <2>1, <2>2, SumSame
    <3> QED
      BY <2>2, <3>2, <3>3
  <2>4. /\ Gross(t) = SumFunctionOnSet(f, S)
        /\ NetPaid(t) = SumFunctionOnSet(g, S)
        /\ Gross(t)' = SumFunctionOnSet(F, S \cup {p})
        /\ NetPaid(t)' = SumFunctionOnSet(G, S \cup {p})
    BY <2>1 DEF Gross, NetPaid
  <2> HIDE DEF f, F, g, G, S
  <2> QED
    BY <1>7, <1>8, <2>3, <2>4
<1>14. Fine(t)'
  BY <1>6, <1>7, <1>8, <1>11, <1>13 DEF Fine, Due
<1>15. PaidTabs'
  <2>1. \A q \in Pays : pay'[q].tab # 0 => tab'[pay'[q].tab].st \in {"awaiting", "settled"}
    BY <1>4, <1>5, <1>6, BillInvTypes DEF BillInv, PaidTabs, AllPays, PayRows
  <2> QED
    BY <2>1 DEF PaidTabs, AllPays
<1>16. RefundsFit'
  <2>1. ASSUME NEW q \in Pays PROVE Refunded(q)' <= pay'[q].amt
    BY <1>5, <1>8, <1>9, <1>10 DEF BillInv, RefundsFit
  <2> QED
    BY <2>1 DEF RefundsFit
<1> QED
  BY <1>12, <1>14, <1>15, <1>16 DEF BillInv

\* A refund of at most what is left of its payment.
LEMMA RefundKeepsBills ==
    ASSUME BillInv, MoneyInv', NEW c \in Clerks, Refund(c)
    PROVE  BillInv'
<1>1. PICK p \in AllPays : p = tx[c].x /\ Refunded(p) + tx[c].y <= pay[p].amt
  <2>1. Commits(c, "refund") /\ tx[c].x \in AllPays
    BY RefundCommits DEF Refund, BillInv
  <2>2. InPlan(c) /\ tx[c].op = "refund"
    BY <2>1, BillInvTypes DEF Commits, Typed, Fits, NoTx, NewTx
  <2>3. Past(c, "tab")
    BY <2>1, <2>2, RefundPlan DEF Commits
  <2> QED
    BY <2>1, <2>2, <2>3 DEF Commits, Refused, CanRefund
<1>2. PICK amt \in Nat : amt = tx[c].y
  BY BillInvTypes DEF Typed, MoneyTypeOK
<1>3. PICK r \in Refs :
        /\ NextId(r, MaxRefs, AllRefs)
        /\ ref' = [ref EXCEPT ![r] = [pay |-> p, amt |-> amt,
                                      shift |-> tx[c].shift, made |-> tx[c].day,
                                      auth |-> tx[c].grant]]
  BY <1>1, <1>2 DEF Refund, Given
<1>4. UNCHANGED <<tab, line, disc, pay>>
  BY DEF Refund
<1>5. /\ ref'[r].pay = p /\ ref'[r].amt = amt
      /\ \A q \in Refs : q # r => ref'[q] = ref[q]
  BY <1>3, BillInvTypes
<1>6. ref[r].pay = 0 /\ p \in Pays /\ p # 0
  BY <1>3, Ids DEF NextId, AllRefs, AllPays
<1>7. ASSUME NEW q \in Pays, q # p PROVE Refunded(q)' = Refunded(q)
  BY <1>5, <1>6, <1>7, Ids, BillInvTypes, SameRefunded
<1>8. Refunded(p)' = Refunded(p) + amt
  <2> DEFINE f == [q \in Refs |-> ref[q].amt]
             F == [q \in Refs |-> ref'[q].amt]
             S == RefsOf(p)
  <2>1. /\ IsFiniteSet(S) /\ r \notin S /\ RefsOf(p)' = S \cup {r}
        /\ S \subseteq Refs
    BY <1>5, <1>6, FiniteRows, FS_Subset DEF RefsOf
  <2>2. /\ F[r] = amt
        /\ \A q \in S : f[q] \in Int /\ f[q] = F[q]
    BY <1>5, <2>1, BillInvTypes DEF RefRows
  <2>3. /\ Refunded(p) = SumFunctionOnSet(f, S)
        /\ Refunded(p)' = SumFunctionOnSet(F, S \cup {r})
    BY <2>1 DEF Refunded
  <2> HIDE DEF f, F, S
  <2>4. \A q \in S \cup {r} : F[q] \in Int
    BY <2>2
  <2>5. SumFunctionOnSet(F, S \cup {r}) = F[r] + SumFunctionOnSet(F, S)
    BY <2>1, <2>4, SumAdd
  <2>6. SumFunctionOnSet(f, S) = SumFunctionOnSet(F, S)
    BY <2>1, <2>2, SumSame
  <2>7. Refunded(p) \in Nat
    BY BillInvTypes, RefundedIsAmount
  <2> QED
    BY <2>2, <2>3, <2>5, <2>6, <2>7
<1>9. RefundsFit'
  <2>1. ASSUME NEW q \in Pays PROVE Refunded(q)' <= pay[q].amt
    BY <1>1, <1>2, <1>7, <1>8, <2>1 DEF BillInv, RefundsFit
  <2> QED
    BY <1>4, <2>1 DEF RefundsFit
<1>10. \A u : Total(u)' = Total(u)
  BY <1>4, SameBill
<1>11. ASSUME NEW u \in Tabs
       PROVE  NetPaid(u)' <= NetPaid(u) /\ Gross(u)' = Gross(u)
  <2> DEFINE g == [q \in Pays |-> pay[q].amt - Refunded(q)]
             G == [q \in Pays |-> pay'[q].amt - Refunded(q)']
             S == PaysOf(u)
  <2>1. IsFiniteSet(S) /\ S \subseteq Pays /\ PaysOf(u)' = S
    BY <1>4, FiniteRows, FS_Subset DEF PaysOf
  <2>2. ASSUME NEW q \in S
        PROVE  g[q] \in Int /\ G[q] \in Int /\ G[q] <= g[q]
    <3>1. q \in Pays /\ pay'[q] = pay[q] /\ pay[q].amt \in Nat
      BY <1>4, <2>1, <2>2, BillInvTypes DEF PayRows
    <3>2. Refunded(q) \in Nat
      BY BillInvTypes, RefundedIsAmount
    <3>3. Refunded(q)' \in Nat /\ Refunded(q) <= Refunded(q)'
      BY <1>7, <1>8, <3>1, <3>2
    <3> QED
      BY <3>1, <3>2, <3>3
  <2>3. /\ NetPaid(u) = SumFunctionOnSet(g, S)
        /\ NetPaid(u)' = SumFunctionOnSet(G, S)
    BY <2>1 DEF NetPaid
  <2>4. Gross(u)' = Gross(u)
    BY <1>4, <2>1 DEF Gross
  <2> HIDE DEF g, G, S
  <2>5. SumFunctionOnSet(G, S) <= SumFunctionOnSet(g, S)
    BY <2>1, <2>2, SumMonotone
  <2> QED
    BY <2>3, <2>4, <2>5
<1>12. ASSUME NEW u \in Tabs PROVE Fine(u)'
  <2>1. /\ NetPaid(u) \in Int /\ NetPaid(u)' \in Int /\ Total(u) \in Nat
    <3>1. RowsTypeOK'
      BY DEF MoneyInv, Typed, MoneyTypeOK
    <3>2. (\A t : /\ Gross(t) \in Nat /\ NetPaid(t) \in Int
                  /\ NetPaid(t) <= Gross(t))'
      BY <3>1, PaidIsAmount, PTL
    <3>3. NetPaid(u)' \in Int
      BY <3>2
    <3> QED
      BY <3>3, BillInvTypes, PaidIsAmount, BillIsAmount
  <2>2. NetPaid(u)' <= NetPaid(u) /\ Gross(u)' = Gross(u)
    BY <1>11
  <2>3. Fine(u) /\ tab'[u] = tab[u] /\ Total(u)' = Total(u)
    BY <1>4, <1>10 DEF BillInv
  <2> QED
    BY <2>1, <2>2, <2>3 DEF Fine
<1>13. PaidTabs'
  BY <1>4 DEF BillInv, PaidTabs, AllPays
<1> QED
  BY <1>9, <1>12, <1>13 DEF BillInv

\* A line is voided only if the smaller bill covers what was paid.
LEMMA VoidKeepsBills ==
    ASSUME BillInv, MoneyInv', NEW c \in Clerks, VoidAfterSend(c)
    PROVE  BillInv'
<1>1. UNCHANGED <<tab, disc, pay, ref>>
  BY DEF VoidAfterSend
<1>2. PICK l \in Lines : l = tx[c].x /\ CanVoid(l, tx[c].at)
  <2>1. Commits(c, "void") /\ tx[c].op = "void"
    BY DEF VoidAfterSend, Commits
  <2>2. InPlan(c) /\ tx[c].x \in Lines
    BY <2>1, BillInvTypes DEF Typed, Fits, NoTx, NewTx
  <2>3. Past(c, "tab")
    BY <2>1, <2>2, VoidPlan DEF Commits
  <2> QED
    BY <2>1, <2>2, <2>3 DEF Commits, Refused
<1>3. CASE line[l].st # "live"
  <2>1. \A i \in Lines : /\ line'[i].tab = line[i].tab
                         /\ line'[i].st = "live" <=> line[i].st = "live"
    BY <1>2, <1>3, BillInvTypes DEF VoidAfterSend, LineRows
  <2>2. \A t : Total(t)' = Total(t)
    BY <1>1, <2>1, SameBill
  <2>3. \A t \in Tabs : Fine(t)'
    BY <1>1, <2>2, SamePays, FineStays DEF BillInv
  <2> QED
    BY <1>1, <2>3, SamePays DEF BillInv, PaidTabs
<1>4. CASE line[l].st = "live"
  <2>1. PICK t \in Tabs \cup {0} : t = line[l].tab
    BY BillInvTypes DEF LineRows
  <2>2. /\ tab[t].st \in Unpaid
        /\ NetPaid(t) > 0 => TotalOf(Subtotal(t) - Price, Discount(t)) >= NetPaid(t)
    BY <1>2, <1>4, <2>1 DEF CanVoid, Covers
  <2>3. /\ \A i \in Lines : i # l => line'[i] = line[i]
        /\ line'[l].tab = t /\ line'[l].st = "void"
    BY <1>2, <1>4, <2>1, BillInvTypes DEF VoidAfterSend, LineRows
  <2>4. ASSUME NEW u, u # t PROVE Total(u)' = Total(u)
    BY <1>1, <2>1, <2>3, <2>4, SameBill
  <2>5. Subtotal(t)' = Subtotal(t) - Price /\ Discount(t)' = Discount(t)
    <3> DEFINE S == {i \in LinesOf(t) : line[i].st = "live"}
    <3>1. /\ IsFiniteSet(S) /\ l \in S
          /\ {i \in LinesOf(t)' : line'[i].st = "live"} = S \ {l}
      BY <1>4, <2>1, <2>3, FiniteRows, FS_Subset DEF LinesOf
    <3>2. Cardinality(S \ {l}) = Cardinality(S) - 1 /\ Cardinality(S) \in Nat
      <4> HIDE DEF S
      <4> QED
        BY <3>1, FS_RemoveElement, FS_CardinalityType
    <3>3. Subtotal(t)' = Price * (Cardinality(S) - 1)
      BY <3>1, <3>2 DEF Subtotal
    <3>4. Subtotal(t) = Price * Cardinality(S)
      BY DEF Subtotal
    <3>5. Discount(t)' = Discount(t)
      BY <1>1 DEF Discount, DiscsOf
    <3>6. Price * (Cardinality(S) - 1) = Price * Cardinality(S) - Price
      <4> HIDE DEF S
      <4> QED
        BY <3>2, Ids
    <3> QED
      BY <3>3, <3>4, <3>5, <3>6
  <2>6. Total(t)' = TotalOf(Subtotal(t) - Price, Discount(t))
    BY <2>5 DEF Total, TotalOf
  <2>7. ASSUME NEW u \in Tabs PROVE Fine(u)'
    <3>1. Fine(u) /\ tab'[u] = tab[u]
          /\ NetPaid(u)' = NetPaid(u) /\ Gross(u)' = Gross(u)
      BY <1>1, SamePays DEF BillInv
    <3>2. CASE u # t
      BY <2>4, <3>1, <3>2, FineStays
    <3>3. CASE u = t
      <4>1. NetPaid(t) \in Int
        BY BillInvTypes, PaidIsAmount
      <4>2. Total(t)' \in Nat
        BY NextBillIsAmount
      <4>3. tab'[t].st # "settled"
        BY <1>1, <2>2 DEF Unpaid
      <4>4. NetPaid(t)' <= Total(t)'
        BY <2>2, <2>6, <3>1, <3>3, <4>1, <4>2
      <4> QED
        BY <3>3, <4>3, <4>4 DEF Fine
    <3> QED
      BY <3>2, <3>3
  <2> QED
    BY <1>1, <2>7, SamePays DEF BillInv, PaidTabs
<1> QED
  BY <1>3, <1>4

\* Tabs are merged before anything is paid on either.
LEMMA MergeKeepsBills ==
    ASSUME BillInv, MoneyInv', NEW c \in Clerks, MergeTabs(c)
    PROVE  BillInv'
<1>1. UNCHANGED <<pay, ref>>
  BY DEF MergeTabs
<1>2. PICK donor \in Tabs, survivor \in Tabs :
        /\ donor = tx[c].x /\ survivor = tx[c].y
        /\ tab[donor].st = "open" /\ tab[survivor].st = "open"
  <2>1. Commits(c, "merge") /\ tx[c].op = "merge"
    BY DEF MergeTabs, Commits
  <2>2. InPlan(c) /\ tx[c].x \in Tabs /\ tx[c].y \in Tabs
    BY <2>1, BillInvTypes DEF Typed, Fits, NoTx, NewTx
  <2>3. Past(c, "second")
    BY <2>1, <2>2, MergePlan DEF Commits
  <2> QED
    BY <2>1, <2>2, <2>3 DEF Commits, Refused, CanMerge
<1>3. /\ tab'[donor].st = "void"
      /\ \A u \in Tabs : u # donor => tab'[u] = tab[u]
  BY <1>2, BillInvTypes DEF MergeTabs, TabRows
<1>4. /\ \A l \in Lines : /\ line'[l].st = line[l].st
                          /\ line'[l].tab = IF line[l].tab = donor THEN survivor
                                                                   ELSE line[l].tab
      /\ \A a \in Discs : /\ disc'[a].amt = disc[a].amt
                          /\ disc'[a].tab = IF disc[a].tab = donor THEN survivor
                                                                   ELSE disc[a].tab
  BY <1>2, BillInvTypes DEF MergeTabs, LineRows, DiscRows
<1>5. ASSUME NEW u, u # donor, u # survivor PROVE Total(u)' = Total(u)
  BY <1>4, <1>5, SameBill
<1>6. ASSUME NEW u \in Tabs PROVE Fine(u)'
  <2>1. NetPaid(u)' = NetPaid(u) /\ Gross(u)' = Gross(u) /\ Fine(u)
    BY <1>1, SamePays DEF BillInv
  <2>2. CASE u = donor
    BY <1>3, <2>2 DEF Fine, Unpaid
  <2>3. CASE u # donor /\ u = survivor
    <3>1. tab'[u].st = "open" /\ NetPaid(u) = 0
      BY <1>2, <1>3, <2>3, OpenIsUnpaid
    <3>2. Total(u)' \in Nat
      BY NextBillIsAmount
    <3> QED
      BY <2>1, <3>1, <3>2 DEF Fine
  <2>4. CASE u # donor /\ u # survivor
    BY <1>3, <1>5, <2>1, <2>4, FineStays
  <2> QED
    BY <2>2, <2>3, <2>4
<1>7. PaidTabs'
  <2>1. ASSUME NEW p \in AllPays
        PROVE  tab'[pay[p].tab].st \in {"awaiting", "settled"}
    <3>1. pay[p].tab \in Tabs
      BY BillInvTypes DEF AllPays, PayRows
    <3>2. tab[pay[p].tab].st \in {"awaiting", "settled"}
      BY DEF BillInv, PaidTabs
    <3> QED
      BY <1>2, <1>3, <3>1, <3>2
  <2> QED
    BY <1>1, <2>1 DEF PaidTabs, AllPays
<1> QED
  BY <1>1, <1>6, <1>7, SamePays DEF BillInv

\* No call that commits leaves a bill wrong.
LEMMA WritesKeepBills ==
    ASSUME BillInv, MoneyInv', NEW c \in Clerks,
           SettleTab(c) \/ Refund(c) \/ VoidAfterSend(c) \/ MergeTabs(c)
             \/ CloseDay(c)
    PROVE  BillInv'
<1>1. CASE CloseDay(c)
  BY <1>1, BillsStay DEF CloseDay
<1> QED
  BY <1>1, SettleKeepsBills, RefundKeepsBills, VoidKeepsBills, MergeKeepsBills

\* A new tab has nothing paid; an open tab that gets a line, too.
LEMMA OpenTabKeepsBills ==
    ASSUME BillInv, MoneyInv', NEW t \in Tabs,
           (\E d \in Days : OpenTab(t, d)) \/ TillAddItems(t)
    PROVE  BillInv'
<1>1. /\ UNCHANGED <<disc, pay, ref>>
      /\ tab[t].st \in {"none", "open"} /\ tab'[t].st = "open"
      /\ \A u \in Tabs : u # t => tab'[u] = tab[u]
      /\ \A u \in Tabs \ {t}, l \in Lines :
            (line'[l].tab = u /\ line'[l].st = "live")
              <=> (line[l].tab = u /\ line[l].st = "live")
  <2>1. ASSUME NEW d \in Days, OpenTab(t, d)
        PROVE  /\ UNCHANGED <<line, disc, pay, ref>>
               /\ tab[t].st = "none" /\ tab'[t].st = "open"
               /\ \A u \in Tabs : u # t => tab'[u] = tab[u]
    BY <2>1, BillInvTypes DEF OpenTab, NextId, AllTabs
  <2>2. CASE TillAddItems(t)
    <3>1. UNCHANGED <<tab, disc, pay, ref>> /\ tab[t].st = "open"
      BY <2>2 DEF TillAddItems
    <3>2. PICK n \in Lines :
            /\ NextId(n, MaxLines, AllLines)
            /\ line' = [line EXCEPT ![n] = [st |-> "live", tab |-> t, auth |-> 0]]
      BY <2>2 DEF TillAddItems
    <3>3. /\ line[n].st = "none" /\ line'[n].tab = t
          /\ \A l \in Lines : l # n => line'[l] = line[l]
      BY <3>2, BillInvTypes DEF NextId, AllLines
    <3> QED
      BY <3>1, <3>3
  <2> QED
    BY <2>1, <2>2
<1>2. ASSUME NEW u \in Tabs PROVE Fine(u)'
  <2>1. NetPaid(u)' = NetPaid(u) /\ Gross(u)' = Gross(u) /\ Fine(u)
    BY <1>1, SamePays DEF BillInv
  <2>2. CASE u = t
    <3>1. NetPaid(u) = 0
      BY <1>1, <2>2, OpenIsUnpaid
    <3>2. Total(u)' \in Nat
      BY NextBillIsAmount
    <3> QED
      BY <1>1, <2>1, <2>2, <3>1, <3>2 DEF Fine
  <2>3. CASE u # t
    <3>1. Total(u)' = Total(u)
      BY <1>1, <2>3, SameBill
    <3> QED
      BY <1>1, <2>1, <2>3, <3>1, FineStays
  <2> QED
    BY <2>2, <2>3
<1>3. PaidTabs'
  <2>1. ASSUME NEW p \in AllPays
        PROVE  tab'[pay[p].tab].st \in {"awaiting", "settled"}
    BY <1>1, BillInvTypes DEF BillInv, PaidTabs, AllPays, PayRows
  <2> QED
    BY <1>1, <2>1 DEF PaidTabs, AllPays
<1> QED
  BY <1>1, <1>2, <1>3, SamePays DEF BillInv

\* A tab that owes nothing is settled for what was paid; an empty one goes.
LEMMA EndTabKeepsBills ==
    ASSUME BillInv, MoneyInv', NEW t \in Tabs, SettleZeroTab(t) \/ CancelTab(t)
    PROVE  BillInv'
<1>1. UNCHANGED <<line, disc, pay, ref>>
  BY DEF SettleZeroTab, CancelTab
<1>2. /\ \A u \in Tabs : u # t => tab'[u] = tab[u]
      /\ \/ /\ tab'[t].st = "settled" /\ tab'[t].total = Total(t)
            /\ Total(t) = NetPaid(t)
         \/ tab[t].st = "open" /\ tab'[t].st = "void"
  BY BillInvTypes DEF SettleZeroTab, CancelTab, Stamp, TabRows
<1>3. \A u : Total(u)' = Total(u)
  BY <1>1, SameBill
<1>4. ASSUME NEW u \in Tabs PROVE Fine(u)'
  <2>1. NetPaid(u)' = NetPaid(u) /\ Gross(u)' = Gross(u) /\ Fine(u)
    BY <1>1, SamePays DEF BillInv
  <2>2. CASE u = t
    <3>1. NetPaid(t) <= Gross(t) /\ NetPaid(t) \in Int /\ Gross(t) \in Nat
      BY BillInvTypes, PaidIsAmount
    <3> QED
      BY <1>2, <1>3, <2>1, <2>2, <3>1 DEF Fine, Unpaid
  <2>3. CASE u # t
    BY <1>2, <1>3, <2>1, <2>3, FineStays
  <2> QED
    BY <2>2, <2>3
<1>5. PaidTabs'
  <2>1. ASSUME NEW p \in AllPays
        PROVE  tab'[pay[p].tab].st \in {"awaiting", "settled"}
    <3>1. pay[p].tab \in Tabs /\ tab[pay[p].tab].st \in {"awaiting", "settled"}
      BY BillInvTypes DEF BillInv, PaidTabs, AllPays, PayRows
    <3> QED
      BY <1>2, <3>1
  <2> QED
    BY <1>1, <2>1 DEF PaidTabs, AllPays
<1> QED
  BY <1>1, <1>4, <1>5, SamePays DEF BillInv

\* A discount is given only if the smaller bill covers what was paid.
LEMMA DiscountKeepsBills ==
    ASSUME BillInv, MoneyInv', NEW t \in Tabs, NEW g \in Grants,
           ApplyDiscount(t, g)
    PROVE  BillInv'
<1>1. UNCHANGED <<tab, line, pay, ref>>
  BY DEF ApplyDiscount
<1>2. /\ tab[t].st \in Unpaid
      /\ Covers(t, Subtotal(t), Discount(t) + DiscountAmount(t))
  BY DEF ApplyDiscount, CanDiscount
<1>3. PICK n \in Discs :
        /\ NextId(n, MaxDiscs, AllDiscs)
        /\ disc' = [disc EXCEPT ![n] = [tab |-> t, amt |-> DiscountAmount(t),
                                        auth |-> g]]
  BY DEF ApplyDiscount
<1>4. /\ disc[n].tab = 0 /\ disc'[n].tab = t /\ disc'[n].amt = DiscountAmount(t)
      /\ \A a \in Discs : a # n => disc'[a] = disc[a]
      /\ t # 0
  BY <1>3, Ids, BillInvTypes DEF NextId, AllDiscs
<1>5. ASSUME NEW u \in Tabs, u # t PROVE Total(u)' = Total(u)
  BY <1>1, <1>4, <1>5, Ids, SameBill
<1>6. Subtotal(t)' = Subtotal(t)
  BY <1>1 DEF Subtotal, LinesOf
<1>7. Discount(t)' = Discount(t) + DiscountAmount(t)
  <2> DEFINE S == {a \in DiscsOf(t) : disc[a].amt = 1}
             S2 == {a \in DiscsOf(t)' : disc'[a].amt = 1}
  <2>1. IsFiniteSet(S) /\ n \notin S
    BY <1>4, FiniteRows, FS_Subset DEF DiscsOf
  <2>2. Cardinality(S) \in Nat
    BY <2>1, FS_CardinalityType
  <2>3. CASE DiscountAmount(t) = 1
    <3>1. S2 = S \cup {n}
      BY <1>4, <2>3 DEF DiscsOf
    <3>2. Cardinality(S \cup {n}) = Cardinality(S) + 1
      <4> HIDE DEF S
      <4> QED
        BY <2>1, FS_AddElement
    <3> QED
      BY <2>3, <3>1, <3>2 DEF Discount
  <2>4. CASE DiscountAmount(t) = 0
    <3>1. S2 = S
      BY <1>4, <2>4 DEF DiscsOf
    <3>2. Discount(t)' = Cardinality(S) /\ Discount(t) = Cardinality(S)
      BY <3>1 DEF Discount
    <3> HIDE DEF S
    <3> QED
      BY <2>2, <2>4, <3>2
  <2> QED
    BY <2>3, <2>4 DEF DiscountAmount
<1>8. Total(t)' = TotalOf(Subtotal(t), Discount(t) + DiscountAmount(t))
  BY <1>6, <1>7 DEF Total, TotalOf
<1>9. ASSUME NEW u \in Tabs PROVE Fine(u)'
  <2>1. /\ NetPaid(u)' = NetPaid(u) /\ Gross(u)' = Gross(u)
        /\ Fine(u) /\ tab'[u] = tab[u]
    BY <1>1, SamePays DEF BillInv
  <2>2. CASE u = t
    <3>1. NetPaid(t) \in Int /\ Total(t)' \in Nat
      BY BillInvTypes, PaidIsAmount, NextBillIsAmount
    <3>2. NetPaid(t)' <= Total(t)'
      BY <1>2, <1>8, <2>1, <2>2, <3>1 DEF Covers
    <3> QED
      BY <1>2, <2>1, <2>2, <3>2 DEF Fine, Unpaid
  <2>3. CASE u # t
    BY <1>5, <2>1, <2>3, FineStays
  <2> QED
    BY <2>2, <2>3
<1> QED
  BY <1>1, <1>9, SamePays DEF BillInv, PaidTabs

\* Neither does any other step.
LEMMA BillStep == BillInv /\ [Next]_vars => BillInv'
<1> SUFFICES ASSUME BillInv, [Next]_vars PROVE BillInv'
  OBVIOUS
<1>1. MoneyInv'
  BY MoneyStep DEF BillInv
<1>2. ASSUME NEW c \in Clerks, Call(c) PROVE BillInv'
  <2>1. CASE \/ \E op \in Ops, x, y \in Args : Begin(c, op, x, y)
             \/ Lock(c) \/ Seek(c) \/ Find(c) \/ Spend(c) \/ Look(c) \/ Sum(c)
             \/ Rollback(c)
    <3>1. UNCHANGED rows
      BY <2>1 DEF Begin, Lock, Seek, Find, Spend, Look, Sum, Rollback
    <3> QED
      BY <1>1, <3>1, BillsStay DEF rows
  <2> QED
    BY <1>1, <1>2, <2>1, WritesKeepBills DEF Call
<1>3. CASE Desk
  <2>1. ASSUME \/ \E d \in Days : OpenDay(d)
               \/ \E s \in Shifts, d \in Days : OpenTillShift(s, d)
               \/ \E s \in Shifts : CloseTillShift(s)
               \/ \E s \in Shifts, g \in Grants : CloseTillShiftFor(s, g)
               \/ \E g \in Grants : VerifyManagerPin(g)
        PROVE  BillInv'
    <3>1. UNCHANGED <<tab, line, disc, pay, ref>>
      BY <2>1 DEF OpenDay, OpenTillShift, CloseTillShift, CloseTillShiftFor,
                  VerifyManagerPin
    <3> QED
      BY <1>1, <3>1, BillsStay
  <2> QED
    BY <1>1, <1>3, <2>1, OpenTabKeepsBills, EndTabKeepsBills,
       DiscountKeepsBills DEF Desk
<1>4. CASE UNCHANGED vars
  BY <1>1, <1>4, BillsStay DEF vars, rows
<1> QED
  BY <1>2, <1>3, <1>4 DEF Next

\* At the start there are no bills.
LEMMA BillInit == Init => BillInv
<1> SUFFICES ASSUME Init PROVE BillInv
  OBVIOUS
<1>1. MoneyInv
  BY MoneyInitInv
<1>2. AllPays = {} /\ \A t \in Tabs : tab[t].st = "none"
  BY DEF Init, RowsInit, AllPays
<1>3. RefundsFit
  <2>1. ASSUME NEW p \in Pays PROVE Refunded(p) <= pay[p].amt
    <3>1. RefsOf(p) = {}
      BY Ids DEF Init, RowsInit, RefsOf
    <3>2. Refunded(p) = 0
      BY <3>1, SumEmpty DEF Refunded
    <3> QED
      BY <3>2 DEF Init, RowsInit
  <2> QED
    BY <2>1 DEF RefundsFit
<1> QED
  BY <1>1, <1>2, <1>3 DEF BillInv, PaidTabs, Fine, Unpaid

\* Whatever voids, discounts, merges, part payments and refunds the sessions
\* make at once, no unpaid or settled tab has more money on it than its bill
\* and no payment has more refunded than it took.
THEOREM NoTabOverpaid == Spec => []NeverOverpaid
<1>1. BillInv => NeverOverpaid
  BY DEF BillInv, NeverOverpaid, Fine, RefundsFit
<1> QED
  BY <1>1, BillInit, BillStep, PTL DEF Spec

\* The total a settlement stamps stays the tab's bill, and was paid in full.
THEOREM SettledTabsPaid == Spec => []SettledIsPaid
<1>1. BillInv => SettledIsPaid
  BY DEF BillInv, SettledIsPaid, Fine
<1> QED
  BY <1>1, BillInit, BillStep, PTL DEF Spec

=============================================================================
