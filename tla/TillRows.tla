------------------------------ MODULE TillRows ------------------------------
(***************************************************************************)
(* The rows behind the till's money: business days, till shifts, tabs with *)
(* their lines and discounts, payments, refunds and manager PIN grants,    *)
(* and the figures the RPCs compute from them.  Every line costs Price. A  *)
(* sum that a close stamps is kept as the set of the rows it adds up.      *)
(***************************************************************************)
EXTENDS Integers, FiniteSetsExt

CONSTANTS MaxDays, MaxShifts, MaxTabs, MaxLines, MaxDiscs, MaxPays, MaxRefs,
          MaxGrants, \* bounds: rows each table ever holds
          Price      \* of a line

ASSUME RowBounds == {MaxDays, MaxShifts, MaxTabs, MaxLines, MaxDiscs,
                     MaxPays, MaxRefs, MaxGrants, Price} \subseteq Nat

Days   == 1..MaxDays
Shifts == 1..MaxShifts
Tabs   == 1..MaxTabs
Lines  == 1..MaxLines
Discs  == 1..MaxDiscs
Pays   == 1..MaxPays
Refs   == 1..MaxRefs
Grants == 1..MaxGrants

VARIABLES day,   \* day_sessions: status and what its close added up
          shift, \* till_shifts of the station, likewise
          tab,   \* tabs: status, day and the total stamped on it
          line,  \* order_items: the tab of its order, and whether voided
          disc,  \* tab_adjustments: discounts of 0 or 1
          pay,   \* payments
          ref,   \* refunds; made: the business day they were written on
          grant  \* pin_grants of the one caller

rows == <<day, shift, tab, line, disc, pay, ref, grant>>

\* 0 is the null reference.
RowsTypeOK ==
    /\ day \in [Days -> [st : {"none", "open", "closed"},
                         took : SUBSET Pays, gave : SUBSET Refs]]
    /\ shift \in [Shifts -> [st : {"none", "open", "closed"},
                             day : Days \cup {0}, took : SUBSET Pays,
                             gave : SUBSET Refs, auth : Grants \cup {0}]]
    /\ tab \in [Tabs -> [st : {"none", "open", "awaiting", "settled", "void"},
                         day : Days \cup {0}, total : Nat]]
    /\ line \in [Lines -> [st : {"none", "live", "void"},
                           tab : Tabs \cup {0}, auth : Grants \cup {0}]]
    /\ disc \in [Discs -> [tab : Tabs \cup {0}, amt : 0..1,
                           auth : Grants \cup {0}]]
    /\ pay \in [Pays -> [tab : Tabs \cup {0}, day : Days \cup {0}, amt : Nat,
                         shift : Shifts \cup {0}]]
    /\ ref \in [Refs -> [pay : Pays \cup {0}, amt : Nat,
                         shift : Shifts \cup {0}, made : Days \cup {0},
                         auth : Grants \cup {0}]]
    /\ grant \in [Grants -> {"none", "live", "used"}]

RowsInit ==
    /\ day = [d \in Days |-> [st |-> "none", took |-> {}, gave |-> {}]]
    /\ shift = [s \in Shifts |-> [st |-> "none", day |-> 0, took |-> {},
                                  gave |-> {}, auth |-> 0]]
    /\ tab = [t \in Tabs |-> [st |-> "none", day |-> 0, total |-> 0]]
    /\ line = [l \in Lines |-> [st |-> "none", tab |-> 0, auth |-> 0]]
    /\ disc = [a \in Discs |-> [tab |-> 0, amt |-> 0, auth |-> 0]]
    /\ pay = [p \in Pays |-> [tab |-> 0, day |-> 0, amt |-> 0, shift |-> 0]]
    /\ ref = [r \in Refs |-> [pay |-> 0, amt |-> 0, shift |-> 0, made |-> 0,
                              auth |-> 0]]
    /\ grant = [g \in Grants |-> "none"]

-----------------------------------------------------------------------------
(* The rows there are, and the next of each table *)

AllTabs  == {t \in Tabs : tab[t].st # "none"}
AllLines == {l \in Lines : line[l].st # "none"}
AllDiscs == {a \in Discs : disc[a].tab # 0}
AllPays  == {p \in Pays : pay[p].tab # 0}
AllRefs  == {r \in Refs : ref[r].pay # 0}

\* i is the first id of 1..n that no row of `used` has.
NextId(i, n, used) == i \in 1..n \ used /\ \A j \in 1..n \ used : i <= j

OpenDays == {d \in Days : day[d].st = "open"}

\* app.current_open_day, or null.
CurrentOpenDay == IF OpenDays = {} THEN 0 ELSE CHOOSE d \in OpenDays : TRUE

Unpaid == {"open", "awaiting"}

OpenShifts(d) == {s \in Shifts : shift[s].st = "open" /\ shift[s].day = d}

-----------------------------------------------------------------------------
(* app.compute_tab_totals, with discounts of 0 or 1 *)

LinesOf(t) == {l \in Lines : line[l].tab = t}

DiscsOf(t) == {a \in Discs : disc[a].tab = t}

TotalOf(goods, off) == IF off > goods THEN 0 ELSE goods - off

Subtotal(t) == Price * Cardinality({l \in LinesOf(t) : line[l].st = "live"})

Discount(t) == Cardinality({a \in DiscsOf(t) : disc[a].amt = 1})

Total(t) == TotalOf(Subtotal(t), Discount(t))

-----------------------------------------------------------------------------
(* app.tab_net_paid, and what a refund may still give back *)

PaysOf(t) == {p \in Pays : pay[p].tab = t}

RefsOf(p) == {r \in Refs : ref[r].pay = p}

Refunded(p) == SumFunctionOnSet([r \in Refs |-> ref[r].amt], RefsOf(p))

Gross(t) == SumFunctionOnSet([p \in Pays |-> pay[p].amt], PaysOf(t))

NetPaid(t) ==
    SumFunctionOnSet([p \in Pays |-> pay[p].amt - Refunded(p)], PaysOf(t))

\* The day a close counts a refund under: that of its till shift, else that
\* of its payment.
CountedOn(r) == IF ref[r].shift # 0 THEN shift[ref[r].shift].day
                ELSE pay[ref[r].pay].day

=============================================================================
