---------------------------- MODULE OfflineTabs ----------------------------
(***************************************************************************)
(* A tab opened at the till while the station is offline: the entry the    *)
(* renderer keeps for it (lib/offlineTabs.ts), the calls that wait eight   *)
(* seconds for a result (lib/mutate.ts, lib/queueResults.ts), and the      *)
(* channel that brings the results of the outbox back.                     *)
(*                                                                         *)
(* The renderer runs one task at a time and what a promise continues with  *)
(* runs at the end of the task that resolved it: hearing a message, or a   *)
(* timer, is one step with all that follows from it.  When its process     *)
(* dies the page is loaded again.  The entry (localStorage) and the rows   *)
(* (SQLite) are still there; the waiters, the screen and the messages on   *)
(* their way are not.                                                      *)
(*                                                                         *)
(* The entries of two tabs never touch each other, so there is one: write  *)
(* Open opens it, Lines sends its items, Pays are the payments pressed, in *)
(* that order, which is the order of the queue.                            *)
(***************************************************************************)
EXTENDS Naturals, FiniteSets, Sequences

CONSTANTS MaxPays,      \* payments the cashier may press
          MaxCrashes    \* bound: times the renderer's process dies

ASSUME TabsAssumption == MaxPays \in Nat /\ MaxCrashes \in Nat

Open   == 1
Lines  == 2
Pays   == 3..(MaxPays + 2)
Writes == 1..(MaxPays + 2)
NoKey  == 0

VARIABLES row,          \* each write's row of mutation_queue
          call,         \* how far the mutate() of each write is
          inbox,        \* main to renderer, in order: [w, what]
          entry,        \* the entry of the tab, when kept
          pane,         \* the payment pane is open over the tab's panel
          loaded,       \* the page is there to hear
          crashes,      \* history: times it was not
          heard,        \* history: writes whose result was heard
          left          \* history: payments whose entry went under them

vars == <<row, call, inbox, entry, pane, loaded, crashes, heard, left>>

Answers  == {"acked", "refused"}
Messages == [w : Writes, what : {"queued", "resolved"} \cup Answers]

NoEntry == [kept |-> FALSE, lines |-> FALSE, settled |-> FALSE, key |-> NoKey,
            opened |-> FALSE, failure |-> "none", refused |-> NoKey]

OfflineTypeOK ==
    /\ row \in [Writes -> {"absent", "pending", "resolved"} \cup Answers]
    /\ call \in [Writes -> {"idle", "asked", "waiting", "queued", "answered", "cut"}]
    /\ inbox \in Seq(Messages)
    /\ entry \in [kept : BOOLEAN, lines : BOOLEAN, settled : BOOLEAN,
                  key : Pays \cup {NoKey}, opened : BOOLEAN,
                  failure : {"none", "open", "settle"},
                  refused : Pays \cup {NoKey}]
    /\ pane \in BOOLEAN
    /\ loaded \in BOOLEAN
    /\ crashes \in 0..MaxCrashes
    /\ heard \subseteq Writes
    /\ left \subseteq Pays

OfflineInit ==
    /\ row = [w \in Writes |-> "absent"]
    /\ call = [w \in Writes |-> "idle"]
    /\ inbox = <<>>
    /\ entry = NoEntry
    /\ pane = FALSE
    /\ loaded = TRUE
    /\ crashes = 0
    /\ heard = {}
    /\ left = {}

-----------------------------------------------------------------------------
(* The entry. *)

\* Mutant: a failure on a settled tab does not bring it back.
isOnPlan_settledFirst(e) == e.kept /\ (e.settled => e.key # NoKey /\ ~e.opened)

isOnPlan(e) == e.kept /\ \/ e.failure # "none"
                         \/ ~e.settled
                         \/ e.key # NoKey /\ ~e.opened

addOfflineTab == entry' = [NoEntry EXCEPT !.kept = TRUE]

appendOfflineLines == entry' = [entry EXCEPT !.lines = entry.kept]

removeOfflineTab == entry' = NoEntry

\* It clears the refusal of the payment before.
markOfflineSettled(p) ==
    entry' = IF entry.kept
             THEN [entry EXCEPT !.settled = TRUE, !.key = p,
                                !.failure = "none", !.refused = NoKey]
             ELSE entry

markOfflineTabFailed(on, p) ==
    entry' = [entry EXCEPT !.failure = on, !.refused = p]

\* Mutant: the tab retires with its open, as it did before F-09.
retireOpen_always(what) ==
    IF what = "acked" THEN removeOfflineTab ELSE markOfflineTabFailed("open", NoKey)

\* initOfflineTabRetirement on the result of the tab.open.
retireOpen(what) ==
    CASE what = "refused" -> markOfflineTabFailed("open", NoKey)
      [] what = "acked" /\ entry.settled /\ entry.key # NoKey
           -> entry' = [entry EXCEPT !.opened = TRUE]
      [] OTHER -> removeOfflineTab

\* Mutant: a settle's result is looked for under the tab's own key.
retireSettle_wrongKey(p, what) == UNCHANGED entry

\* The same on the result of a tab.settle that was marked.
retireSettle(p, what) ==
    IF what = "acked" THEN removeOfflineTab ELSE markOfflineTabFailed("settle", p)

-----------------------------------------------------------------------------
(* The cashier.  A call is on the queue as soon as it starts. *)

InWait(w) == call[w] \in {"asked", "waiting"}

Resolving == \E i \in 1..Len(inbox) : inbox[i].what = "resolved"

\* The panel is busy: no pane of it opens, closes or is confirmed over a call.
Busy == Resolving \/ \E p \in Pays : InWait(p)

enqueue(w) ==
    /\ row' = [row EXCEPT ![w] = "pending"]
    /\ call' = [call EXCEPT ![w] = "asked"]
    /\ inbox' = Append(inbox, [w |-> w, what |-> "queued"])
    /\ UNCHANGED <<entry, pane, loaded, crashes, heard, left>>

OpenTabOn == loaded /\ call[Open] = "idle" /\ enqueue(Open)

SendBasket == /\ loaded /\ isOnPlan(entry)
              /\ call[Lines] = "idle"
              /\ enqueue(Lines)

\* Mutant: a settled tab is offered Cash and Card again.
Payable_settledToo == entry.lines /\ entry.failure = "none"

Payable == entry.lines /\ ~entry.settled /\ entry.failure = "none"

Retryable == entry.failure = "settle"

\* Cash, Card, or Take the payment again: the pane opens.
StartPay == /\ loaded /\ isOnPlan(entry) /\ ~pane /\ ~Busy
            /\ Payable \/ Retryable
            /\ pane' = TRUE
            /\ UNCHANGED <<row, call, inbox, entry, loaded, crashes, heard, left>>

CancelPay == /\ loaded /\ pane /\ ~Busy
             /\ pane' = FALSE
             /\ UNCHANGED <<row, call, inbox, entry, loaded, crashes, heard, left>>

\* Confirmed.  The entry is not looked at again: what was heard since the pane
\* opened does not close it, unless the entry went.
SettleOffline(p) ==
    /\ loaded /\ pane /\ ~Busy
    /\ call[p] = "idle"
    /\ \A q \in Pays : q < p => call[q] # "idle"
    /\ enqueue(p)

\* A refused open is taken off this till, and a payment queued on it with it.
Dismiss == /\ loaded /\ ~pane /\ ~Busy
           /\ entry.failure = "open"
           /\ removeOfflineTab
           /\ left' = left \cup {p \in Pays : call[p] = "queued"}
           /\ UNCHANGED <<row, call, inbox, pane, loaded, crashes, heard>>

\* A manager sets the refused payment aside; main answers, unless day close
\* was first, and then nothing changes.
ResolveRefusedRow ==
    /\ loaded /\ ~pane /\ ~Busy
    /\ entry.failure = "settle" /\ row[entry.refused] = "refused"
    /\ row' = [row EXCEPT ![entry.refused] = "resolved"]
    /\ inbox' = Append(inbox, [w |-> entry.refused, what |-> "resolved"])
    /\ UNCHANGED <<call, entry, pane, loaded, crashes, heard, left>>

\* The same act from Day close, which knows nothing of the entry.
DismissRow(w) ==
    /\ loaded /\ ~pane /\ ~Busy
    /\ row[w] = "refused"
    /\ row' = [row EXCEPT ![w] = "resolved"]
    /\ UNCHANGED <<call, inbox, entry, pane, loaded, crashes, heard, left>>

-----------------------------------------------------------------------------
(* The rest of the station. *)

\* What the server may say: no payment lands on a tab that is not there or is
\* paid already.
MayAck(w) == /\ w # Open => row[Open] = "acked"
             /\ w \in Pays => \A q \in Pays : row[q] # "acked"

\* The worker's verdict on the head of the queue, sent to the window.
Judge(w, what) ==
    /\ row[w] = "pending"
    /\ \A v \in Writes : v < w => row[v] # "pending"
    /\ what = "acked" => MayAck(w)
    /\ row' = [row EXCEPT ![w] = what]
    /\ inbox' = IF loaded THEN Append(inbox, [w |-> w, what |-> what]) ELSE inbox
    /\ UNCHANGED <<call, entry, pane, loaded, crashes, heard, left>>

Crash == /\ loaded /\ crashes < MaxCrashes
         /\ loaded' = FALSE
         /\ pane' = FALSE
         /\ crashes' = crashes + 1
         /\ inbox' = <<>>
         /\ call' = [w \in Writes |-> IF InWait(w) THEN "cut" ELSE call[w]]
         /\ UNCHANGED <<row, entry, heard, left>>

Reload == /\ ~loaded
          /\ loaded' = TRUE
          /\ UNCHANGED <<row, call, inbox, entry, pane, crashes, heard, left>>

-----------------------------------------------------------------------------
(* What the renderer hears. *)

Hears(w, what) == /\ loaded /\ inbox # <<>>
                  /\ Head(inbox) = [w |-> w, what |-> what]
                  /\ inbox' = Tail(inbox)

\* The queue has the write: awaitResult sets its waiter.
HearQueued(w) == /\ Hears(w, "queued")
                 /\ call' = [call EXCEPT ![w] = "waiting"]
                 /\ UNCHANGED <<row, entry, pane, loaded, crashes, heard, left>>

\* Eight seconds without a result: mutate() answers `queued`, and the pane of a
\* payment closes.
TimeOut(w) ==
    /\ loaded /\ call[w] = "waiting"
    /\ call' = [call EXCEPT ![w] = "queued"]
    /\ CASE w = Open  -> addOfflineTab
         [] w = Lines -> appendOfflineLines
         [] w \in Pays -> markOfflineSettled(w)
    /\ pane' = (pane /\ w \notin Pays)
    /\ UNCHANGED <<row, inbox, loaded, crashes, heard, left>>

Answered(w) == call' = [call EXCEPT ![w] = IF call[w] = "waiting" THEN "answered"
                                           ELSE call[w]]

Heard(w) == heard' = heard \cup {w}

\* An open its waiter takes never was an offline tab.
HearOpen(what) ==
    /\ Hears(Open, what) /\ what \in Answers
    /\ Answered(Open) /\ Heard(Open)
    /\ IF entry.kept THEN retireOpen(what) ELSE UNCHANGED entry
    /\ pane' = (pane /\ entry'.kept)
    /\ left' = IF entry'.kept THEN left ELSE left \cup {p \in Pays : InWait(p)}
    /\ UNCHANGED <<row, loaded, crashes>>

HearLines(what) ==
    /\ Hears(Lines, what) /\ what \in Answers
    /\ Answered(Lines) /\ Heard(Lines)
    /\ IF call[Lines] = "waiting" /\ what = "acked"
       THEN appendOfflineLines ELSE UNCHANGED entry
    /\ UNCHANGED <<row, pane, loaded, crashes, left>>

\* A result in the wait goes to settleOffline: an ack retires the tab there, a
\* refusal is thrown and shown in the pane, which stays.  Later it goes to the
\* entry marked with its key.
HearSettle(p, what) ==
    /\ Hears(p, what) /\ what \in Answers
    /\ Answered(p) /\ Heard(p)
    /\ CASE call[p] = "waiting" /\ what = "acked" -> removeOfflineTab
         [] call[p] # "waiting" /\ entry.key = p -> retireSettle(p, what)
         [] OTHER -> UNCHANGED entry
    /\ pane' = (pane /\ entry'.kept)
    /\ UNCHANGED <<row, loaded, crashes, left>>

HearResolved(p) == /\ Hears(p, "resolved")
                   /\ removeOfflineTab
                   /\ pane' = FALSE
                   /\ UNCHANGED <<row, call, loaded, crashes, heard, left>>

-----------------------------------------------------------------------------

Cashier == \/ OpenTabOn \/ SendBasket \/ Dismiss \/ ResolveRefusedRow
           \/ StartPay \/ CancelPay
           \/ \E p \in Pays : SettleOffline(p)
           \/ \E w \in Writes : DismissRow(w)

Verdict == \E w \in Writes, what \in Answers : Judge(w, what)

Hear == \/ \E w \in Writes : HearQueued(w)
        \/ \E what \in Answers : HearOpen(what) \/ HearLines(what)
        \/ \E p \in Pays, what \in Answers : HearSettle(p, what)
        \/ \E p \in Pays : HearResolved(p)

OfflineNext == \/ Cashier \/ Verdict \/ Hear \/ Crash \/ Reload
               \/ \E w \in Writes : TimeOut(w)

-----------------------------------------------------------------------------

\* offlineTabs.ts: "A SETTLED tab also stays until its tab.settle acks."  A
\* payment the cashier was told is queued, and the till has no answer for, is
\* on the plan, or its entry waits behind the server's tab; unless the tab
\* left while mutate() was still waiting, or was dismissed.
PaymentIsKept ==
    \A p \in Pays : call[p] = "queued" /\ p \notin heard \cup left =>
        /\ entry.kept /\ entry.key = p
        /\ isOnPlan(entry) \/ row[Open] = "acked"

\* OfflineTabPanel.tsx: "A settled tab is never offered Card or Cash again: the
\* payment is already queued, and a second one would charge the guest twice."
\* Of the payments no crash cut off, one at most is not refused.
GuestPaysOnce ==
    \A p, q \in Pays :
        /\ row[p] \in {"pending", "acked"} /\ call[p] # "cut"
        /\ row[q] \in {"pending", "acked"} /\ call[q] # "cut"
        => p = q

\* offlineTabs.ts: "A settle refused at replay comes back on the plan as a
\* failure on 'settle'", under the key a manager resolves.
RefusedPaymentReturns ==
    [][\A p \in Pays :
          /\ call[p] = "queued" /\ p \notin heard \cup left
          /\ p \in heard' /\ row[p] # "acked"
          => /\ isOnPlan(entry') /\ entry'.failure = "settle"
             /\ entry'.refused = p]_vars

\* The payment the plan shows as waiting, and one whose answer is gone.
Waits(p) == entry.key = p /\ entry.failure = "none"

Lost(p) == /\ crashes > 0 /\ row[p] # "pending" /\ p \notin heard
           /\ \A i \in 1..Len(inbox) :
                 inbox[i].w = p => inbox[i].what \notin Answers

\* A payment does not wait on the plan for ever: the till hears its answer,
\* unless the renderer was down when it came.
PaymentComesToRest == \A p \in Pays : Waits(p) ~> (~Waits(p) \/ Lost(p))

-----------------------------------------------------------------------------

OfflineSpec == OfflineInit /\ [][OfflineNext]_vars

\* The worker judges every write it can read (EveryWriteJudged), the renderer
\* handles its messages and reloads when its process is gone.
FairOfflineSpec ==
    OfflineSpec /\ WF_vars(Verdict) /\ WF_vars(Hear) /\ WF_vars(Reload)

=============================================================================
