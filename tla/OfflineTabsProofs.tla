------------------------- MODULE OfflineTabsProofs -------------------------
(***************************************************************************)
(* What holds of the offline tab whatever the number of payments and of    *)
(* crashes.                                                                *)
(*                                                                         *)
(* Inbox says what a message on its way tells of the queue and of the call *)
(* it answers: the reply to a call comes before its result, and each write *)
(* is answered once.  Ledger says where a payment is: with the call that   *)
(* waits for it, with the entry, or with nobody once the entry has gone.   *)
(* PaneOwesNothing says why a pane may be confirmed however long it was    *)
(* open: what would make its payment a second one closes it.               *)
(***************************************************************************)
EXTENDS OfflineTabs, TLAPS

\* A refused payment is kept under its key.
RefusalHasKey == entry.failure = "settle" => entry.refused \in Pays

Typed == OfflineTypeOK /\ RefusalHasKey

Msgs == 1..Len(inbox)

\* Where two messages of one write can stand.
OneReply == \A i, j \in Msgs :
    /\ inbox[i].w = inbox[j].w
    /\ inbox[i].what = "queued" /\ inbox[j].what = "queued"
    => i = j

OneAnswer == \A i, j \in Msgs :
    /\ inbox[i].w = inbox[j].w
    /\ inbox[i].what \in Answers /\ inbox[j].what \in Answers
    => i = j

ReplyFirst == \A i, j \in Msgs :
    /\ inbox[i].w = inbox[j].w
    /\ inbox[i].what = "queued" /\ inbox[j].what \in Answers
    => i < j

\* What a message says of its write.
ReplyIsAsked == \A i \in Msgs :
    inbox[i].what = "queued" => call[inbox[i].w] = "asked"

AnswerIsRow == \A i \in Msgs :
    /\ inbox[i].what = "acked" => row[inbox[i].w] = "acked"
    /\ inbox[i].what = "refused" => row[inbox[i].w] \in {"refused", "resolved"}

AnswerIsNew == \A i \in Msgs :
    inbox[i].what \in Answers => inbox[i].w \notin heard

AskedHasReply == \A w \in Writes :
    call[w] = "asked" => \E i \in Msgs : inbox[i] = [w |-> w, what |-> "queued"]

\* The rows of the calls, and of what was heard.
RowOfCall == \A w \in Writes : row[w] = "absent" <=> call[w] = "idle"

HeardIsJudged == \A w \in heard : row[w] \notin {"absent", "pending"}

Inbox == /\ OneReply /\ OneAnswer /\ ReplyFirst
         /\ ReplyIsAsked /\ AnswerIsRow /\ AnswerIsNew /\ AskedHasReply
         /\ RowOfCall /\ HeardIsJudged

-----------------------------------------------------------------------------

\* A payment that the till called queued and has no answer for.
Owed(p) == call[p] = "queued" /\ p \notin heard \cup left

\* A payment the guest made and nobody refused.
Paid(p) == row[p] \in {"pending", "acked"} /\ call[p] # "cut"

OwedIsMarked == \A p \in Pays : Owed(p) =>
    /\ entry.kept /\ entry.key = p /\ entry.settled /\ entry.failure # "settle"

OpenedIsOpen == entry.opened => row[Open] = "acked"

OneWait == \A p, q \in Pays : InWait(p) /\ InWait(q) => p = q

WaitOwesNothing == \A p, q \in Pays : InWait(p) => ~Owed(q)

WaitHasEntry == \A p \in Pays : InWait(p) /\ p \notin left => entry.kept

WaitIsUnheard == \A p \in Pays : InWait(p) => p \notin heard

KeyIsQueued == entry.key # NoKey => call[entry.key] = "queued" /\ entry.kept

EntryWasOpened == entry.kept => call[Open] = "queued"

LeftHasNoEntry == left # {} => ~entry.kept

OpenWasAnswered == \A p \in Pays : call[p] # "idle" =>
    call[Open] \notin {"idle", "asked", "waiting"}

LeftWasPressed == \A p \in left : call[p] # "idle"

ResolvingOwesNothing == Resolving => \A p \in Pays : ~InWait(p) /\ ~Owed(p)

PaidIsSomewhere == \A p \in Pays : Paid(p) => InWait(p) \/ Owed(p) \/ ~entry.kept

Ledger == /\ OwedIsMarked /\ OpenedIsOpen
          /\ OneWait /\ WaitOwesNothing /\ WaitHasEntry /\ WaitIsUnheard
          /\ KeyIsQueued /\ EntryWasOpened
          /\ LeftHasNoEntry /\ OpenWasAnswered /\ LeftWasPressed
          /\ ResolvingOwesNothing /\ PaidIsSomewhere

\* An open pane has its entry, and no payment is owed under it.
PaneOwesNothing == pane => entry.kept /\ \A p \in Pays : ~Owed(p)

OfflineInv == Typed /\ Inbox /\ Ledger /\ PaneOwesNothing

-----------------------------------------------------------------------------
(* Sequences and the constants. *)

\* What Append does to a sequence of messages.
LEMMA AppendFacts ==
    ASSUME NEW S, NEW s \in Seq(S), NEW m \in S
    PROVE  /\ Append(s, m) \in Seq(S)
           /\ Len(Append(s, m)) = Len(s) + 1
           /\ \A i \in 1..Len(s) : Append(s, m)[i] = s[i]
           /\ Append(s, m)[Len(s) + 1] = m
OBVIOUS

\* What Tail does to it.
LEMMA TailFacts ==
    ASSUME NEW S, NEW s \in Seq(S), s # <<>>
    PROVE  /\ Tail(s) \in Seq(S)
           /\ Len(s) \in Nat /\ Len(s) >= 1
           /\ Head(s) = s[1]
           /\ Len(Tail(s)) = Len(s) - 1
           /\ \A i \in 1..Len(Tail(s)) : Tail(s)[i] = s[i + 1]
OBVIOUS

\* The numbers of the writes.
LEMMA WriteFacts ==
    /\ Open \in Writes /\ Lines \in Writes /\ Pays \subseteq Writes
    /\ Open \notin Pays /\ Lines \notin Pays /\ NoKey \notin Pays
    /\ Writes \subseteq Nat /\ Open # Lines
BY TabsAssumption DEF Open, Lines, Pays, Writes, NoKey

-----------------------------------------------------------------------------
(* Types. *)

\* The entry after each of the operations on it.
Entries == [kept : BOOLEAN, lines : BOOLEAN, settled : BOOLEAN,
            key : Pays \cup {NoKey}, opened : BOOLEAN,
            failure : {"none", "open", "settle"}, refused : Pays \cup {NoKey}]

Fits(e) == e \in Entries /\ (e.failure = "settle" => e.refused \in Pays)

\* Each function of the registry leaves an entry of the right shape.
LEMMA EntryTyped ==
    ASSUME Typed,
           \/ entry' = entry \/ removeOfflineTab \/ addOfflineTab
           \/ appendOfflineLines \/ \E p \in Pays : markOfflineSettled(p)
           \/ \E p \in Pays : markOfflineTabFailed("settle", p)
           \/ markOfflineTabFailed("open", NoKey)
           \/ entry' = [entry EXCEPT !.opened = TRUE]
    PROVE  Fits(entry')
<1>1. Fits(entry)  BY DEF Typed, OfflineTypeOK, RefusalHasKey, Fits, Entries
<1>2. CASE entry' = entry  BY <1>1, <1>2
<1>3. CASE removeOfflineTab \/ addOfflineTab
      <2>1. NoEntry \in Entries /\ NoEntry.failure = "none"
            BY DEF NoEntry, Entries
      <2>2. CASE removeOfflineTab  BY <2>1, <2>2 DEF removeOfflineTab, Fits
      <2>3. CASE addOfflineTab
            BY <2>1, <2>3 DEF addOfflineTab, Fits, Entries
      <2> QED BY <1>3, <2>2, <2>3
<1>4. CASE appendOfflineLines
      BY <1>1, <1>4 DEF appendOfflineLines, Fits, Entries
<1>5. ASSUME NEW p \in Pays, markOfflineSettled(p) PROVE Fits(entry')
      <2>1. CASE entry.kept
            BY <1>1, <1>5, <2>1 DEF markOfflineSettled, Fits, Entries
      <2>2. CASE ~entry.kept
            BY <1>1, <1>5, <2>2 DEF markOfflineSettled
      <2> QED BY <2>1, <2>2
<1>6. ASSUME NEW p \in Pays, markOfflineTabFailed("settle", p) PROVE Fits(entry')
      BY <1>1, <1>6 DEF markOfflineTabFailed, Fits, Entries
<1>7. CASE markOfflineTabFailed("open", NoKey)
      BY <1>1, <1>7 DEF markOfflineTabFailed, Fits, Entries
<1>8. CASE entry' = [entry EXCEPT !.opened = TRUE]
      BY <1>1, <1>8 DEF Fits, Entries
<1> QED BY <1>2, <1>3, <1>4, <1>5, <1>6, <1>7, <1>8

\* A call that starts.
LEMMA EnqueueTyped ==
    ASSUME Typed, NEW w \in Writes, enqueue(w)
    PROVE  Typed'
<1>1. [w |-> w, what |-> "queued"] \in Messages  BY DEF Messages
<1>2. inbox' \in Seq(Messages)
      BY <1>1, AppendFacts DEF Typed, OfflineTypeOK, enqueue
<1> QED BY <1>2 DEF Typed, OfflineTypeOK, RefusalHasKey, enqueue

\* Hearing takes the first message.
LEMMA HearsTyped ==
    ASSUME Typed, NEW w, NEW what, Hears(w, what)
    PROVE  inbox' \in Seq(Messages)
BY TailFacts DEF Typed, OfflineTypeOK, Hears

\* What a step of the cashier leaves.
LEMMA CashierTyped ==
    ASSUME Typed, Cashier
    PROVE  Typed'
<1>1. CASE OpenTabOn   BY <1>1, EnqueueTyped, WriteFacts DEF OpenTabOn
<1>2. CASE SendBasket  BY <1>2, EnqueueTyped, WriteFacts DEF SendBasket
<1>3. CASE Dismiss
      <2>1. removeOfflineTab  BY <1>3 DEF Dismiss
      <2> QED BY <1>3, <2>1, EntryTyped
             DEF Dismiss, Typed, OfflineTypeOK, RefusalHasKey, Fits, Entries
<1>4. CASE ResolveRefusedRow
      <2>1. entry.refused \in Writes
            BY <1>4, WriteFacts DEF ResolveRefusedRow, Typed, RefusalHasKey
      <2>2. inbox' \in Seq(Messages)
            BY <1>4, <2>1, AppendFacts DEF ResolveRefusedRow, Typed, OfflineTypeOK, Messages
      <2> QED BY <1>4, <2>2 DEF ResolveRefusedRow, Typed, OfflineTypeOK, RefusalHasKey
<1>5. CASE \E p \in Pays : SettleOffline(p)
      BY <1>5, EnqueueTyped, WriteFacts DEF SettleOffline
<1>6. CASE \E w \in Writes : DismissRow(w)
      BY <1>6 DEF DismissRow, Typed, OfflineTypeOK, RefusalHasKey
<1>7. CASE StartPay \/ CancelPay
      BY <1>7 DEF StartPay, CancelPay, Typed, OfflineTypeOK, RefusalHasKey
<1> QED BY <1>1, <1>2, <1>3, <1>4, <1>5, <1>6, <1>7 DEF Cashier

\* The verdict of the server, the crash, the reload and the timer.
LEMMA StationTyped ==
    ASSUME Typed,
           Verdict \/ Crash \/ Reload \/ \E w \in Writes : TimeOut(w)
    PROVE  Typed'
<1>1. ASSUME NEW w \in Writes, NEW what \in Answers, Judge(w, what)
      PROVE  Typed'
      <2>1. [w |-> w, what |-> what] \in Messages  BY DEF Messages
      <2>2. Append(inbox, [w |-> w, what |-> what]) \in Seq(Messages)
            BY <2>1, AppendFacts DEF Typed, OfflineTypeOK
      <2>3. inbox' \in Seq(Messages)
            BY <1>1, <2>2 DEF Judge, Typed, OfflineTypeOK
      <2>4. row' \in [Writes -> {"absent", "pending", "resolved"} \cup Answers]
            BY <1>1 DEF Judge, Typed, OfflineTypeOK
      <2> QED BY <1>1, <2>3, <2>4 DEF Judge, Typed, OfflineTypeOK, RefusalHasKey
<1>2. CASE Crash
      <2>1. inbox' \in Seq(Messages)  BY <1>2 DEF Crash
      <2>2. crashes' \in 0..MaxCrashes
            BY <1>2, TabsAssumption DEF Crash, Typed, OfflineTypeOK
      <2>3. call' \in [Writes -> {"idle", "asked", "waiting", "queued", "answered", "cut"}]
            BY <1>2 DEF Crash, Typed, OfflineTypeOK
      <2> QED BY <1>2, <2>1, <2>2, <2>3 DEF Crash, Typed, OfflineTypeOK, RefusalHasKey
<1>3. CASE Reload  BY <1>3 DEF Reload, Typed, OfflineTypeOK, RefusalHasKey
<1>4. ASSUME NEW w \in Writes, TimeOut(w)  PROVE Typed'
      <2>1. Fits(entry')
            <3>1. CASE w = Open   BY <1>4, <3>1, EntryTyped DEF TimeOut
            <3>2. CASE w = Lines  BY <1>4, <3>2, WriteFacts, EntryTyped DEF TimeOut
            <3>3. CASE w \in Pays BY <1>4, <3>3, WriteFacts, EntryTyped DEF TimeOut
            <3> QED BY <3>1, <3>2, <3>3, TabsAssumption DEF Writes, Open, Lines, Pays
      <2> QED BY <1>4, <2>1
              DEF TimeOut, Typed, OfflineTypeOK, RefusalHasKey, Fits, Entries
<1> QED BY <1>1, <1>2, <1>3, <1>4 DEF Verdict

\* What the renderer does with a message.
LEMMA HearTyped ==
    ASSUME Typed, Hear
    PROVE  Typed'
<1>1. ASSUME NEW w \in Writes, HearQueued(w)  PROVE Typed'
      <2>1. inbox' \in Seq(Messages)  BY <1>1, HearsTyped DEF HearQueued
      <2> QED BY <1>1, <2>1 DEF HearQueued, Typed, OfflineTypeOK, RefusalHasKey
<1>2. ASSUME NEW w \in Writes, NEW what \in Answers,
             Hears(w, what), Answered(w), Heard(w), Fits(entry'),
             UNCHANGED <<row, loaded, crashes>>, left' \subseteq Pays,
             pane' \in BOOLEAN
      PROVE  Typed'
      <2>1. inbox' \in Seq(Messages)  BY <1>2, HearsTyped
      <2>2. call' \in [Writes -> {"idle", "asked", "waiting", "queued", "answered", "cut"}]
            BY <1>2 DEF Answered, Typed, OfflineTypeOK
      <2> QED BY <1>2, <2>1, <2>2
              DEF Heard, Typed, OfflineTypeOK, RefusalHasKey, Fits, Entries
<1>3. ASSUME NEW what \in Answers, HearOpen(what)  PROVE Typed'
      <2>1. Fits(entry')
            <3>1. CASE entry' = entry  BY <3>1, EntryTyped
            <3>2. CASE entry' # entry
                  <4>1. retireOpen(what)  BY <1>3, <3>2 DEF HearOpen
                  <4> QED BY <4>1, EntryTyped DEF retireOpen, Answers
            <3> QED BY <3>1, <3>2
      <2>2. left' \subseteq Pays
            BY <1>3 DEF HearOpen, Typed, OfflineTypeOK
      <2> QED BY <1>2, <1>3, <2>1, <2>2, WriteFacts DEF HearOpen
<1>4. ASSUME NEW what \in Answers, HearLines(what)  PROVE Typed'
      <2>1. Fits(entry')  BY <1>4, EntryTyped DEF HearLines
      <2>2. left' \subseteq Pays  BY <1>4 DEF HearLines, Typed, OfflineTypeOK
      <2>3. pane' \in BOOLEAN  BY <1>4 DEF HearLines, Typed, OfflineTypeOK
      <2> QED BY <1>2, <1>4, <2>1, <2>2, <2>3, WriteFacts DEF HearLines
<1>5. ASSUME NEW p \in Pays, NEW what \in Answers, HearSettle(p, what)
      PROVE  Typed'
      <2>1. Fits(entry')
            <3>1. removeOfflineTab \/ entry' = entry \/ retireSettle(p, what)
                  BY <1>5 DEF HearSettle
            <3> QED BY <3>1, EntryTyped DEF retireSettle
      <2>2. left' \subseteq Pays  BY <1>5 DEF HearSettle, Typed, OfflineTypeOK
      <2> QED BY <1>2, <1>5, <2>1, <2>2, WriteFacts DEF HearSettle
<1>6. ASSUME NEW p \in Pays, HearResolved(p)  PROVE Typed'
      <2>1. Fits(entry')  BY <1>6, EntryTyped DEF HearResolved
      <2>2. inbox' \in Seq(Messages)  BY <1>6, HearsTyped DEF HearResolved
      <2> QED BY <1>6, <2>1, <2>2
              DEF HearResolved, Typed, OfflineTypeOK, RefusalHasKey, Fits, Entries
<1> QED BY <1>1, <1>3, <1>4, <1>5, <1>6 DEF Hear

\* Nothing changes, no type does.
LEMMA StutterTyped ==
    ASSUME Typed, UNCHANGED vars
    PROVE  Typed'
BY DEF Typed, OfflineTypeOK, RefusalHasKey, vars

\* Each step keeps the types.
LEMMA NextTyped ==
    ASSUME Typed, [OfflineNext]_vars
    PROVE  Typed'
BY CashierTyped, StationTyped, HearTyped, StutterTyped DEF OfflineNext

-----------------------------------------------------------------------------
(* The messages on their way. *)

\* A call that starts: its reply is the last message, and the first of it.
LEMMA EnqueueInbox ==
    ASSUME Typed, Inbox, NEW w \in Writes, call[w] = "idle", enqueue(w)
    PROVE  Inbox'
<1> DEFINE m == [w |-> w, what |-> "queued"]
<1>1. m \in Messages /\ m.w = w /\ m.what = "queued" /\ m.what \notin Answers
      BY DEF Messages, Answers
<1>2. /\ inbox' = Append(inbox, m)
      /\ Len(inbox) \in Nat
      /\ Len(inbox') = Len(inbox) + 1
      /\ \A i \in 1..Len(inbox) : inbox'[i] = inbox[i]
      /\ inbox'[Len(inbox) + 1] = m
      BY <1>1, AppendFacts DEF Typed, OfflineTypeOK, enqueue
<1>3. \A i \in Msgs : inbox[i] \in Messages
      BY DEF Typed, OfflineTypeOK, Msgs
<1>4. \A i \in Msgs : inbox[i].w = w => inbox[i].what \notin Answers \cup {"queued"}
      <2>1. row[w] = "absent"  BY DEF Inbox, RowOfCall
      <2> QED BY <2>1 DEF Inbox, ReplyIsAsked, AnswerIsRow, Answers
<1>5. row'[w] = "pending" /\ \A v \in Writes \ {w} : row'[v] = row[v]
      BY DEF enqueue, Typed, OfflineTypeOK
<1>6. call'[w] = "asked" /\ \A v \in Writes \ {w} : call'[v] = call[v]
      BY DEF enqueue, Typed, OfflineTypeOK
<1>7. \A i \in Msgs' : \/ i \in Msgs /\ inbox'[i] = inbox[i]
                       \/ i = Len(inbox) + 1 /\ inbox'[i] = m
      <2>1. Msgs' = 1..(Len(inbox) + 1) /\ Msgs = 1..Len(inbox)
            BY <1>2 DEF Msgs
      <2> HIDE DEF m
      <2>2. \A i \in 1..(Len(inbox) + 1) : i \in 1..Len(inbox) \/ i = Len(inbox) + 1
            BY <1>2
      <2> QED BY <1>2, <2>1, <2>2
<1>8. \A i \in Msgs : inbox[i].w \in Writes  BY <1>3 DEF Messages
<1> HIDE DEF m
<1>9. OneReply'   BY <1>1, <1>4, <1>7 DEF Inbox, OneReply
<1>10. OneAnswer' BY <1>1, <1>7 DEF Inbox, OneAnswer
<1>11. ReplyFirst'
       BY <1>1, <1>4, <1>7, <1>2 DEF Inbox, ReplyFirst
<1>12. ReplyIsAsked'  BY <1>1, <1>6, <1>7, <1>8 DEF Inbox, ReplyIsAsked
<1>13. AnswerIsRow'
       BY <1>1, <1>4, <1>5, <1>7, <1>8 DEF Inbox, AnswerIsRow, Answers
<1>14. AnswerIsNew'
       BY <1>1, <1>7 DEF Inbox, AnswerIsNew, enqueue
<1>15. AskedHasReply'
       <2> SUFFICES ASSUME NEW v \in Writes, call'[v] = "asked"
                    PROVE  \E i \in Msgs' : inbox'[i] = [w |-> v, what |-> "queued"]
           BY DEF AskedHasReply
       <2>1. CASE v = w
             BY <1>2, <2>1 DEF Msgs, m
       <2>2. CASE v # w
             <3>1. PICK i \in Msgs : inbox[i] = [w |-> v, what |-> "queued"]
                   BY <1>6, <2>2 DEF Inbox, AskedHasReply
             <3>2. i \in Msgs' /\ inbox'[i] = inbox[i]  BY <1>2 DEF Msgs
             <3> QED BY <3>1, <3>2
       <2> QED BY <2>1, <2>2
<1>16. RowOfCall'  BY <1>5, <1>6 DEF Inbox, RowOfCall
<1>17. HeardIsJudged'
       <2>1. heard' = heard /\ heard \subseteq Writes
             BY DEF enqueue, Typed, OfflineTypeOK
       <2>2. w \notin heard  BY DEF Inbox, HeardIsJudged, RowOfCall
       <2> QED BY <1>5, <2>1, <2>2 DEF Inbox, HeardIsJudged
<1> QED BY <1>9, <1>10, <1>11, <1>12, <1>13, <1>14, <1>15, <1>16, <1>17 DEF Inbox

\* A row a manager sets aside, with or without main's answer to the till.
LEMMA ResolvedInbox ==
    ASSUME Typed, Inbox, NEW w \in Writes, row[w] = "refused",
           row' = [row EXCEPT ![w] = "resolved"],
           UNCHANGED <<call, heard>>,
           inbox' \in {inbox, Append(inbox, [w |-> w, what |-> "resolved"])}
    PROVE  Inbox'
<1> DEFINE m == [w |-> w, what |-> "resolved"]
<1>1. m \in Messages /\ m.what \notin Answers \cup {"queued"}
      BY DEF Messages, Answers
<1>2. Len(inbox) \in Nat /\ \A i \in Msgs : inbox[i].w \in Writes
      <2>1. Len(inbox) \in Nat /\ \A i \in Msgs : inbox[i] \in Messages
            BY DEF Typed, OfflineTypeOK, Msgs
      <2> QED BY <2>1 DEF Messages
<1>3. /\ \A i \in Msgs : i \in Msgs' /\ inbox'[i] = inbox[i]
      /\ \A i \in Msgs' : \/ i \in Msgs /\ inbox'[i] = inbox[i]
                          \/ inbox'[i].what \notin Answers \cup {"queued"}
      <2>1. CASE inbox' = inbox  BY <2>1 DEF Msgs
      <2>2. CASE inbox' = Append(inbox, m)
            BY <1>1, <1>2, <2>2, AppendFacts DEF Typed, OfflineTypeOK, Msgs
      <2> QED BY <2>1, <2>2
<1>4. /\ row'[w] = "resolved"
      /\ \A v \in Writes \ {w} : row'[v] = row[v]
      BY DEF Typed, OfflineTypeOK
<1> HIDE DEF m
<1>5. OneReply' /\ OneAnswer' /\ ReplyFirst'
      BY <1>3 DEF Inbox, OneReply, OneAnswer, ReplyFirst
<1>6. ReplyIsAsked' /\ AnswerIsNew'
      BY <1>3 DEF Inbox, ReplyIsAsked, AnswerIsNew
<1>7. AnswerIsRow'
      BY <1>2, <1>3, <1>4 DEF Inbox, AnswerIsRow, Answers
<1>8. AskedHasReply'
      BY <1>3 DEF Inbox, AskedHasReply
<1>9. RowOfCall'  BY <1>4 DEF Inbox, RowOfCall
<1>10. HeardIsJudged'
       BY <1>4 DEF Inbox, HeardIsJudged, Typed, OfflineTypeOK
<1> QED BY <1>5, <1>6, <1>7, <1>8, <1>9, <1>10 DEF Inbox

\* A verdict: the write was pending, so no answer to it is on its way.
LEMMA JudgeInbox ==
    ASSUME Typed, Inbox, NEW w \in Writes, NEW what \in Answers, Judge(w, what)
    PROVE  Inbox'
<1> DEFINE m == [w |-> w, what |-> what]
<1>1. /\ m \in Messages /\ m.w = w /\ m.what = what /\ m.what # "queued"
      /\ what \in {"acked", "refused"}
      BY DEF Messages, Answers
<1>2. Len(inbox) \in Nat /\ \A i \in Msgs : inbox[i].w \in Writes
      <2>1. Len(inbox) \in Nat /\ \A i \in Msgs : inbox[i] \in Messages
            BY DEF Typed, OfflineTypeOK, Msgs
      <2> QED BY <2>1 DEF Messages
<1>3. /\ \A i \in Msgs : i \in Msgs' /\ inbox'[i] = inbox[i]
      /\ \A i \in Msgs' : \/ i \in Msgs /\ inbox'[i] = inbox[i]
                          \/ i = Len(inbox) + 1 /\ inbox'[i] = m
      <2>1. CASE inbox' = inbox  BY <2>1 DEF Msgs
      <2>2. CASE inbox' = Append(inbox, m)
            BY <1>1, <1>2, <2>2, AppendFacts DEF Typed, OfflineTypeOK, Msgs
      <2> QED BY <2>1, <2>2 DEF Judge
<1>4. /\ row[w] = "pending" /\ row'[w] = what
      /\ \A v \in Writes \ {w} : row'[v] = row[v]
      BY DEF Judge, Typed, OfflineTypeOK
<1>5. UNCHANGED <<call, heard>>  BY DEF Judge
<1>6. \A i \in Msgs : inbox[i].w = w => inbox[i].what \notin Answers
      BY <1>4 DEF Inbox, AnswerIsRow, Answers
<1>7. w \notin heard  BY <1>4 DEF Inbox, HeardIsJudged
<1>8. \A i \in Msgs : i < Len(inbox) + 1  BY <1>2 DEF Msgs
<1> HIDE DEF m
<1>9. OneReply'   BY <1>1, <1>3 DEF Inbox, OneReply
<1>10. OneAnswer' BY <1>1, <1>3, <1>6 DEF Inbox, OneAnswer
<1>11. ReplyFirst'  BY <1>1, <1>3, <1>6, <1>8 DEF Inbox, ReplyFirst
<1>12. ReplyIsAsked'  BY <1>1, <1>3, <1>5 DEF Inbox, ReplyIsAsked
<1>13. AnswerIsRow'
       BY <1>1, <1>2, <1>3, <1>4, <1>6 DEF Inbox, AnswerIsRow, Answers
<1>14. AnswerIsNew'  BY <1>1, <1>3, <1>5, <1>7 DEF Inbox, AnswerIsNew
<1>15. AskedHasReply'  BY <1>3, <1>5 DEF Inbox, AskedHasReply
<1>16. RowOfCall'  BY <1>1, <1>4, <1>5 DEF Inbox, RowOfCall
<1>17. HeardIsJudged'
       BY <1>4, <1>5, <1>7 DEF Inbox, HeardIsJudged, Typed, OfflineTypeOK
<1> QED BY <1>9, <1>10, <1>11, <1>12, <1>13, <1>14, <1>15, <1>16, <1>17 DEF Inbox

\* The messages and the calls in the wait go together.
LEMMA CrashInbox ==
    ASSUME Typed, Inbox, Crash
    PROVE  Inbox'
<1>1. Msgs' = {}
      <2>1. Len(inbox') = 0  BY DEF Crash
      <2> QED BY <2>1 DEF Msgs
<1>2. \A w \in Writes : /\ call'[w] # "asked"
                        /\ call'[w] = "idle" <=> call[w] = "idle"
      BY DEF Crash, InWait, Typed, OfflineTypeOK
<1>3. UNCHANGED <<row, heard>>  BY DEF Crash
<1>4. OneReply' /\ OneAnswer' /\ ReplyFirst' /\ ReplyIsAsked' /\ AnswerIsRow' /\ AnswerIsNew'
      BY <1>1 DEF OneReply, OneAnswer, ReplyFirst, ReplyIsAsked, AnswerIsRow, AnswerIsNew
<1>5. AskedHasReply'  BY <1>2 DEF AskedHasReply
<1>6. RowOfCall'  BY <1>2, <1>3 DEF Inbox, RowOfCall
<1>7. HeardIsJudged'  BY <1>3 DEF Inbox, HeardIsJudged
<1> QED BY <1>4, <1>5, <1>6, <1>7 DEF Inbox

\* A call whose wait runs out, and the steps that touch none of this.
LEMMA QuietInbox ==
    ASSUME Typed, Inbox, UNCHANGED <<row, inbox, heard>>,
           \/ UNCHANGED call
           \/ \E w \in Writes : call[w] = "waiting" /\ call' = [call EXCEPT ![w] = "queued"]
    PROVE  Inbox'
<1>1. \A w \in Writes : /\ call'[w] = "asked" <=> call[w] = "asked"
                        /\ call'[w] = "idle" <=> call[w] = "idle"
      BY DEF Typed, OfflineTypeOK
<1>2. Msgs' = Msgs /\ \A i \in Msgs : inbox[i].w \in Writes
      <2>1. Msgs' = Msgs /\ \A i \in Msgs : inbox[i] \in Messages
            BY DEF Typed, OfflineTypeOK, Msgs
      <2> QED BY <2>1 DEF Messages
<1>3. OneReply' /\ OneAnswer' /\ ReplyFirst' /\ AnswerIsRow' /\ AnswerIsNew'
      BY <1>2 DEF Inbox, OneReply, OneAnswer, ReplyFirst, AnswerIsRow, AnswerIsNew
<1>4. ReplyIsAsked'  BY <1>1, <1>2 DEF Inbox, ReplyIsAsked
<1>5. AskedHasReply'  BY <1>1, <1>2 DEF Inbox, AskedHasReply
<1>6. RowOfCall'  BY <1>1 DEF Inbox, RowOfCall
<1>7. HeardIsJudged'  BY DEF Inbox, HeardIsJudged
<1> QED BY <1>3, <1>4, <1>5, <1>6, <1>7 DEF Inbox

\* Hearing a message moves the others up by one.
LEMMA HearsShifts ==
    ASSUME Typed, NEW w, NEW what, Hears(w, what)
    PROVE  /\ 1 \in Msgs /\ inbox[1] = [w |-> w, what |-> what]
           /\ \A i \in Msgs' : i + 1 \in Msgs /\ inbox'[i] = inbox[i + 1]
           /\ \A i \in Msgs : i # 1 => i - 1 \in Msgs' /\ inbox'[i - 1] = inbox[i]
           /\ Msgs \subseteq Nat /\ Msgs' \subseteq Nat /\ 0 \notin Msgs'
           /\ \A i \in Msgs : inbox[i].w \in Writes
<1>1. /\ inbox \in Seq(Messages) /\ inbox # <<>>
      /\ Head(inbox) = [w |-> w, what |-> what] /\ inbox' = Tail(inbox)
      BY DEF Hears, Typed, OfflineTypeOK
<1>2. /\ Len(inbox) \in Nat /\ Len(inbox) >= 1 /\ Head(inbox) = inbox[1]
      /\ Len(inbox') = Len(inbox) - 1
      /\ \A i \in 1..Len(inbox') : inbox'[i] = inbox[i + 1]
      BY <1>1, TailFacts
<1>3. \A i \in Msgs : inbox[i].w \in Writes
      <2>1. \A i \in Msgs : inbox[i] \in Messages  BY <1>1 DEF Msgs
      <2> QED BY <2>1 DEF Messages
<1>4. Msgs = 1..Len(inbox) /\ Msgs' = 1..(Len(inbox) - 1)  BY <1>2 DEF Msgs
<1>5. 1 \in Msgs /\ inbox[1] = [w |-> w, what |-> what]
      <2>1. 1 \in 1..Len(inbox)  BY <1>2
      <2>2. inbox[1] = [w |-> w, what |-> what]  BY <1>1, <1>2
      <2> QED BY <1>4, <2>1, <2>2
<1>6. \A i \in Msgs' : i + 1 \in Msgs /\ inbox'[i] = inbox[i + 1]
      <2>1. \A i \in 1..(Len(inbox) - 1) : i + 1 \in 1..Len(inbox)  BY <1>2
      <2>2. \A i \in 1..(Len(inbox) - 1) : inbox'[i] = inbox[i + 1]  BY <1>2
      <2> QED BY <1>4, <2>1, <2>2
<1>7. \A i \in Msgs : i # 1 => i - 1 \in Msgs' /\ inbox'[i - 1] = inbox[i]
      <2> SUFFICES ASSUME NEW i \in Msgs, i # 1
                   PROVE  i - 1 \in Msgs' /\ inbox'[i - 1] = inbox[i]
          OBVIOUS
      <2>1. i \in Nat /\ i - 1 \in 1..(Len(inbox) - 1) /\ (i - 1) + 1 = i
            BY <1>2, <1>4
      <2>2. inbox'[i - 1] = inbox[(i - 1) + 1]  BY <1>4, <1>6, <2>1
      <2> QED BY <1>4, <2>1, <2>2
<1>8. Msgs \subseteq Nat /\ Msgs' \subseteq Nat /\ 0 \notin Msgs'
      BY <1>2, <1>4
<1> QED BY <1>3, <1>5, <1>6, <1>7, <1>8

\* What the order of the messages and the rows are told by, message by message.
LEMMA HearsInbox ==
    ASSUME Typed, Inbox, NEW w, NEW what, Hears(w, what), UNCHANGED row
    PROVE  OneReply' /\ OneAnswer' /\ ReplyFirst' /\ AnswerIsRow'
<1>1. /\ \A i \in Msgs' : i + 1 \in Msgs /\ inbox'[i] = inbox[i + 1]
      /\ Msgs' \subseteq Nat
      BY HearsShifts
<1>2. \A i, j \in Msgs' : (i + 1 = j + 1 => i = j) /\ (i + 1 < j + 1 => i < j)
      BY <1>1
<1>3. OneReply'   BY <1>1, <1>2 DEF Inbox, OneReply
<1>4. OneAnswer'  BY <1>1, <1>2 DEF Inbox, OneAnswer
<1>5. ReplyFirst'  BY <1>1, <1>2 DEF Inbox, ReplyFirst
<1>6. AnswerIsRow'  BY <1>1 DEF Inbox, AnswerIsRow
<1> QED BY <1>3, <1>4, <1>5, <1>6

\* The reply to a call: its only one.
LEMMA HearQueuedInbox ==
    ASSUME Typed, Inbox, NEW w \in Writes, HearQueued(w)
    PROVE  Inbox'
<1>1. Hears(w, "queued") /\ UNCHANGED <<row, heard>>  BY DEF HearQueued
<1>2. call'[w] = "waiting" /\ \A v \in Writes \ {w} : call'[v] = call[v]
      BY DEF HearQueued, Typed, OfflineTypeOK
<1>3. /\ 1 \in Msgs /\ inbox[1] = [w |-> w, what |-> "queued"]
      /\ \A i \in Msgs' : i + 1 \in Msgs /\ inbox'[i] = inbox[i + 1]
      /\ \A i \in Msgs : i # 1 => i - 1 \in Msgs' /\ inbox'[i - 1] = inbox[i]
      /\ Msgs' \subseteq Nat /\ 0 \notin Msgs'
      /\ \A i \in Msgs : inbox[i].w \in Writes
      BY <1>1, HearsShifts
<1>4. call[w] = "asked"
      <2>1. inbox[1].what = "queued" /\ inbox[1].w = w  BY <1>3
      <2> QED BY <1>3, <2>1 DEF Inbox, ReplyIsAsked
<1>5. ReplyIsAsked'
      <2> SUFFICES ASSUME NEW i \in Msgs', inbox'[i].what = "queued"
                   PROVE  call'[inbox'[i].w] = "asked"
          BY DEF ReplyIsAsked
      <2>1. i + 1 \in Msgs /\ i + 1 # 1 /\ inbox'[i] = inbox[i + 1]  BY <1>3
      <2>2. inbox[1].w = w /\ inbox[1].what = "queued"  BY <1>3
      <2>3. inbox[i + 1].w # w  BY <1>3, <2>1, <2>2 DEF Inbox, OneReply
      <2> QED BY <1>2, <1>3, <2>1, <2>3 DEF Inbox, ReplyIsAsked
<1>6. AnswerIsNew'  BY <1>1, <1>3 DEF Inbox, AnswerIsNew
<1>7. AskedHasReply'
      <2> SUFFICES ASSUME NEW v \in Writes, call'[v] = "asked"
                   PROVE  \E i \in Msgs' : inbox'[i] = [w |-> v, what |-> "queued"]
          BY DEF AskedHasReply
      <2>1. v # w /\ call[v] = "asked"  BY <1>2
      <2>2. PICK i \in Msgs : inbox[i] = [w |-> v, what |-> "queued"]
            BY <2>1 DEF Inbox, AskedHasReply
      <2>3. i # 1
            <3>1. inbox[1].w = w /\ inbox[i].w = v  BY <1>3, <2>2
            <3> QED BY <2>1, <3>1
      <2> QED BY <1>3, <2>2, <2>3
<1>8. RowOfCall'  BY <1>1, <1>2, <1>4 DEF Inbox, RowOfCall
<1>9. HeardIsJudged'  BY <1>1 DEF Inbox, HeardIsJudged
<1> QED BY <1>1, <1>5, <1>6, <1>7, <1>8, <1>9, HearsInbox DEF Inbox

\* An answer is heard by a call that is not asked any more, and for the first time.
LEMMA AnswerHeard ==
    ASSUME Typed, Inbox, NEW w \in Writes, NEW what \in Answers, Hears(w, what)
    PROVE  /\ call[w] \notin {"idle", "asked"} /\ w \notin heard
           /\ what = "acked" => row[w] = "acked"
           /\ what = "refused" => row[w] \in {"refused", "resolved"}
<1>1. 1 \in Msgs /\ inbox[1].w = w /\ inbox[1].what = what
      <2>1. 1 \in Msgs /\ inbox[1] = [w |-> w, what |-> what]  BY HearsShifts
      <2> QED BY <2>1
<1>2. /\ w \notin heard
      /\ what = "acked" => row[w] = "acked"
      /\ what = "refused" => row[w] \in {"refused", "resolved"}
      BY <1>1 DEF Inbox, AnswerIsNew, AnswerIsRow
<1>3. call[w] # "idle"  BY <1>2 DEF Inbox, RowOfCall, Answers
<1>4. call[w] # "asked"
      <2> SUFFICES ASSUME call[w] = "asked"  PROVE FALSE  OBVIOUS
      <2>1. PICK i \in Msgs : inbox[i] = [w |-> w, what |-> "queued"]
            BY DEF Inbox, AskedHasReply
      <2>2. inbox[i].w = w /\ inbox[i].what = "queued"  BY <2>1
      <2>3. i < 1  BY <1>1, <2>2 DEF Inbox, ReplyFirst
      <2>4. Len(inbox) \in Nat  BY DEF Typed, OfflineTypeOK
      <2> QED BY <2>3, <2>4 DEF Msgs
<1> QED BY <1>2, <1>3, <1>4

\* The result of a call.
LEMMA HearAnswerInbox ==
    ASSUME Typed, Inbox, NEW w \in Writes, NEW what \in Answers, Hears(w, what),
           Answered(w), Heard(w), UNCHANGED row
    PROVE  Inbox'
<1>1. /\ call[w] \notin {"idle", "asked"}
      /\ row[w] \notin {"absent", "pending"}
      <2>1. row[w] \notin {"absent", "pending"}  BY AnswerHeard DEF Answers
      <2> QED BY <2>1, AnswerHeard
<1>2. \A v \in Writes : /\ call'[v] = "asked" <=> call[v] = "asked"
                        /\ call'[v] = "idle" <=> call[v] = "idle"
      BY <1>1 DEF Answered, Typed, OfflineTypeOK
<1>3. /\ 1 \in Msgs /\ inbox[1] = [w |-> w, what |-> what]
      /\ \A i \in Msgs' : i + 1 \in Msgs /\ inbox'[i] = inbox[i + 1]
      /\ \A i \in Msgs : i # 1 => i - 1 \in Msgs' /\ inbox'[i - 1] = inbox[i]
      /\ Msgs' \subseteq Nat /\ 0 \notin Msgs'
      /\ \A i \in Msgs : inbox[i].w \in Writes
      BY HearsShifts
<1>4. inbox[1].w = w /\ inbox[1].what = what  BY <1>3
<1>5. ReplyIsAsked'  BY <1>2, <1>3 DEF Inbox, ReplyIsAsked
<1>6. AnswerIsNew'
      <2> SUFFICES ASSUME NEW i \in Msgs', inbox'[i].what \in Answers
                   PROVE  inbox'[i].w \notin heard'
          BY DEF AnswerIsNew
      <2>1. i + 1 \in Msgs /\ i + 1 # 1 /\ inbox'[i] = inbox[i + 1]  BY <1>3
      <2>2. inbox[i + 1].w # w
            BY <1>3, <1>4, <2>1 DEF Inbox, OneAnswer
      <2> QED BY <2>1, <2>2 DEF Inbox, AnswerIsNew, Heard
<1>7. AskedHasReply'
      <2> SUFFICES ASSUME NEW v \in Writes, call'[v] = "asked"
                   PROVE  \E i \in Msgs' : inbox'[i] = [w |-> v, what |-> "queued"]
          BY DEF AskedHasReply
      <2>1. v # w /\ call[v] = "asked"  BY <1>1, <1>2
      <2>2. PICK i \in Msgs : inbox[i] = [w |-> v, what |-> "queued"]
            BY <2>1 DEF Inbox, AskedHasReply
      <2>3. i # 1
            <3>1. inbox[i].w = v  BY <2>2
            <3> QED BY <1>4, <2>1, <3>1
      <2> QED BY <1>3, <2>2, <2>3
<1>8. RowOfCall'  BY <1>2 DEF Inbox, RowOfCall
<1>9. HeardIsJudged'  BY <1>1 DEF Inbox, HeardIsJudged, Heard
<1> QED BY <1>5, <1>6, <1>7, <1>8, <1>9, HearsInbox DEF Inbox

\* The answer to a manager leaves the other messages as they were.
LEMMA HearResolvedInbox ==
    ASSUME Typed, Inbox, NEW p \in Pays, HearResolved(p)
    PROVE  Inbox'
<1>1. Hears(p, "resolved") /\ UNCHANGED <<row, call, heard>>  BY DEF HearResolved
<1>2. /\ 1 \in Msgs /\ inbox[1] = [w |-> p, what |-> "resolved"]
      /\ \A i \in Msgs' : i + 1 \in Msgs /\ inbox'[i] = inbox[i + 1]
      /\ \A i \in Msgs : i # 1 => i - 1 \in Msgs' /\ inbox'[i - 1] = inbox[i]
      BY <1>1, HearsShifts
<1>3. ReplyIsAsked' /\ AnswerIsNew'
      BY <1>1, <1>2 DEF Inbox, ReplyIsAsked, AnswerIsNew
<1>4. AskedHasReply'
      <2> SUFFICES ASSUME NEW v \in Writes, call[v] = "asked"
                   PROVE  \E i \in Msgs' : inbox'[i] = [w |-> v, what |-> "queued"]
          BY <1>1 DEF AskedHasReply
      <2>1. PICK i \in Msgs : inbox[i] = [w |-> v, what |-> "queued"]
            BY DEF Inbox, AskedHasReply
      <2>2. i # 1
            <3>1. inbox[i].what = "queued" /\ inbox[1].what = "resolved"
                  BY <1>2, <2>1
            <3> QED BY <3>1
      <2> QED BY <1>2, <2>1, <2>2
<1>5. RowOfCall' /\ HeardIsJudged'  BY <1>1 DEF Inbox, RowOfCall, HeardIsJudged
<1> QED BY <1>1, <1>3, <1>4, <1>5, HearsInbox DEF Inbox

\* Each step keeps what the messages on their way tell.
LEMMA NextInbox ==
    ASSUME Typed, Inbox, [OfflineNext]_vars
    PROVE  Inbox'
<1>1. CASE OpenTabOn
      BY <1>1, EnqueueInbox, WriteFacts DEF OpenTabOn
<1>2. CASE SendBasket
      BY <1>2, EnqueueInbox, WriteFacts DEF SendBasket
<1>3. ASSUME NEW p \in Pays, SettleOffline(p)  PROVE Inbox'
      BY <1>3, EnqueueInbox, WriteFacts DEF SettleOffline
<1>4. CASE Dismiss  BY <1>4, QuietInbox DEF Dismiss
<1>5. CASE ResolveRefusedRow
      <2>1. entry.refused \in Writes
            BY <1>5, WriteFacts DEF ResolveRefusedRow, Typed, RefusalHasKey
      <2> QED BY <1>5, <2>1, ResolvedInbox DEF ResolveRefusedRow
<1>6. ASSUME NEW w \in Writes, DismissRow(w)  PROVE Inbox'
      BY <1>6, ResolvedInbox DEF DismissRow
<1>7. CASE Verdict  BY <1>7, JudgeInbox DEF Verdict
<1>8. CASE Crash    BY <1>8, CrashInbox
<1>9. CASE Reload   BY <1>9, QuietInbox DEF Reload
<1>10. ASSUME NEW w \in Writes, TimeOut(w)  PROVE Inbox'
       BY <1>10, QuietInbox DEF TimeOut
<1>11. ASSUME NEW w \in Writes, HearQueued(w)  PROVE Inbox'
       BY <1>11, HearQueuedInbox
<1>12. ASSUME NEW what \in Answers, HearOpen(what)  PROVE Inbox'
       BY <1>12, HearAnswerInbox, WriteFacts DEF HearOpen
<1>13. ASSUME NEW what \in Answers, HearLines(what)  PROVE Inbox'
       BY <1>13, HearAnswerInbox, WriteFacts DEF HearLines
<1>14. ASSUME NEW p \in Pays, NEW what \in Answers, HearSettle(p, what)
       PROVE  Inbox'
       BY <1>14, HearAnswerInbox, WriteFacts DEF HearSettle
<1>15. ASSUME NEW p \in Pays, HearResolved(p)  PROVE Inbox'
       BY <1>15, HearResolvedInbox
<1>16. CASE UNCHANGED vars  BY <1>16, QuietInbox DEF vars
<1>17. CASE StartPay \/ CancelPay
       BY <1>17, QuietInbox DEF StartPay, CancelPay
<1> QED BY <1>1, <1>2, <1>3, <1>4, <1>5, <1>6, <1>7, <1>8, <1>9, <1>10, <1>11,
           <1>12, <1>13, <1>14, <1>15, <1>16, <1>17 DEF OfflineNext, Cashier, Hear

-----------------------------------------------------------------------------
(* Where the payments are. *)

SameEntry == /\ entry'.kept = entry.kept /\ entry'.key = entry.key
             /\ entry'.settled = entry.settled
             /\ entry'.opened => entry.opened \/ row[Open] = "acked"
             /\ entry'.failure = "settle" =>
                    entry.failure = "settle" \/ \A p \in Pays : ~Owed(p)'

\* The calls of the payments change only by being cut off, or by being set to
\* wait; the open's call keeps the state it answered with.
SameCalls == /\ \A p \in Pays :
                   /\ call'[p] \in {"asked", "waiting"} => call[p] \in {"asked", "waiting"}
                   /\ call'[p] = "queued" <=> call[p] = "queued"
                   /\ call'[p] = "idle" <=> call[p] = "idle"
             /\ call[Open] \notin {"idle", "asked", "waiting"} => call'[Open] = call[Open]

SamePaid == \A p \in Pays :
    /\ row'[p] \in {"pending", "acked"} /\ call'[p] # "cut"
    => /\ row[p] \in {"pending", "acked"} /\ call[p] # "cut"
       /\ call[p] \in {"asked", "waiting"} => call'[p] \in {"asked", "waiting"}

\* A payment whose answer is heard now is not paid, or its entry is gone.
SameHeard == /\ heard \subseteq heard'
             /\ \A p \in Pays : p \in heard' \ heard =>
                   /\ call'[p] \notin {"asked", "waiting"}
                   /\ row'[p] \notin {"pending", "acked"} \/ ~entry.kept

\* A step that touches neither the entry nor a payment's place.
LEMMA QuietLedger ==
    ASSUME Typed, Ledger, SameEntry, SameCalls, SamePaid, SameHeard,
           UNCHANGED left,
           row[Open] = "acked" => row'[Open] = "acked",
           Resolving' => Resolving
    PROVE  Ledger'
<1>1. \A p \in Pays : /\ Owed(p)' => Owed(p)
                      /\ InWait(p)' => InWait(p)
                      /\ Paid(p)' => Paid(p)
                      /\ Paid(p)' /\ InWait(p) => InWait(p)'
                      /\ Paid(p)' /\ Owed(p) => Owed(p)' \/ ~entry.kept
      BY DEF Owed, InWait, Paid, SameCalls, SamePaid, SameHeard
<1>2. entry.key \in Pays \cup {NoKey}  BY DEF Typed, OfflineTypeOK
<1>3. OwedIsMarked'  BY <1>1 DEF Ledger, OwedIsMarked, SameEntry
<1>4. OpenedIsOpen'  BY DEF Ledger, OpenedIsOpen, SameEntry
<1>5. OneWait'  BY <1>1 DEF Ledger, OneWait
<1>6. WaitOwesNothing'  BY <1>1 DEF Ledger, WaitOwesNothing
<1>7. WaitHasEntry'  BY <1>1 DEF Ledger, WaitHasEntry, SameEntry
<1>8. WaitIsUnheard'
      BY <1>1 DEF Ledger, WaitIsUnheard, SameHeard, InWait
<1>9. KeyIsQueued'
      BY <1>2 DEF Ledger, KeyIsQueued, SameEntry, SameCalls
<1>10. EntryWasOpened'  BY DEF Ledger, EntryWasOpened, SameEntry, SameCalls
<1>11. LeftHasNoEntry'  BY DEF Ledger, LeftHasNoEntry, SameEntry
<1>12. OpenWasAnswered'  BY DEF Ledger, OpenWasAnswered, SameCalls
<1>13. LeftWasPressed'
       BY DEF Ledger, LeftWasPressed, SameCalls, Typed, OfflineTypeOK
<1>14. ResolvingOwesNothing'  BY <1>1 DEF Ledger, ResolvingOwesNothing
<1>15. PaidIsSomewhere'  BY <1>1 DEF Ledger, PaidIsSomewhere, SameEntry
<1> QED BY <1>3, <1>4, <1>5, <1>6, <1>7, <1>8, <1>9, <1>10, <1>11, <1>12,
           <1>13, <1>14, <1>15 DEF Ledger

\* A message appended, or taken, is no answer of main to a manager.
LEMMA NotResolving ==
    ASSUME Typed,
           \/ UNCHANGED inbox
           \/ inbox' = <<>>
           \/ \E m \in Messages : m.what # "resolved" /\ inbox' = Append(inbox, m)
           \/ \E w, what : Hears(w, what)
    PROVE  Resolving' => Resolving
<1>1. CASE UNCHANGED inbox  BY <1>1 DEF Resolving
<1>2. CASE inbox' = <<>>
      <2>1. Len(inbox') = 0  BY <1>2
      <2> QED BY <2>1 DEF Resolving
<1>3. ASSUME NEW m \in Messages, m.what # "resolved", inbox' = Append(inbox, m)
      PROVE  Resolving' => Resolving
      <2>1. /\ Len(inbox) \in Nat /\ Len(inbox') = Len(inbox) + 1
            /\ \A i \in 1..Len(inbox) : inbox'[i] = inbox[i]
            /\ inbox'[Len(inbox) + 1] = m
            BY <1>3, AppendFacts DEF Typed, OfflineTypeOK
      <2> SUFFICES ASSUME NEW i \in 1..Len(inbox'), inbox'[i].what = "resolved"
                   PROVE  Resolving
          BY DEF Resolving
      <2>2. i \in 1..Len(inbox) \/ i = Len(inbox) + 1  BY <2>1
      <2> QED BY <1>3, <2>1, <2>2 DEF Resolving
<1>4. ASSUME NEW w, NEW what, Hears(w, what)  PROVE Resolving' => Resolving
      <2>1. \A i \in Msgs' : i + 1 \in Msgs /\ inbox'[i] = inbox[i + 1]
            BY <1>4, HearsShifts
      <2> QED BY <2>1 DEF Resolving, Msgs
<1> QED BY <1>1, <1>2, <1>3, <1>4

\* A call of another write than a payment.
LEMMA OtherEnqueueLedger ==
    ASSUME Typed, Inbox, Ledger, NEW w \in {Open, Lines}, call[w] = "idle", enqueue(w)
    PROVE  Ledger'
<1>1. w \in Writes /\ w \notin Pays  BY WriteFacts
<1>2. row[w] = "absent"  BY <1>1 DEF Inbox, RowOfCall
<1>3. /\ \A v \in Writes \ {w} : call'[v] = call[v] /\ row'[v] = row[v]
      /\ call'[w] = "asked"
      BY <1>1 DEF enqueue, Typed, OfflineTypeOK
<1>4. SameCalls  BY <1>1, <1>3, WriteFacts DEF SameCalls
<1>5. SamePaid  BY <1>1, <1>3, WriteFacts DEF SamePaid
<1>6. row[Open] = "acked" => row'[Open] = "acked"  BY <1>2, <1>3, WriteFacts
<1>7. Resolving' => Resolving
      <2>1. [w |-> w, what |-> "queued"] \in Messages  BY <1>1 DEF Messages
      <2>2. [w |-> w, what |-> "queued"].what # "resolved"  OBVIOUS
      <2> QED BY <2>1, <2>2, NotResolving DEF enqueue
<1>8. SameEntry /\ SameHeard /\ UNCHANGED left
      BY DEF enqueue, SameEntry, SameHeard
<1> QED BY <1>4, <1>5, <1>6, <1>7, <1>8, QuietLedger

\* The payment pressed: nothing waits and nothing is owed.
LEMMA SettleLedger ==
    ASSUME Typed, Inbox, Ledger, PaneOwesNothing, NEW p \in Pays, SettleOffline(p)
    PROVE  Ledger'
<1>1. /\ entry.kept /\ ~Busy /\ call[p] = "idle" /\ enqueue(p)
      /\ \A q \in Pays : ~Owed(q)
      BY DEF SettleOffline, PaneOwesNothing
<1>2. p \in Writes  BY WriteFacts
<1>3. /\ \A v \in Writes \ {p} : call'[v] = call[v] /\ row'[v] = row[v]
      /\ call'[p] = "asked" /\ row'[p] = "pending"
      BY <1>1, <1>2 DEF enqueue, Typed, OfflineTypeOK
<1>4. \A q \in Pays : ~InWait(q) /\ ~Owed(q)
      BY <1>1 DEF Busy
<1>5. \A q \in Pays : ~Paid(q)
      BY <1>1, <1>4 DEF Ledger, PaidIsSomewhere
<1>6. UNCHANGED <<entry, heard, left>>  BY <1>1 DEF enqueue
<1>7. \A q \in Pays : q # p => /\ ~InWait(q)' /\ ~Owed(q)' /\ ~Paid(q)'
      BY <1>3, <1>4, <1>5, <1>6, WriteFacts DEF InWait, Owed, Paid
<1>8. InWait(p)' /\ ~Owed(p)'  BY <1>3 DEF InWait, Owed
<1>9. call'[Open] = call[Open] /\ row'[Open] = row[Open] /\ call[Open] = "queued"
      BY <1>1, <1>3, WriteFacts DEF Ledger, EntryWasOpened
<1>10. ~Resolving'
       <2>1. [w |-> p, what |-> "queued"] \in Messages  BY <1>2 DEF Messages
       <2>2. [w |-> p, what |-> "queued"].what # "resolved"  OBVIOUS
       <2> QED BY <1>1, <2>1, <2>2, NotResolving DEF enqueue, Busy
<1>11. OwedIsMarked' /\ OneWait' /\ WaitOwesNothing' /\ ResolvingOwesNothing'
       BY <1>7, <1>8, <1>10
       DEF OwedIsMarked, OneWait, WaitOwesNothing, ResolvingOwesNothing
<1>12. OpenedIsOpen' /\ WaitHasEntry' /\ EntryWasOpened' /\ LeftHasNoEntry'
       BY <1>1, <1>6, <1>9 DEF Ledger, OpenedIsOpen, WaitHasEntry, EntryWasOpened,
                               LeftHasNoEntry
<1>13. KeyIsQueued'
       <2>1. entry.key # p  BY <1>1, WriteFacts DEF Ledger, KeyIsQueued
       <2>2. entry.key # NoKey => entry.key \in Writes
             BY WriteFacts DEF Typed, OfflineTypeOK
       <2> QED BY <1>3, <1>6, <2>1, <2>2 DEF Ledger, KeyIsQueued
<1>14. OpenWasAnswered'  BY <1>9 DEF OpenWasAnswered
<1>15. LeftWasPressed'
       BY <1>3, <1>6, WriteFacts DEF Ledger, LeftWasPressed, Typed, OfflineTypeOK
<1>16. PaidIsSomewhere'  BY <1>7, <1>8 DEF PaidIsSomewhere
<1>17. WaitIsUnheard'
       <2>1. p \notin heard
             BY <1>1, <1>2 DEF Inbox, HeardIsJudged, RowOfCall
       <2> QED BY <1>6, <1>7, <2>1 DEF WaitIsUnheard
<1> QED BY <1>11, <1>12, <1>13, <1>14, <1>15, <1>16, <1>17 DEF Ledger

\* The entry goes: by a dismissal, by an answer of main, by an ack.  Payments
\* that wait or are owed have left with it.
LEMMA RemoveLedger ==
    ASSUME Typed, Ledger,
           \/ removeOfflineTab
           \/ ~entry.kept /\ UNCHANGED entry,
           left \subseteq left', left' \subseteq Pays,
           SameCalls, UNCHANGED row, Resolving' => Resolving,
           heard \subseteq heard',
           \A p \in Pays : call'[p] = "queued" => p \in heard' \cup left',
           \A p \in Pays : call'[p] \in {"asked", "waiting"} =>
                              p \in left' /\ (p \in heard' => p \in heard),
           \A p \in left' \ left : call[p] # "idle"
    PROVE  Ledger'
<1>1. /\ ~entry'.kept /\ entry'.key = NoKey
      /\ entry'.opened => row[Open] = "acked"
      BY DEF removeOfflineTab, NoEntry, Ledger, KeyIsQueued, OpenedIsOpen
<1>2. \A p \in Pays : ~Owed(p)'  BY DEF Owed
<1>3. /\ \A p \in Pays : InWait(p)' => InWait(p)
      /\ \A p \in Pays : InWait(p)' => p \in left'
      /\ \A p \in Pays : InWait(p)' => (p \in heard' => p \in heard)
      BY DEF InWait, SameCalls
<1>4. OwedIsMarked' /\ WaitOwesNothing' /\ PaidIsSomewhere'
      BY <1>1, <1>2 DEF OwedIsMarked, WaitOwesNothing, PaidIsSomewhere
<1>5. OpenedIsOpen' /\ KeyIsQueued' /\ EntryWasOpened' /\ LeftHasNoEntry'
      BY <1>1 DEF OpenedIsOpen, KeyIsQueued, EntryWasOpened, LeftHasNoEntry
<1>6. OneWait'  BY <1>3 DEF Ledger, OneWait
<1>7. WaitHasEntry'  BY <1>3 DEF WaitHasEntry
<1>8. WaitIsUnheard'  BY <1>3 DEF Ledger, WaitIsUnheard
<1>9. OpenWasAnswered'  BY DEF Ledger, OpenWasAnswered, SameCalls
<1>10. LeftWasPressed'
       BY DEF Ledger, LeftWasPressed, SameCalls, Typed, OfflineTypeOK
<1>11. ResolvingOwesNothing'
       BY <1>2, <1>3 DEF Ledger, ResolvingOwesNothing
<1> QED BY <1>4, <1>5, <1>6, <1>7, <1>8, <1>9, <1>10, <1>11 DEF Ledger

\* An entry is put aside only while nothing is running, and a payment still
\* owed on it is from then on one that left.
LEMMA DismissLedger ==
    ASSUME Typed, Ledger, Dismiss
    PROVE  Ledger'
<1>1. /\ removeOfflineTab /\ ~Busy /\ UNCHANGED <<row, call, inbox, heard>>
      /\ left' = left \cup {p \in Pays : call[p] = "queued"}
      BY DEF Dismiss
<1>2. SameCalls  BY <1>1 DEF SameCalls
<1>3. Resolving' => Resolving  BY <1>1, NotResolving
<1>4. left' \subseteq Pays  BY <1>1 DEF Typed, OfflineTypeOK
<1>5. \A p \in Pays : ~(call'[p] \in {"asked", "waiting"})
      BY <1>1 DEF Busy, InWait
<1> QED BY <1>1, <1>2, <1>3, <1>4, <1>5, RemoveLedger

\* A manager's act: what is refused was no payment in its place.
LEMMA ResolvedLedger ==
    ASSUME Typed, Ledger, ResolveRefusedRow \/ \E w \in Writes : DismissRow(w)
    PROVE  Ledger'
<1>1. UNCHANGED <<call, entry, heard, left>>
      BY DEF ResolveRefusedRow, DismissRow
<1>2. SameEntry /\ SameCalls /\ SameHeard
      BY <1>1 DEF SameEntry, SameCalls, SameHeard
<1>3. PICK w \in Writes : row[w] = "refused" /\ row' = [row EXCEPT ![w] = "resolved"]
      BY WriteFacts DEF ResolveRefusedRow, DismissRow, Typed, RefusalHasKey
<1>4. \A v \in Writes : \/ row'[v] = row[v]
                        \/ row[v] = "refused" /\ row'[v] = "resolved"
      BY <1>3 DEF Typed, OfflineTypeOK
<1>5. SamePaid  BY <1>1, <1>4, WriteFacts DEF SamePaid
<1>6. row[Open] = "acked" => row'[Open] = "acked"  BY <1>4, WriteFacts
<1>7. CASE \E v \in Writes : DismissRow(v)
      <2>1. Resolving' => Resolving  BY <1>7, NotResolving DEF DismissRow
      <2> QED BY <1>1, <1>2, <1>5, <1>6, <2>1, QuietLedger
<1>8. CASE ResolveRefusedRow
      <2>1. ~Busy /\ entry.failure = "settle"  BY <1>8 DEF ResolveRefusedRow
      <2>2. \A p \in Pays : ~InWait(p) /\ ~Owed(p)
            BY <2>1 DEF Busy, Ledger, OwedIsMarked
      <2>3. \A p \in Pays : /\ ~InWait(p)' /\ ~Owed(p)'
                            /\ Paid(p)' => Paid(p)
            BY <1>1, <1>5, <2>2 DEF InWait, Owed, Paid, SamePaid
      <2>4. /\ OwedIsMarked' /\ OneWait' /\ WaitOwesNothing' /\ WaitHasEntry'
            /\ WaitIsUnheard' /\ ResolvingOwesNothing'
            BY <2>3 DEF OwedIsMarked, OneWait, WaitOwesNothing, WaitHasEntry,
                        WaitIsUnheard, ResolvingOwesNothing
      <2>5. /\ OpenedIsOpen' /\ KeyIsQueued' /\ EntryWasOpened' /\ LeftHasNoEntry'
            /\ OpenWasAnswered' /\ LeftWasPressed'
            BY <1>1, <1>6 DEF Ledger, OpenedIsOpen, KeyIsQueued, EntryWasOpened,
                              LeftHasNoEntry, OpenWasAnswered, LeftWasPressed
      <2>6. PaidIsSomewhere'
            BY <1>1, <2>2, <2>3 DEF Ledger, PaidIsSomewhere
      <2> QED BY <2>4, <2>5, <2>6 DEF Ledger
<1> QED BY <1>7, <1>8

\* Verdicts, a death of the renderer and its return leave payments where the
\* ledger has them, or give them up by name.
LEMMA StationLedger ==
    ASSUME Typed, Inbox, Ledger, Verdict \/ Crash \/ Reload
    PROVE  Ledger'
<1>1. ASSUME NEW w \in Writes, NEW what \in Answers, Judge(w, what)
      PROVE  Ledger'
      <2>1. UNCHANGED <<call, entry, heard, left>>  BY <1>1 DEF Judge
      <2>2. SameEntry /\ SameCalls /\ SameHeard
            BY <2>1 DEF SameEntry, SameCalls, SameHeard
      <2>3. /\ row[w] = "pending"
            /\ \A v \in Writes \ {w} : row'[v] = row[v]
            BY <1>1 DEF Judge, Typed, OfflineTypeOK
      <2>4. SamePaid  BY <2>1, <2>3, WriteFacts DEF SamePaid
      <2>5. row[Open] = "acked" => row'[Open] = "acked"  BY <2>3, WriteFacts
      <2>6. Resolving' => Resolving
            <3>1. /\ [w |-> w, what |-> what] \in Messages
                  /\ [w |-> w, what |-> what].what # "resolved"
                  BY DEF Messages, Answers
            <3>2. UNCHANGED inbox \/ inbox' = Append(inbox, [w |-> w, what |-> what])
                  BY <1>1 DEF Judge
            <3> QED BY <3>1, <3>2, NotResolving
      <2> QED BY <2>1, <2>2, <2>4, <2>5, <2>6, QuietLedger
<1>2. CASE Crash
      <2>1. UNCHANGED <<row, entry, heard, left>>  BY <1>2 DEF Crash
      <2>2. \A w \in Writes : call'[w] = IF InWait(w) THEN "cut" ELSE call[w]
            BY <1>2 DEF Crash
      <2>3. SameCalls  BY <2>2, WriteFacts DEF SameCalls, InWait
      <2>4. SamePaid  BY <2>1, <2>2, WriteFacts DEF SamePaid, InWait
      <2>5. Resolving' => Resolving  BY <1>2, NotResolving DEF Crash
      <2>6. SameEntry /\ SameHeard  BY <2>1 DEF SameEntry, SameHeard
      <2> QED BY <2>1, <2>3, <2>4, <2>5, <2>6, QuietLedger
<1>3. CASE Reload
      <2>1. UNCHANGED <<row, call, inbox, entry, heard, left>>  BY <1>3 DEF Reload
      <2>2. SameEntry /\ SameCalls /\ SamePaid /\ SameHeard
            BY <2>1 DEF SameEntry, SameCalls, SamePaid, SameHeard
      <2> QED BY <2>1, <2>2, NotResolving, QuietLedger
<1> QED BY <1>1, <1>2, <1>3 DEF Verdict

\* A wait that runs out with the entry still there marks it with the payment.
LEMMA MarkLedger ==
    ASSUME Typed, Inbox, Ledger, NEW p \in Pays, TimeOut(p)
    PROVE  Ledger'
<1>1. /\ call[p] = "waiting" /\ markOfflineSettled(p)
      /\ UNCHANGED <<row, inbox, heard, left>>
      BY WriteFacts DEF TimeOut
<1>2. /\ \A v \in Writes \ {p} : call'[v] = call[v]
      /\ call'[p] = "queued" /\ p \in Writes
      BY WriteFacts DEF TimeOut, Typed, OfflineTypeOK
<1>3. InWait(p)  BY <1>1 DEF InWait
<1>4. \A q \in Pays : /\ ~Owed(q) /\ (q # p => ~InWait(q))
      BY <1>3 DEF Ledger, OneWait, WaitOwesNothing
<1>5. \A q \in Pays : /\ ~InWait(q)' /\ (q # p => ~Owed(q)')
                      /\ q # p => (Paid(q)' => Paid(q))
      BY <1>1, <1>2, <1>4, WriteFacts DEF InWait, Owed, Paid
<1>6. ~Resolving'
      <2>1. ~Resolving  BY <1>3 DEF Ledger, ResolvingOwesNothing
      <2> QED BY <1>1, <2>1, NotResolving
<1>7. /\ entry'.kept = entry.kept /\ entry'.opened = entry.opened
      /\ entry.kept => /\ entry'.settled /\ entry'.key = p
                       /\ entry'.failure = "none"
      /\ ~entry.kept => entry' = entry
      BY <1>1 DEF markOfflineSettled, Typed, OfflineTypeOK
<1>8. Owed(p)' => entry.kept
      BY <1>1, <1>3 DEF Owed, Ledger, WaitHasEntry
<1>9. p \notin heard  BY <1>3 DEF Ledger, WaitIsUnheard
<1>10. call'[Open] = call[Open]  BY <1>2, WriteFacts
<1>11. OwedIsMarked'  BY <1>5, <1>7, <1>8 DEF OwedIsMarked
<1>12. OpenedIsOpen' /\ EntryWasOpened' /\ LeftHasNoEntry'
       BY <1>1, <1>7, <1>10 DEF Ledger, OpenedIsOpen, EntryWasOpened, LeftHasNoEntry
<1>13. OneWait' /\ WaitOwesNothing' /\ WaitHasEntry' /\ WaitIsUnheard'
       BY <1>5 DEF OneWait, WaitOwesNothing, WaitHasEntry, WaitIsUnheard
<1>14. KeyIsQueued'
       BY <1>2, <1>7 DEF Ledger, KeyIsQueued
<1>15. OpenWasAnswered'
       BY <1>2, <1>3, <1>10, WriteFacts DEF Ledger, OpenWasAnswered, InWait
<1>16. LeftWasPressed'
       BY <1>1, <1>2, WriteFacts DEF Ledger, LeftWasPressed, Typed, OfflineTypeOK
<1>17. ResolvingOwesNothing'  BY <1>6 DEF ResolvingOwesNothing
<1>18. PaidIsSomewhere'
       <2>1. ASSUME NEW q \in Pays, Paid(q)', q # p  PROVE ~entry'.kept
             BY <1>4, <1>5, <1>7, <2>1 DEF Ledger, PaidIsSomewhere
       <2>2. entry.kept => Owed(p)'
             BY <1>1, <1>2, <1>9 DEF Owed, Ledger, LeftHasNoEntry
       <2> QED BY <1>7, <2>1, <2>2 DEF PaidIsSomewhere
<1> QED BY <1>11, <1>12, <1>13, <1>14, <1>15, <1>16, <1>17, <1>18 DEF Ledger

\* The open was still in its wait, so no payment was pressed.
LEMMA AddLedger ==
    ASSUME Typed, Inbox, Ledger, TimeOut(Open)
    PROVE  Ledger'
<1>1. /\ call[Open] = "waiting" /\ addOfflineTab
      /\ UNCHANGED <<row, inbox, heard, left>>
      BY WriteFacts DEF TimeOut
<1>2. /\ \A v \in Writes \ {Open} : call'[v] = call[v]
      /\ call'[Open] = "queued"
      BY WriteFacts DEF TimeOut, Typed, OfflineTypeOK
<1>3. \A p \in Pays : call[p] = "idle" /\ call'[p] = "idle"
      BY <1>1, <1>2, WriteFacts DEF Ledger, OpenWasAnswered
<1>4. left = {}
      BY <1>3 DEF Ledger, LeftWasPressed, Typed, OfflineTypeOK
<1>5. \A p \in Pays : ~InWait(p)' /\ ~Owed(p)' /\ ~Paid(p)'
      <2>1. \A p \in Pays : row[p] = "absent"
            BY <1>3, WriteFacts DEF Inbox, RowOfCall
      <2> QED BY <1>1, <1>3, <2>1 DEF InWait, Owed, Paid
<1>6. entry'.key = NoKey /\ ~entry'.opened
      BY <1>1 DEF addOfflineTab, NoEntry
<1>7. /\ OwedIsMarked' /\ OneWait' /\ WaitOwesNothing' /\ WaitHasEntry'
      /\ WaitIsUnheard' /\ ResolvingOwesNothing' /\ PaidIsSomewhere'
      BY <1>5 DEF OwedIsMarked, OneWait, WaitOwesNothing, WaitHasEntry, WaitIsUnheard,
                  ResolvingOwesNothing, PaidIsSomewhere
<1>8. /\ OpenedIsOpen' /\ KeyIsQueued' /\ EntryWasOpened'
      /\ LeftHasNoEntry' /\ OpenWasAnswered' /\ LeftWasPressed'
      BY <1>1, <1>2, <1>3, <1>4, <1>6
      DEF OpenedIsOpen, KeyIsQueued, EntryWasOpened, LeftHasNoEntry, OpenWasAnswered,
          LeftWasPressed
<1> QED BY <1>7, <1>8 DEF Ledger

\* The items are in no payment's way.
LEMMA LinesLedger ==
    ASSUME Typed, Inbox, Ledger,
           TimeOut(Lines) \/ \E what \in Answers : HearLines(what)
    PROVE  Ledger'
<1>1. UNCHANGED <<row, left>> /\ (UNCHANGED entry \/ appendOfflineLines)
      BY WriteFacts DEF TimeOut, HearLines
<1>2. /\ \A v \in Writes \ {Lines} : call'[v] = call[v]
      /\ heard' \in {heard, heard \cup {Lines}}
      BY DEF TimeOut, HearLines, Answered, Heard, Typed, OfflineTypeOK
<1>3. SameEntry
      BY <1>1 DEF SameEntry, appendOfflineLines, Typed, OfflineTypeOK
<1>4. SameCalls /\ SamePaid
      BY <1>1, <1>2, WriteFacts DEF SameCalls, SamePaid
<1>5. SameHeard  BY <1>2, WriteFacts DEF SameHeard
<1>6. Resolving' => Resolving  BY NotResolving DEF TimeOut, HearLines
<1> QED BY <1>1, <1>3, <1>4, <1>5, <1>6, QuietLedger

\* The reply to a call starts its wait, and nothing else.
LEMMA HearQueuedLedger ==
    ASSUME Typed, Inbox, Ledger, NEW w \in Writes, HearQueued(w)
    PROVE  Ledger'
<1>1. /\ Hears(w, "queued") /\ UNCHANGED <<row, entry, heard, left>>
      /\ \A v \in Writes \ {w} : call'[v] = call[v]
      /\ call'[w] = "waiting"
      BY DEF HearQueued, Typed, OfflineTypeOK
<1>2. call[w] = "asked"
      <2>1. 1 \in Msgs /\ inbox[1] = [w |-> w, what |-> "queued"]  BY <1>1, HearsShifts
      <2>2. inbox[1].w = w /\ inbox[1].what = "queued"  BY <2>1
      <2> QED BY <2>1, <2>2 DEF Inbox, ReplyIsAsked
<1>3. SameCalls /\ SamePaid  BY <1>1, <1>2, WriteFacts DEF SameCalls, SamePaid
<1>4. SameEntry /\ SameHeard  BY <1>1 DEF SameEntry, SameHeard
<1>5. Resolving' => Resolving  BY <1>1, NotResolving
<1> QED BY <1>1, <1>3, <1>4, <1>5, QuietLedger

\* The open's result: the entry goes with its ack, unless a payment is marked.
LEMMA HearOpenLedger ==
    ASSUME Typed, Inbox, Ledger, NEW what \in Answers, HearOpen(what)
    PROVE  Ledger'
<1>1. /\ Hears(Open, what) /\ Answered(Open) /\ Heard(Open) /\ UNCHANGED row
      /\ entry.kept => retireOpen(what)
      /\ ~entry.kept => UNCHANGED entry
      /\ left' = IF entry'.kept THEN left ELSE left \cup {p \in Pays : InWait(p)}
      BY DEF HearOpen
<1>2. /\ call[Open] \notin {"idle", "asked"}
      /\ what = "acked" => row[Open] = "acked"
      BY <1>1, AnswerHeard, WriteFacts
<1>3. /\ \A v \in Writes \ {Open} : call'[v] = call[v]
      /\ call[Open] # "waiting" => call'[Open] = call[Open]
      BY <1>1, WriteFacts DEF Answered, Typed, OfflineTypeOK
<1>4. SameCalls  BY <1>3, WriteFacts DEF SameCalls
<1>5. SamePaid  BY <1>1, <1>3, WriteFacts DEF SamePaid
<1>6. SameHeard  BY <1>1, WriteFacts DEF SameHeard, Heard
<1>7. Resolving' => Resolving  BY <1>1, NotResolving
<1>8. CASE entry'.kept
      <2>1. entry.kept
            BY <1>1, <1>8
      <2>2. ~removeOfflineTab
            BY <1>8 DEF removeOfflineTab, NoEntry
      <2>3. \/ markOfflineTabFailed("open", NoKey)
            \/ what = "acked" /\ entry' = [entry EXCEPT !.opened = TRUE]
            BY <1>1, <2>1, <2>2 DEF retireOpen, Answers
      <2>4. SameEntry
            BY <1>2, <2>3 DEF SameEntry, markOfflineTabFailed, Typed, OfflineTypeOK
      <2> QED BY <1>1, <1>4, <1>5, <1>6, <1>7, <1>8, <2>4, QuietLedger
<1>9. CASE ~entry'.kept
      <2>1. left' = left \cup {p \in Pays : InWait(p)}  BY <1>1, <1>9
      <2>2. \/ removeOfflineTab /\ ~(entry.settled /\ entry.key # NoKey)
            \/ ~entry.kept /\ UNCHANGED entry
            <3>1. CASE ~entry.kept  BY <1>1, <3>1
            <3>2. CASE entry.kept
                  <4>1. retireOpen(what)  BY <1>1, <3>2
                  <4>2. ~markOfflineTabFailed("open", NoKey)
                        BY <1>9, <3>2 DEF markOfflineTabFailed, Typed, OfflineTypeOK
                  <4>3. entry' # [entry EXCEPT !.opened = TRUE]
                        BY <1>9, <3>2 DEF Typed, OfflineTypeOK
                  <4> QED BY <4>1, <4>2, <4>3 DEF retireOpen, Answers
            <3> QED BY <3>1, <3>2
      <2>3. \A p \in Pays : ~Owed(p)
            BY <2>2, WriteFacts DEF Ledger, OwedIsMarked
      <2>4. left \subseteq left' /\ left' \subseteq Pays
            BY <2>1 DEF Typed, OfflineTypeOK
      <2>5. heard \subseteq heard'  BY <1>6 DEF SameHeard
      <2>6. \A p \in Pays : call'[p] = "queued" => p \in heard' \cup left'
            BY <1>3, <2>3, <2>4, <2>5, WriteFacts DEF Owed
      <2>7. \A p \in Pays : call'[p] \in {"asked", "waiting"} =>
                              p \in left' /\ (p \in heard' => p \in heard)
            BY <1>1, <1>3, <2>1, WriteFacts DEF InWait, Heard
      <2>8. \A p \in left' \ left : call[p] # "idle"  BY <2>1 DEF InWait
      <2> QED BY <1>1, <1>4, <1>7, <2>2, <2>4, <2>5, <2>6, <2>7, <2>8, RemoveLedger
<1> QED BY <1>8, <1>9

\* A payment's result, in its wait or after it.
LEMMA HearSettleLedger ==
    ASSUME Typed, Inbox, Ledger, NEW p \in Pays, NEW what \in Answers,
           HearSettle(p, what)
    PROVE  Ledger'
<1>1. /\ Hears(p, what) /\ Answered(p) /\ Heard(p) /\ UNCHANGED <<row, left>>
      /\ p \in Writes /\ p # Open
      BY WriteFacts DEF HearSettle
<1>2. /\ call[p] \notin {"idle", "asked"} /\ p \notin heard
      /\ what = "refused" => row[p] \notin {"pending", "acked"}
      BY <1>1, AnswerHeard
<1>3. /\ \A v \in Writes \ {p} : call'[v] = call[v]
      /\ call'[p] = IF call[p] = "waiting" THEN "answered" ELSE call[p]
      BY <1>1 DEF Answered, Typed, OfflineTypeOK
<1>4. SameCalls  BY <1>2, <1>3, WriteFacts DEF SameCalls
<1>5. heard' = heard \cup {p}  BY <1>1 DEF Heard
<1>6. Resolving' => Resolving  BY <1>1, NotResolving
<1>7. \A q \in Pays : call'[q] \in {"asked", "waiting"} => q # p /\ InWait(q)
      BY <1>2, <1>3, WriteFacts DEF InWait
<1>8. left \subseteq Pays  BY DEF Typed, OfflineTypeOK
<1>9. CASE call[p] = "waiting" /\ what = "acked"
      <2>1. removeOfflineTab  BY <1>9 DEF HearSettle
      <2>2. InWait(p)  BY <1>9 DEF InWait
      <2>3. \A q \in Pays : ~Owed(q) /\ (InWait(q) => q = p)
            BY <2>2 DEF Ledger, WaitOwesNothing, OneWait
      <2>4. \A q \in Pays : call'[q] = "queued" => q \in heard' \cup left'
            BY <1>1, <1>3, <1>5, <1>9, <2>3, WriteFacts DEF Owed
      <2>5. \A q \in Pays : ~(call'[q] \in {"asked", "waiting"})
            BY <1>7, <2>3
      <2> QED BY <1>1, <1>4, <1>5, <1>6, <1>8, <2>1, <2>4, <2>5, RemoveLedger
<1>10. CASE call[p] = "waiting" /\ what = "refused"
       <2>1. UNCHANGED entry  BY <1>10 DEF HearSettle
       <2>2. SameEntry  BY <2>1 DEF SameEntry
       <2>3. SamePaid
             BY <1>1, <1>2, <1>3, <1>10, WriteFacts DEF SamePaid
       <2>4. SameHeard  BY <1>1, <1>2, <1>5, <1>7, <1>10 DEF SameHeard
       <2> QED BY <1>1, <1>4, <1>6, <2>2, <2>3, <2>4, QuietLedger
<1>11. CASE call[p] # "waiting" /\ entry.key = p
       <2>1. retireSettle(p, what)  BY <1>11 DEF HearSettle
       <2>2. entry.kept /\ call[p] = "queued" /\ left = {}
             BY <1>11, WriteFacts DEF Ledger, KeyIsQueued, LeftHasNoEntry
       <2>3. Owed(p)  BY <1>2, <2>2 DEF Owed
       <2>4. \A q \in Pays : ~InWait(q) /\ (Owed(q) => q = p)
             BY <1>11, <2>3 DEF Ledger, WaitOwesNothing, OwedIsMarked
       <2>5. \A q \in Pays : ~(call'[q] \in {"asked", "waiting"})
             BY <1>7, <2>4
       <2>6. CASE what = "acked"
             <3>1. removeOfflineTab  BY <2>1, <2>6 DEF retireSettle
             <3>2. \A q \in Pays : call'[q] = "queued" => q \in heard' \cup left'
                   BY <1>1, <1>3, <1>5, <2>4, WriteFacts DEF Owed
             <3> QED BY <1>1, <1>4, <1>5, <1>6, <1>8, <2>5, <3>1, <3>2, RemoveLedger
       <2>7. CASE what = "refused"
             <3>1. markOfflineTabFailed("settle", p)
                   BY <2>1, <2>7 DEF retireSettle
             <3>2. \A q \in Pays : ~Owed(q)'
                   BY <1>1, <1>3, <1>5, <2>4, WriteFacts DEF Owed
             <3>3. SameEntry
                   BY <3>1, <3>2 DEF SameEntry, markOfflineTabFailed, Typed, OfflineTypeOK
             <3>4. SamePaid
                   BY <1>1, <1>2, <1>3, <1>11, <2>7, WriteFacts DEF SamePaid
             <3>5. SameHeard  BY <1>1, <1>2, <1>5, <2>5, <2>7 DEF SameHeard
             <3> QED BY <1>1, <1>4, <1>6, <3>3, <3>4, <3>5, QuietLedger
       <2> QED BY <2>6, <2>7 DEF Answers
<1>12. CASE call[p] # "waiting" /\ entry.key # p
       <2>1. UNCHANGED entry  BY <1>12 DEF HearSettle
       <2>2. SameEntry  BY <2>1 DEF SameEntry
       <2>3. SamePaid
             BY <1>1, <1>3, <1>12, WriteFacts DEF SamePaid
       <2>4. Paid(p) => ~entry.kept
             BY <1>2, <1>12 DEF Ledger, PaidIsSomewhere, OwedIsMarked, InWait
       <2>5. SameHeard \/ call[p] = "cut"
             BY <1>1, <1>3, <1>5, <1>7, <1>12, <2>4 DEF SameHeard, Paid
       <2>6. CASE SameHeard
             BY <1>1, <1>4, <1>6, <2>2, <2>3, <2>6, QuietLedger
       <2>7. CASE call[p] = "cut"
             <3>1. call' = call
                   BY <1>1, <1>3, <2>7 DEF Answered, Typed, OfflineTypeOK
             <3>2. \A q \in Pays : /\ Owed(q)' <=> Owed(q)
                                   /\ InWait(q)' <=> InWait(q)
                                   /\ Paid(q)' <=> Paid(q)
                   BY <1>1, <1>5, <2>7, <3>1 DEF Owed, InWait, Paid
             <3>3. \A q \in Pays : InWait(q) => (q \in heard' => q \in heard)
                   BY <1>5, <2>7 DEF InWait
             <3>4. /\ OwedIsMarked' /\ OneWait' /\ WaitOwesNothing' /\ WaitHasEntry'
                   /\ WaitIsUnheard' /\ ResolvingOwesNothing' /\ PaidIsSomewhere'
                   BY <1>1, <1>6, <2>1, <3>2, <3>3
                   DEF Ledger, OwedIsMarked, OneWait, WaitOwesNothing, WaitHasEntry,
                       WaitIsUnheard, ResolvingOwesNothing, PaidIsSomewhere
             <3>5. /\ OpenedIsOpen' /\ KeyIsQueued' /\ EntryWasOpened'
                   /\ LeftHasNoEntry' /\ OpenWasAnswered' /\ LeftWasPressed'
                   BY <1>1, <2>1, <3>1
                   DEF Ledger, OpenedIsOpen, KeyIsQueued, EntryWasOpened,
                       LeftHasNoEntry, OpenWasAnswered, LeftWasPressed
             <3> QED BY <3>4, <3>5 DEF Ledger
       <2> QED BY <2>5, <2>6, <2>7
<1> QED BY <1>9, <1>10, <1>11, <1>12 DEF Answers

\* Main's answer to a manager finds nothing in its wait and nothing owed.
LEMMA HearResolvedLedger ==
    ASSUME Typed, Inbox, Ledger, NEW p \in Pays, HearResolved(p)
    PROVE  Ledger'
<1>1. /\ Hears(p, "resolved") /\ removeOfflineTab
      /\ UNCHANGED <<row, call, heard, left>>
      BY DEF HearResolved
<1>2. Resolving
      <2>1. 1 \in Msgs /\ inbox[1] = [w |-> p, what |-> "resolved"]
            BY <1>1, HearsShifts
      <2>2. inbox[1].what = "resolved"  BY <2>1
      <2> QED BY <2>1, <2>2 DEF Resolving, Msgs
<1>3. \A q \in Pays : ~InWait(q) /\ ~Owed(q)
      BY <1>2 DEF Ledger, ResolvingOwesNothing
<1>4. SameCalls  BY <1>1 DEF SameCalls
<1>5. \A q \in Pays : /\ call'[q] = "queued" => q \in heard' \cup left'
                      /\ ~(call'[q] \in {"asked", "waiting"})
      BY <1>1, <1>3 DEF Owed, InWait
<1>6. left' \subseteq Pays  BY <1>1 DEF Typed, OfflineTypeOK
<1> QED BY <1>1, <1>2, <1>4, <1>5, <1>6, RemoveLedger

\* Each step leaves every payment somewhere.
LEMMA NextLedger ==
    ASSUME Typed, Inbox, Ledger, PaneOwesNothing, [OfflineNext]_vars
    PROVE  Ledger'
<1>1. CASE OpenTabOn   BY <1>1, OtherEnqueueLedger DEF OpenTabOn
<1>2. CASE SendBasket  BY <1>2, OtherEnqueueLedger DEF SendBasket
<1>3. ASSUME NEW p \in Pays, SettleOffline(p)  PROVE Ledger'
      BY <1>3, SettleLedger
<1>4. CASE Dismiss  BY <1>4, DismissLedger
<1>5. CASE ResolveRefusedRow \/ \E w \in Writes : DismissRow(w)
      BY <1>5, ResolvedLedger
<1>6. CASE Verdict \/ Crash \/ Reload  BY <1>6, StationLedger
<1>7. ASSUME NEW w \in Writes, TimeOut(w)  PROVE Ledger'
      <2>1. w = Open \/ w = Lines \/ w \in Pays
            BY TabsAssumption DEF Writes, Open, Lines, Pays
      <2> QED BY <1>7, <2>1, AddLedger, LinesLedger, MarkLedger
<1>8. ASSUME NEW w \in Writes, HearQueued(w)  PROVE Ledger'
      BY <1>8, HearQueuedLedger
<1>9. ASSUME NEW what \in Answers, HearOpen(what)  PROVE Ledger'
      BY <1>9, HearOpenLedger
<1>10. ASSUME NEW what \in Answers, HearLines(what)  PROVE Ledger'
       BY <1>10, LinesLedger
<1>11. ASSUME NEW p \in Pays, NEW what \in Answers, HearSettle(p, what)
       PROVE  Ledger'
       BY <1>11, HearSettleLedger
<1>12. ASSUME NEW p \in Pays, HearResolved(p)  PROVE Ledger'
       BY <1>12, HearResolvedLedger
<1>13. CASE UNCHANGED vars
       <2>1. UNCHANGED <<row, call, inbox, entry, heard, left>>  BY <1>13 DEF vars
       <2>2. SameEntry /\ SameCalls /\ SamePaid /\ SameHeard
             BY <2>1 DEF SameEntry, SameCalls, SamePaid, SameHeard
       <2> QED BY <2>1, <2>2, NotResolving, QuietLedger
<1>14. CASE StartPay \/ CancelPay
       <2>1. UNCHANGED <<row, call, inbox, entry, heard, left>>
             BY <1>14 DEF StartPay, CancelPay
       <2>2. SameEntry /\ SameCalls /\ SamePaid /\ SameHeard
             BY <2>1 DEF SameEntry, SameCalls, SamePaid, SameHeard
       <2> QED BY <2>1, <2>2, NotResolving, QuietLedger
<1> QED BY <1>1, <1>2, <1>3, <1>4, <1>5, <1>6, <1>7, <1>8, <1>9, <1>10, <1>11,
           <1>12, <1>13, <1>14 DEF OfflineNext, Cashier, Hear

-----------------------------------------------------------------------------
(* The payment pane. *)

\* While the pane is open its entry stays, and what is owed does not grow.
LEMMA PaneStays ==
    ASSUME Typed, PaneOwesNothing, pane' => pane,
           pane' => (entry.kept => entry'.kept),
           pane' => \A p \in Pays : call'[p] = "queued" => call[p] = "queued",
           heard \subseteq heard', pane' => left \subseteq left'
    PROVE  PaneOwesNothing'
BY DEF PaneOwesNothing, Owed

\* No step leaves a pane open over a payment that is owed.
LEMMA NextPane ==
    ASSUME Typed, Inbox, Ledger, PaneOwesNothing, [OfflineNext]_vars
    PROVE  PaneOwesNothing'
<1>1. ASSUME NEW w \in Writes, enqueue(w)  PROVE PaneOwesNothing'
      <2>1. \A p \in Pays : call'[p] = "queued" => call[p] = "queued"
            BY <1>1, WriteFacts DEF enqueue, Typed, OfflineTypeOK
      <2> QED BY <1>1, <2>1, PaneStays DEF enqueue
<1>2. CASE OpenTabOn \/ SendBasket \/ \E p \in Pays : SettleOffline(p)
      BY <1>1, <1>2, WriteFacts DEF OpenTabOn, SendBasket, SettleOffline
<1>3. CASE StartPay
      <2>1. /\ entry.kept /\ UNCHANGED <<call, entry, heard, left>>
            /\ ~entry.settled \/ entry.failure = "settle"
            BY <1>3 DEF StartPay, isOnPlan, Payable, Retryable
      <2>2. \A p \in Pays : ~Owed(p)  BY <2>1 DEF Ledger, OwedIsMarked
      <2> QED BY <2>1, <2>2 DEF PaneOwesNothing, Owed
<1>4. CASE CancelPay \/ Crash \/ Dismiss
      BY <1>4 DEF CancelPay, Crash, Dismiss, PaneOwesNothing
<1>5. CASE \/ ResolveRefusedRow \/ Verdict \/ Reload \/ UNCHANGED vars
           \/ \E w \in Writes : DismissRow(w)
      <2>1. UNCHANGED <<call, entry, pane, heard, left>>
            BY <1>5 DEF ResolveRefusedRow, Verdict, Judge, Reload, vars, DismissRow
      <2> QED BY <2>1, PaneStays
<1>6. ASSUME NEW w \in Writes, HearQueued(w)  PROVE PaneOwesNothing'
      <2>1. \A p \in Pays : call'[p] = "queued" => call[p] = "queued"
            BY <1>6, WriteFacts DEF HearQueued, Typed, OfflineTypeOK
      <2> QED BY <1>6, <2>1, PaneStays DEF HearQueued
<1>7. ASSUME NEW w \in Writes, TimeOut(w)  PROVE PaneOwesNothing'
      <2>1. CASE w \in Pays
            BY <1>7, <2>1 DEF TimeOut, PaneOwesNothing
      <2>2. CASE w \notin Pays
            <3>1. w = Open \/ w = Lines
                  BY <2>2, TabsAssumption DEF Writes, Open, Lines, Pays
            <3>2. addOfflineTab \/ appendOfflineLines
                  BY <1>7, <3>1, WriteFacts DEF TimeOut
            <3>3. entry.kept => entry'.kept
                  BY <3>2 DEF addOfflineTab, appendOfflineLines, NoEntry, Typed, OfflineTypeOK
            <3>4. \A p \in Pays : call'[p] = "queued" => call[p] = "queued"
                  BY <1>7, <2>2, WriteFacts DEF TimeOut, Typed, OfflineTypeOK
            <3> QED BY <1>7, <3>3, <3>4, PaneStays DEF TimeOut
      <2> QED BY <2>1, <2>2
<1>8. ASSUME NEW w \in Writes, Answered(w), Heard(w),
             pane' => pane /\ (entry.kept => entry'.kept),
             pane' => left \subseteq left'
      PROVE  PaneOwesNothing'
      <2>1. \A p \in Pays : call'[p] = "queued" => call[p] = "queued"
            BY <1>8, WriteFacts DEF Answered, Typed, OfflineTypeOK
      <2> QED BY <1>8, <2>1, PaneStays DEF Heard
<1>9. ASSUME NEW what \in Answers, HearOpen(what)  PROVE PaneOwesNothing'
      BY <1>8, <1>9, WriteFacts DEF HearOpen
<1>10. ASSUME NEW what \in Answers, HearLines(what)  PROVE PaneOwesNothing'
       <2>1. entry.kept => entry'.kept
             BY <1>10 DEF HearLines, appendOfflineLines, Typed, OfflineTypeOK
       <2> QED BY <1>8, <1>10, <2>1, WriteFacts DEF HearLines
<1>11. ASSUME NEW p \in Pays, NEW what \in Answers, HearSettle(p, what)
       PROVE  PaneOwesNothing'
       BY <1>8, <1>11, WriteFacts DEF HearSettle
<1>12. ASSUME NEW p \in Pays, HearResolved(p)  PROVE PaneOwesNothing'
       BY <1>12 DEF HearResolved, PaneOwesNothing
<1> QED BY <1>2, <1>3, <1>4, <1>5, <1>6, <1>7, <1>9, <1>10, <1>11, <1>12
        DEF OfflineNext, Cashier, Hear

-----------------------------------------------------------------------------
(* The theorems. *)

\* Nothing was pressed, sent or kept.
LEMMA InitInv == OfflineInit => OfflineInv
<1> SUFFICES ASSUME OfflineInit PROVE OfflineInv
    OBVIOUS
<1>1. NoEntry \in Entries /\ NoEntry.failure = "none" /\ ~NoEntry.kept
      /\ ~NoEntry.opened /\ NoEntry.key = NoKey
      BY DEF NoEntry, Entries
<1>2. Typed
      <2>1. entry \in Entries /\ RefusalHasKey
            BY <1>1 DEF OfflineInit, RefusalHasKey
      <2>2. inbox \in Seq(Messages)  BY DEF OfflineInit
      <2>3. crashes \in 0..MaxCrashes  BY TabsAssumption DEF OfflineInit
      <2>4. pane \in BOOLEAN /\ loaded \in BOOLEAN  BY DEF OfflineInit
      <2>5. /\ row \in [Writes -> {"absent", "pending", "resolved"} \cup Answers]
            /\ call \in [Writes -> {"idle", "asked", "waiting", "queued", "answered", "cut"}]
            /\ heard \subseteq Writes /\ left \subseteq Pays
            BY DEF OfflineInit
      <2> QED BY <2>1, <2>2, <2>3, <2>4, <2>5 DEF Typed, OfflineTypeOK, Entries
<1>3. Len(inbox) = 0 /\ Msgs = {}  BY DEF OfflineInit, Msgs
<1>4. Inbox
      BY <1>3 DEF Inbox, OneReply, OneAnswer, ReplyFirst, ReplyIsAsked, AnswerIsRow,
                  AnswerIsNew, AskedHasReply, RowOfCall, HeardIsJudged, OfflineInit
<1>5. ~Resolving  BY <1>3 DEF Resolving
<1>6. \A p \in Pays : ~InWait(p) /\ ~Owed(p) /\ ~Paid(p)
      BY WriteFacts DEF OfflineInit, InWait, Owed, Paid
<1>7. Ledger
      BY <1>1, <1>5, <1>6, WriteFacts
      DEF Ledger, OwedIsMarked, OpenedIsOpen, OneWait, WaitOwesNothing, WaitHasEntry,
          WaitIsUnheard, KeyIsQueued, EntryWasOpened, LeftHasNoEntry, OpenWasAnswered,
          LeftWasPressed, ResolvingOwesNothing, PaidIsSomewhere, OfflineInit
<1>8. PaneOwesNothing  BY DEF OfflineInit, PaneOwesNothing
<1> QED BY <1>2, <1>4, <1>7, <1>8 DEF OfflineInv

\* The whole invariant is inductive.
LEMMA NextInv == OfflineInv /\ [OfflineNext]_vars => OfflineInv'
BY NextTyped, NextInbox, NextLedger, NextPane DEF OfflineInv

\* It holds in every state.
LEMMA Invariant == OfflineSpec => []OfflineInv
BY InitInv, NextInv, PTL DEF OfflineSpec

\* The entry, the calls, the rows and the messages keep their types.
THEOREM OfflineTyped == OfflineSpec => []OfflineTypeOK
<1>1. OfflineInv => OfflineTypeOK  BY DEF OfflineInv, Typed
<1> QED BY <1>1, Invariant, PTL

\* A payment the cashier was told is queued is on the plan until its answer.
THEOREM PaymentsAreKept == OfflineSpec => []PaymentIsKept
<1>1. OfflineInv => PaymentIsKept
      <2> SUFFICES ASSUME OfflineInv, NEW p \in Pays, Owed(p)
                   PROVE  /\ entry.kept /\ entry.key = p
                          /\ isOnPlan(entry) \/ row[Open] = "acked"
          BY DEF PaymentIsKept, Owed
      <2>1. entry.kept /\ entry.key = p  BY DEF OfflineInv, Ledger, OwedIsMarked
      <2>2. CASE entry.opened  BY <2>1, <2>2 DEF OfflineInv, Ledger, OpenedIsOpen
      <2>3. CASE ~entry.opened  BY <2>1, <2>3, WriteFacts DEF isOnPlan
      <2> QED BY <2>1, <2>2, <2>3
<1> QED BY <1>1, Invariant, PTL

\* Only a call of a payment makes one, and no step mends a refused or a cut one.
LEMMA NoNewPayment ==
    ASSUME Typed, Inbox, [OfflineNext]_vars, ~ \E p \in Pays : SettleOffline(p)
    PROVE  \A p \in Pays : Paid(p)' => Paid(p)
<1>1. ASSUME NEW w \in {Open, Lines}, enqueue(w)
      PROVE  \A p \in Pays : Paid(p)' => Paid(p)
      BY <1>1, WriteFacts DEF enqueue, Paid, Typed, OfflineTypeOK
<1>2. CASE OpenTabOn \/ SendBasket
      BY <1>1, <1>2 DEF OpenTabOn, SendBasket
<1>3. CASE ResolveRefusedRow \/ \E w \in Writes : DismissRow(w)
      BY <1>3, WriteFacts DEF ResolveRefusedRow, DismissRow, Paid, Typed, OfflineTypeOK
<1>4. CASE Verdict
      BY <1>4, WriteFacts DEF Verdict, Judge, Paid, Typed, OfflineTypeOK, Answers
<1>5. CASE Crash
      BY <1>5, WriteFacts DEF Crash, Paid
<1>6. ASSUME NEW w \in Writes, TimeOut(w) \/ HearQueued(w)
      PROVE  \A p \in Pays : Paid(p)' => Paid(p)
      <2>1. call[w] # "cut"
            <3>1. CASE TimeOut(w)  BY <3>1 DEF TimeOut
            <3>2. CASE HearQueued(w)
                  <4>1. 1 \in Msgs /\ inbox[1] = [w |-> w, what |-> "queued"]
                        BY <3>2, HearsShifts DEF HearQueued
                  <4>2. inbox[1].what = "queued" /\ inbox[1].w = w  BY <4>1
                  <4> QED BY <4>1, <4>2 DEF Inbox, ReplyIsAsked
            <3> QED BY <1>6, <3>1, <3>2
      <2> QED BY <1>6, <2>1, WriteFacts
              DEF TimeOut, HearQueued, Paid, Typed, OfflineTypeOK
<1>7. ASSUME NEW w \in Writes, Answered(w), UNCHANGED row
      PROVE  \A p \in Pays : Paid(p)' => Paid(p)
      BY <1>7, WriteFacts DEF Answered, Paid, Typed, OfflineTypeOK
<1>8. ASSUME NEW what \in Answers,
             \/ HearOpen(what) \/ HearLines(what)
             \/ \E p \in Pays : HearSettle(p, what)
      PROVE  \A p \in Pays : Paid(p)' => Paid(p)
      BY <1>7, <1>8, WriteFacts DEF HearOpen, HearLines, HearSettle
<1>9. CASE UNCHANGED <<row, call>>  BY <1>9 DEF Paid
<1>10. CASE \/ StartPay \/ CancelPay \/ Dismiss \/ Reload \/ UNCHANGED vars
            \/ \E p \in Pays : HearResolved(p)
       BY <1>9, <1>10 DEF StartPay, CancelPay, Dismiss, Reload, vars, HearResolved
<1> QED BY <1>2, <1>3, <1>4, <1>5, <1>6, <1>8, <1>10
        DEF OfflineNext, Cashier, Hear

\* What is paid after a payment is pressed is that payment.
LEMMA OnlyPayment ==
    ASSUME Typed, Inbox, Ledger, PaneOwesNothing, NEW p \in Pays, SettleOffline(p)
    PROVE  \A q \in Pays : Paid(q)' => q = p
<1>1. entry.kept /\ ~Busy /\ enqueue(p) /\ \A q \in Pays : ~Owed(q)
      BY DEF SettleOffline, PaneOwesNothing
<1>2. \A q \in Pays : ~InWait(q) /\ ~Owed(q)  BY <1>1 DEF Busy
<1>3. \A q \in Pays : ~Paid(q)
      BY <1>1, <1>2 DEF Ledger, PaidIsSomewhere
<1> QED BY <1>1, <1>3, WriteFacts DEF enqueue, Paid, Typed, OfflineTypeOK

\* A result of a payment is heard by HearSettle alone.
LEMMA HeardBySettle ==
    ASSUME [OfflineNext]_vars, NEW p \in Pays, p \notin heard, p \in heard'
    PROVE  \E what \in Answers : HearSettle(p, what)
<1>1. heard' # heard  OBVIOUS
<1>2. \E what \in Answers :
          HearOpen(what) \/ HearLines(what) \/ \E q \in Pays : HearSettle(q, what)
      BY <1>1 DEF OfflineNext, Cashier, OpenTabOn, SendBasket, SettleOffline, enqueue,
                  StartPay, CancelPay, Dismiss, ResolveRefusedRow, DismissRow, Verdict, Judge, Hear,
                  HearQueued, HearResolved, Crash, Reload, TimeOut, vars
<1> QED BY <1>2, WriteFacts DEF HearOpen, HearLines, HearSettle, Heard

\* Of the payments no crash cut off, the guest makes one.
THEOREM GuestsPayOnce == OfflineSpec => []GuestPaysOnce
<1>1. GuestPaysOnce <=> \A p, q \in Pays : Paid(p) /\ Paid(q) => p = q
      BY DEF GuestPaysOnce, Paid
<1>2. OfflineInit => GuestPaysOnce
      BY WriteFacts DEF OfflineInit, GuestPaysOnce
<1>3. OfflineInv /\ GuestPaysOnce /\ [OfflineNext]_vars => GuestPaysOnce'
      <2> SUFFICES ASSUME OfflineInv, GuestPaysOnce, [OfflineNext]_vars
                   PROVE  \A p, q \in Pays : Paid(p)' /\ Paid(q)' => p = q
          BY DEF GuestPaysOnce, Paid
      <2>1. ASSUME NEW p \in Pays, SettleOffline(p)
            PROVE  \A q \in Pays : Paid(q)' => q = p
            BY <2>1, OnlyPayment DEF OfflineInv
      <2>2. CASE ~ \E p \in Pays : SettleOffline(p)
            BY <1>1, <2>2, NoNewPayment DEF OfflineInv
      <2> QED BY <2>1, <2>2
<1> QED BY <1>2, <1>3, Invariant, PTL DEF OfflineSpec

\* A payment the server refuses comes back on the plan under its own key.
THEOREM RefusedPaymentsReturn == OfflineSpec => RefusedPaymentReturns
<1>1. OfflineInv /\ [OfflineNext]_vars =>
      \A p \in Pays :
          /\ call[p] = "queued" /\ p \notin heard \cup left
          /\ p \in heard' /\ row[p] # "acked"
          => /\ isOnPlan(entry') /\ entry'.failure = "settle"
             /\ entry'.refused = p
      <2> SUFFICES ASSUME OfflineInv, [OfflineNext]_vars, NEW p \in Pays,
                          Owed(p), p \in heard', row[p] # "acked"
                   PROVE  /\ isOnPlan(entry') /\ entry'.failure = "settle"
                          /\ entry'.refused = p
          BY DEF Owed
      <2>1. PICK what \in Answers : HearSettle(p, what)
            BY HeardBySettle DEF Owed
      <2>2. call[p] = "queued" /\ entry.key = p /\ entry.kept
            BY DEF Owed, OfflineInv, Ledger, OwedIsMarked
      <2>3. retireSettle(p, what)  BY <2>1, <2>2 DEF HearSettle
      <2>4. what # "acked"
            <3>1. 1 \in Msgs /\ inbox[1] = [w |-> p, what |-> what]
                  BY <2>1, HearsShifts DEF HearSettle, OfflineInv
            <3>2. inbox[1].w = p /\ inbox[1].what = what  BY <3>1
            <3> QED BY <3>1, <3>2 DEF OfflineInv, Inbox, AnswerIsRow
      <2>5. entry' = [entry EXCEPT !.failure = "settle", !.refused = p]
            BY <2>3, <2>4 DEF retireSettle, markOfflineTabFailed
      <2> QED BY <2>2, <2>5 DEF isOnPlan, OfflineInv, Typed, OfflineTypeOK
<1>2. OfflineInv /\ [OfflineNext]_vars =>
      [\A p \in Pays :
          /\ call[p] = "queued" /\ p \notin heard \cup left
          /\ p \in heard' /\ row[p] # "acked"
          => /\ isOnPlan(entry') /\ entry'.failure = "settle"
             /\ entry'.refused = p]_vars
      BY <1>1
<1> QED BY <1>2, Invariant, PTL DEF OfflineSpec, RefusedPaymentReturns

=============================================================================
