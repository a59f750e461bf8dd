---------------------------- MODULE ReplayServer ----------------------------
(***************************************************************************)
(* The replay edge function (supabase/functions/replay/index.ts) and the   *)
(* idempotency of the app.* RPCs it dispatches to.                         *)
(*                                                                         *)
(* Each request runs in a handler of its own, and handlers interleave at   *)
(* every await: a handler is a program counter over the function's reads   *)
(* and writes.  One RPC is one database transaction, hence one step, save  *)
(* where its key is read before the lock it then waits for.  What the RPC  *)
(* decides from the rest of the database (a closed tab, a taken slot, a    *)
(* wrong PIN, a deadlock) is a free choice.                                *)
(***************************************************************************)
EXTENDS WriteIds

CONSTANTS Handlers,     \* bound: requests the server works on at once
          NoHandler,
          Nobody,
          Kind,         \* how the RPC of a write recognises a repeat
          Author,       \* the staff_id a write was queued by
          PinGated,     \* writes whose RPC takes a manager PIN
          Parent,       \* the tab.open or order a write names by key, or 0
          Faults        \* the failures this instance allows

(***************************************************************************)
(*  claimed     app.claim_replay, or a unique key the INSERT collides      *)
(*              with, settles it in the transaction of the write (refund,  *)
(*              apply_discount, till_add_items, queued_rpc, ...)           *)
(*  checked     the key is read before the row lock; after the lock the    *)
(*              state the first attempt left refuses (settle_tab,          *)
(*              staff_create_reservation, open_tab with a reservation)     *)
(*  stated      no key; the target already being there answers duplicate,  *)
(*              and nobody takes it back (set_ticket_status to preparing   *)
(*              or ready, waiter calls, void_after_send)                   *)
(*  recallable  the same, but the kitchen may take it back: a ticket set   *)
(*              to completed, which app.recall_ticket sets to ready again  *)
(*  guarded     no key; a second attempt is refused (cancel_reservation,   *)
(*              mark_reservation)                                          *)
(*  absolute    no key, no guard on the target: it is written again        *)
(*              (move_reservation, extend_reservation)                     *)
(***************************************************************************)
Kinds == {"claimed", "checked", "stated", "recallable", "guarded", "absolute"}

AllFaults == {"expire",            \* an access token runs out
              "auth_unreachable",  \* auth.getUser fails: null, as for a bad token
              "staff_inactive",    \* the caller or the author was deactivated
              "station_retired",
              "record_fails",      \* the sync_replays INSERT fails, only logged
              "die"}               \* the isolate is killed, or loses the RPC's
                                   \* answer: the till hears a 5xx

ASSUME ServerAssumption ==
    /\ NoHandler \notin Handlers
    /\ Nobody \notin Staff
    /\ Kind \in [Seqs -> Kinds]
    /\ Author \in [Seqs -> Staff]
    /\ PinGated \subseteq Seqs
    /\ Parent \in [Seqs -> Seqs \cup {0}]
    /\ \A k \in Seqs : Parent[k] < k
    /\ Faults \subseteq AllFaults

VARIABLES pc, key, token,  \* the handler: where it is, and its request
          out,             \* its verdict, then its answer
          replays,         \* sync_replays.result by key
          holder,          \* whose session the RPC's own key belongs to
          effects,         \* times the write took effect; 2 stands for more
          after,           \* history: the writes in effect before this one
          expired,         \* tokens the auth server no longer accepts
          recalled         \* tickets the kitchen has brought back

handlerVars == <<pc, key, token, out>>
storeVars   == <<replays, holder, effects, after>>
outsideVars == <<expired, recalled>>
serverVars  == <<handlerVars, storeVars, outsideVars>>

Done == {"applied", "duplicate"}           \* verdicts of an RPC that returned
Denied == {"clash", "denied"}              \* SLOT_TAKEN; any other refusal
Verdicts == Done \cup Denied
Answers == {"ok", "prior_conflict",        \* 200
            "clash", "denied", "orphan",   \* 409; other 4xx; 400
            "retry", "unauthorized"}       \* 429 or >= 500; 401
Steps == {"free", "sent", "known", "new", "cleared", "missed", "recording",
          "answered"}
NoOut == "none"

ServerTypeOK ==
    /\ pc \in [Handlers -> Steps]
    /\ key \in [Handlers -> Seqs]
    /\ token \in [Handlers -> Tokens \cup {NoToken}]
    /\ out \in [Handlers -> {NoOut} \cup Verdicts \cup Answers]
    /\ replays \in [Seqs -> {"none", "conflict"} \cup Done]
    /\ holder \in [Seqs -> Staff \cup {Nobody}]
    /\ effects \in [Seqs -> 0..2]
    /\ after \in [Seqs -> SUBSET Seqs]
    /\ expired \subseteq Tokens
    /\ recalled \subseteq Seqs

ServerInit == /\ pc = [h \in Handlers |-> "free"]
              /\ key = [h \in Handlers |-> 1]
              /\ token = [h \in Handlers |-> NoToken]
              /\ out = [h \in Handlers |-> NoOut]
              /\ replays = [k \in Seqs |-> "none"]
              /\ holder = [k \in Seqs |-> Nobody]
              /\ effects = [k \in Seqs |-> 0]
              /\ after = [k \in Seqs |-> {}]
              /\ expired = {} /\ recalled = {}

-----------------------------------------------------------------------------
(* Helpers *)

InEffect(k) == effects[k] > 0

Move(h, step, result) == /\ pc' = [pc EXCEPT ![h] = step]
                         /\ out' = [out EXCEPT ![h] = result]
                         /\ UNCHANGED <<key, token>>

Goto(h, step)    == Move(h, step, NoOut)
Answer(h, a)     == Move(h, "answered", a)
Conclude(h, v)   == Move(h, "recording", v)

Free(h) == /\ pc' = [pc EXCEPT ![h] = "free"]
           /\ key' = [key EXCEPT ![h] = 1]
           /\ token' = [token EXCEPT ![h] = NoToken]
           /\ out' = [out EXCEPT ![h] = NoOut]

\* Mutant: a refusal is answered with the name it is stored under.
AnswersFor_stored(v) == IF v \in Done THEN {"ok"} ELSE {"conflict"}

\* mapPgError: a refusal is a 4xx, for some codes a 409; one with a
\* deterministic SQLSTATE is recorded and yet answered 500, which the till
\* retries.
AnswersFor(v) == CASE v \in Done    -> {"ok"}
                   [] v = "clash"   -> {"clash"}
                   [] v = "denied"  -> {"denied", "clash", "retry"}

\* Mutant: every duplicate is answered as applied.
StoredAnswer_alwaysOk(k) == "ok"

\* What a stored result answers: HTTP 200 either way, but the till reads a
\* prior 'conflict' as a conflict.
StoredAnswer(k) == IF replays[k] = "conflict" THEN "prior_conflict" ELSE "ok"

\* The write commits, its key held by the caller's session.
TakeEffect(k, staff) ==
    /\ effects' = [effects EXCEPT ![k] = IF @ < 2 THEN @ + 1 ELSE 2]
    /\ holder' = [holder EXCEPT ![k] = staff]
    /\ after' = IF InEffect(k) THEN after
                ELSE [after EXCEPT ![k] = {j \in Seqs : InEffect(j)}]
    /\ UNCHANGED replays

-----------------------------------------------------------------------------
(* The request on its way in *)

Receive(h, k, t) == /\ pc[h] = "free"
                    /\ pc' = [pc EXCEPT ![h] = "sent"]
                    /\ key' = [key EXCEPT ![h] = k]
                    /\ token' = [token EXCEPT ![h] = t]
                    /\ out' = [out EXCEPT ![h] = NoOut]
                    /\ UNCHANGED <<storeVars, outsideVars>>

\* getCallerUserId answers null for every auth error, expiry or not; then the
\* staff read.
CheckCaller(h) ==
    /\ pc[h] = "sent"
    /\ \/ /\ token[h] \in expired \/ "auth_unreachable" \in Faults
          /\ Answer(h, "unauthorized")
       \/ /\ token[h] \notin expired
          /\ \/ Goto(h, "known")
             \/ "staff_inactive" \in Faults /\ Answer(h, "denied")
    /\ UNCHANGED <<storeVars, outsideVars>>

\* sync_replays by key, then the tab a tabIdemKey names, or the order a
\* ticketIdemKey names.
LookUp(h) ==
    /\ pc[h] = "known"
    /\ LET k == key[h] IN
         IF replays[k] # "none" THEN Answer(h, StoredAnswer(k))
         ELSE IF Parent[k] # 0 /\ ~InEffect(Parent[k]) THEN Answer(h, "orphan")
         ELSE Goto(h, "new")
    /\ UNCHANGED <<storeVars, outsideVars>>

\* The station, then verify_manager_pin for a gated write: both come before
\* the RPC has looked at the key.
Clear(h) ==
    /\ pc[h] = "new"
    /\ \/ Goto(h, "cleared")
       \/ /\ "station_retired" \in Faults \/ key[h] \in PinGated
          /\ Conclude(h, "denied")
    /\ UNCHANGED <<storeVars, outsideVars>>

-----------------------------------------------------------------------------
(* The RPC, as the caller's session *)

\* It commits, or some guard of it refuses.
ApplyOrDeny(h) ==
    \/ /\ TakeEffect(key[h], Owner[token[h]])
       /\ Conclude(h, "applied")
    \/ /\ \E v \in Denied : Conclude(h, v)
       /\ UNCHANGED storeVars

\* The key is found: the answer of the first attempt, to the session that
\* made it only (IDEMPOTENCY_CONFLICT to any other).
Recognise(h) ==
    /\ Conclude(h, IF holder[key[h]] = Owner[token[h]] THEN "duplicate"
                                                       ELSE "denied")
    /\ UNCHANGED storeVars

\* Mutant: the RPC before it claimed its key.
RunClaimed_unkeyed(h) == Kind[key[h]] = "claimed" /\ ApplyOrDeny(h)

RunClaimed(h) == /\ Kind[key[h]] = "claimed"
                 /\ IF InEffect(key[h]) THEN Recognise(h) ELSE ApplyOrDeny(h)

ReadKey(h) == /\ Kind[key[h]] = "checked"
              /\ IF InEffect(key[h])
                   THEN Recognise(h)
                   ELSE Goto(h, "missed") /\ UNCHANGED storeVars

\* ticket_transition judges by the status the row has now.  What is in effect
\* is a duplicate, or refused when a later status is reached since; what
\* somebody else did first is a duplicate, too; what was taken back is done
\* again.
RunStated(h) ==
    /\ Kind[key[h]] \in {"stated", "recallable"}
    /\ \/ /\ InEffect(key[h])
          /\ \E v \in {"duplicate", "denied"} : Conclude(h, v)
          /\ UNCHANGED storeVars
       \/ /\ ~InEffect(key[h])
          /\ TakeEffect(key[h], Owner[token[h]])
          /\ Conclude(h, "duplicate")
       \/ /\ ~InEffect(key[h]) \/ key[h] \in recalled
          /\ ApplyOrDeny(h)

RunGuarded(h) == /\ Kind[key[h]] = "guarded"
                 /\ IF InEffect(key[h])
                      THEN Conclude(h, "denied") /\ UNCHANGED storeVars
                      ELSE ApplyOrDeny(h)

RunAbsolute(h) == /\ Kind[key[h]] = "absolute"
                  /\ ApplyOrDeny(h)

Dispatch(h) == /\ pc[h] = "cleared"
               /\ \/ RunClaimed(h) \/ ReadKey(h) \/ RunStated(h)
                  \/ RunGuarded(h) \/ RunAbsolute(h)
               /\ UNCHANGED outsideVars

\* Mutant: the guards are read before the lock, with the key.
RunLocked_unguarded(h) == /\ pc[h] = "missed"
                          /\ ApplyOrDeny(h)
                          /\ UNCHANGED outsideVars

\* The lock is held.  A first attempt that committed meanwhile left the tab
\* settled (TAB_NOT_OPEN), the booking's tab open (BOOKING_TAB_OPEN) or the
\* slot taken (SLOT_TAKEN); or it left a tab part paid: then the amount may be
\* too much (INVALID_AMOUNT), or the INSERT collides and finds the key.
RunLocked(h) == /\ pc[h] = "missed"
                /\ IF InEffect(key[h])
                     THEN \/ /\ \E v \in Denied : Conclude(h, v)
                             /\ UNCHANGED storeVars
                          \/ Recognise(h)
                     ELSE ApplyOrDeny(h)
                /\ UNCHANGED outsideVars

\* A read fails (500), or the RPC was not judged (deadlock, timeout, pool,
\* DEGRADED_LOCKOUT, not deployed): an answer >= 500 and no record.
NotJudged(h) == /\ pc[h] \in {"sent", "known", "new", "cleared", "missed"}
                /\ Answer(h, "retry")
                /\ UNCHANGED <<storeVars, outsideVars>>

-----------------------------------------------------------------------------
(* The record and the answer *)

\* Mutant: 23505 is swallowed, and the loser answers its own verdict.
Record_ignoresPrior(h) ==
    /\ pc[h] = "recording"
    /\ LET k == key[h]
           v == out[h]
       IN /\ replays' = IF replays[k] = "none"
                         THEN [replays EXCEPT ![k] = IF v \in Done THEN v
                                                     ELSE "conflict"]
                         ELSE replays
          /\ \E a \in AnswersFor(v) : Answer(h, a)
    /\ UNCHANGED <<holder, effects, after, outsideVars>>

\* Mutant: only refusals are recorded.
Record_onlyRefusals(h) ==
    /\ pc[h] = "recording"
    /\ replays' = IF out[h] \in Denied /\ replays[key[h]] = "none"
                  THEN [replays EXCEPT ![key[h]] = "conflict"] ELSE replays
    /\ \E a \in AnswersFor(out[h]) : Answer(h, a)
    /\ UNCHANGED <<holder, effects, after, outsideVars>>

\* INSERT into sync_replays; on 23505 the stored result is the answer.
Record(h) ==
    /\ pc[h] = "recording"
    /\ LET k == key[h]
           v == out[h]
       IN \/ /\ replays[k] = "none"
             /\ replays' = [replays EXCEPT ![k] = IF v \in Done THEN v
                                                  ELSE "conflict"]
             /\ \E a \in AnswersFor(v) : Answer(h, a)
          \/ /\ replays[k] # "none"
             /\ Answer(h, StoredAnswer(k))
             /\ UNCHANGED replays
          \/ /\ "record_fails" \in Faults
             /\ \E a \in AnswersFor(v) : Answer(h, a)
             /\ UNCHANGED replays
    /\ UNCHANGED <<holder, effects, after, outsideVars>>

Die(h) == /\ "die" \in Faults
          /\ pc[h] \notin {"free", "answered"}
          /\ Answer(h, "retry")
          /\ UNCHANGED <<storeVars, outsideVars>>

\* The request never arrives.
LoseRequest(h) == /\ pc[h] = "sent"
                  /\ Free(h)
                  /\ UNCHANGED <<storeVars, outsideVars>>

\* The answer goes out; who still waits for it is the till's business.
Respond(h) == /\ pc[h] = "answered"
              /\ Free(h)
              /\ UNCHANGED <<storeVars, outsideVars>>

\* A token expires.  One always stays good: the finite set stands for the
\* unbounded supply of refreshed ones.
Expire(t) == /\ "expire" \in Faults
             /\ \E live \in Tokens \ (expired \cup {t}) : TRUE
             /\ expired' = expired \cup {t}
             /\ UNCHANGED <<handlerVars, storeVars, recalled>>

\* A cook brings a completed ticket back, at the kitchen's board: it is ready
\* again.
Recall(k) == /\ Kind[k] = "recallable" /\ InEffect(k)
             /\ k \notin recalled
             /\ recalled' = recalled \cup {k}
             /\ UNCHANGED <<handlerVars, storeVars, expired>>

Serve(h) == \/ CheckCaller(h) \/ LookUp(h) \/ Clear(h) \/ Dispatch(h)
            \/ RunLocked(h) \/ NotJudged(h) \/ Record(h) \/ Die(h)

=============================================================================
