-------------------------- MODULE WritePathProofs --------------------------
(***************************************************************************)
(* Proofs about the whole write path, for any number of writes, handlers,  *)
(* tokens and staff, and for every fault.  The till's steps are steps of   *)
(* the worker, so WorkerInv carries over; what is added is what the        *)
(* handlers know of the write they carry, and what the order of the till   *)
(* means to the database.                                                  *)
(***************************************************************************)
EXTENDS WritePath, SyncWorkerProofs

\* A handler at work has a token; one that is recording has a verdict, one
\* that has answered an answer.
VerdictOK == \A h \in Handlers :
                /\ pc[h] # "free" => token[h] \in Tokens
                /\ pc[h] = "recording" => out[h] \in Verdicts
                /\ pc[h] = "answered" => out[h] \in Answers

\* The handler whose answer the till awaits works on the row it awaits.
ConnOK == conn # NoHandler => /\ post # NoPost
                              /\ pc[conn] # "free"
                              /\ key[conn] = post

\* Whoever says "applied" or "ok", be it a handler, the record or the till,
\* says it of a write in effect.
TruthInv == /\ \A h \in Handlers :
                 /\ pc[h] = "recording" /\ out[h] \in Done => InEffect(key[h])
                 /\ pc[h] = "answered" /\ out[h] = "ok" => InEffect(key[h])
            /\ \A k \in Seqs : replays[k] \in Done => InEffect(k)
            /\ AckTruthful

\* What the handlers carry, and what the till awaits of them.
RequestInv == PathTypeOK /\ QueueInv /\ MemoryInv /\ VerdictOK /\ ConnOK

PathInv == RequestInv /\ TruthInv

-----------------------------------------------------------------------------
\* The names of the handler's steps and answers.
LEMMA Words == /\ {"sent", "known", "new", "cleared", "missed", "recording",
                   "answered"} \subseteq Steps \ {"free"}
               /\ "free" \in Steps
               /\ Done \subseteq Verdicts /\ Denied \subseteq Verdicts
               /\ {"ok", "prior_conflict", "clash", "denied", "orphan", "retry",
                   "unauthorized"} \subseteq Answers
               /\ {"clash", "denied"} \subseteq Verdicts
               /\ {"applied", "duplicate"} \subseteq Verdicts
               /\ "denied" \notin Done /\ "clash" \notin Done
               /\ NoOut \notin Verdicts
BY DEF Steps, Done, Denied, Verdicts, Answers, NoOut

\* One handler moves, to a step and an outcome of the right kind.
LEMMA MoveTyped ==
    ASSUME ServerTypeOK, VerdictOK, NEW h \in Handlers, pc[h] # "free",
           NEW p \in Steps \ {"free"},
           NEW o \in {NoOut} \cup Verdicts \cup Answers, Move(h, p, o),
           p = "recording" => o \in Verdicts, p = "answered" => o \in Answers
    PROVE  /\ pc' \in [Handlers -> Steps]
           /\ out' \in [Handlers -> {NoOut} \cup Verdicts \cup Answers]
           /\ UNCHANGED <<key, token>>
           /\ VerdictOK'
           /\ pc'[h] = p /\ out'[h] = o
           /\ \A g \in Handlers : g # h => pc'[g] = pc[g] /\ out'[g] = out[g]
BY DEF ServerTypeOK, VerdictOK, Move

\* A commit keeps the types of the store, and no write leaves effect.
LEMMA TakeEffectTyped ==
    ASSUME ServerTypeOK, NEW k \in Seqs, NEW u \in Staff, TakeEffect(k, u)
    PROVE  /\ effects' \in [Seqs -> 0..2]
           /\ holder' \in [Seqs -> Staff \cup {Nobody}]
           /\ after' \in [Seqs -> SUBSET Seqs]
           /\ replays' = replays
           /\ InEffect(k)'
           /\ \A j \in Seqs : j # k => effects'[j] = effects[j]
           /\ \A j \in Seqs : InEffect(j) => InEffect(j)' /\ after'[j] = after[j]
           /\ ~InEffect(k) => /\ effects'[k] = 1
                              /\ after'[k] = {j \in Seqs : InEffect(j)}
<1>1. effects' \in [Seqs -> 0..2]
  BY DEF ServerTypeOK, TakeEffect
<1>2. holder' \in [Seqs -> Staff \cup {Nobody}] /\ replays' = replays
  BY DEF ServerTypeOK, TakeEffect
<1>3. {j \in Seqs : InEffect(j)} \in SUBSET Seqs
  OBVIOUS
<1>4. after' \in [Seqs -> SUBSET Seqs]
  BY <1>3 DEF ServerTypeOK, TakeEffect
<1>5. InEffect(k)' /\ (~InEffect(k) => effects'[k] = 1)
  BY DEF ServerTypeOK, TakeEffect, InEffect
<1>6. \A j \in Seqs : j # k => effects'[j] = effects[j]
  BY DEF ServerTypeOK, TakeEffect
<1>7. ~InEffect(k) => after'[k] = {j \in Seqs : InEffect(j)}
  BY DEF ServerTypeOK, TakeEffect
<1>8. ASSUME NEW j \in Seqs, InEffect(j) PROVE InEffect(j)' /\ after'[j] = after[j]
  <2>1. InEffect(j)'
    BY <1>5, <1>6, <1>8 DEF InEffect
  <2>2. after'[j] = after[j]
    BY <1>3, <1>8 DEF ServerTypeOK, TakeEffect
  <2> QED BY <2>1, <2>2
<1> QED BY <1>1, <1>2, <1>4, <1>5, <1>6, <1>7, <1>8

-----------------------------------------------------------------------------
\* What one step of a handler does to the handlers: it moves alone, with a
\* verdict or an answer that fits where it is.
HandlerMoved(h) == /\ pc[h] # "free" /\ pc'[h] # "free"
                   /\ UNCHANGED <<key, token, expired>>
                   /\ pc' \in [Handlers -> Steps]
                   /\ out' \in [Handlers -> {NoOut} \cup Verdicts \cup Answers]
                   /\ VerdictOK'
                   /\ \A g \in Handlers :
                        g # h => pc'[g] = pc[g] /\ out'[g] = out[g]

\* A move to a step and an outcome that fit.
LEMMA Moved ==
    ASSUME ServerTypeOK, VerdictOK, NEW h \in Handlers, pc[h] # "free",
           UNCHANGED expired,
           \/ \E p \in Steps \ {"free", "recording", "answered"} : Goto(h, p)
           \/ \E v \in Verdicts : Conclude(h, v)
           \/ \E a \in Answers : Answer(h, a)
    PROVE  HandlerMoved(h)
<1>1. CASE \E p \in Steps \ {"free", "recording", "answered"} : Goto(h, p)
  <2>1. PICK p \in Steps \ {"free", "recording", "answered"} : Goto(h, p)
    BY <1>1
  <2> QED BY <2>1, MoveTyped DEF Goto, HandlerMoved
<1>2. CASE \E v \in Verdicts : Conclude(h, v)
  <2>1. PICK v \in Verdicts : Conclude(h, v)
    BY <1>2
  <2> QED BY <2>1, MoveTyped, Words DEF Conclude, HandlerMoved
<1>3. CASE \E a \in Answers : Answer(h, a)
  <2>1. PICK a \in Answers : Answer(h, a)
    BY <1>3
  <2> QED BY <2>1, MoveTyped, Words DEF Answer, HandlerMoved
<1> QED BY <1>1, <1>2, <1>3

\* An RPC may commit a write that is in effect: it has neither key nor guard, or
\* the write was taken back.
MayRepeat(k) == Kind[k] = "absolute" \/ k \in recalled

\* What one step of a handler does to the database: nothing, or it commits
\* the write, for the first time unless it may be repeated, or it records.
Commits(h) == /\ pc[h] \in {"cleared", "missed"}
              /\ TakeEffect(key[h], Owner[token[h]])
              /\ \E v \in Done : Conclude(h, v)
              /\ MayRepeat(key[h]) \/ ~InEffect(key[h])

\* The verdict, or the answer, of a step that leaves the database alone.
Judges(h) == /\ UNCHANGED storeVars
             /\ \/ \E p \in Steps \ {"free", "recording", "answered"} : Goto(h, p)
                \/ \E v \in Verdicts : /\ Conclude(h, v)
                                       /\ v \in Done => InEffect(key[h])
                \/ \E a \in Answers \ {"ok"} : Answer(h, a)
                \/ replays[key[h]] \in Done /\ Answer(h, "ok")

\* A stored result other than conflict is a verdict of an RPC that returned.
LEMMA StoredAnswerIs ==
    ASSUME ServerTypeOK, NEW k \in Seqs, replays[k] # "none"
    PROVE  \/ StoredAnswer(k) = "prior_conflict"
           \/ StoredAnswer(k) = "ok" /\ replays[k] \in Done
BY DEF ServerTypeOK, StoredAnswer

\* The RPC commits or refuses, for the first time unless it may be repeated.
LEMMA ApplyOrDenySplits ==
    ASSUME NEW h \in Handlers, ApplyOrDeny(h), pc[h] \in {"cleared", "missed"},
           MayRepeat(key[h]) \/ ~InEffect(key[h])
    PROVE  Commits(h) \/ Judges(h)
<1>1. CASE TakeEffect(key[h], Owner[token[h]]) /\ Conclude(h, "applied")
  BY <1>1 DEF Commits, Done
<1>2. ASSUME NEW v \in Denied, Conclude(h, v), UNCHANGED storeVars PROVE Judges(h)
  <2>1. v \in Verdicts /\ v \notin Done
    BY DEF Verdicts, Denied, Done
  <2> QED BY <1>2, <2>1 DEF Judges
<1> QED BY <1>1, <1>2 DEF ApplyOrDeny

\* A key that is found answers duplicate or refuses, of a write in effect.
LEMMA RecogniseJudges ==
    ASSUME NEW h \in Handlers, Recognise(h), InEffect(key[h])
    PROVE  Judges(h)
BY Words DEF Recognise, Judges

\* Every step of a handler is one of the three.
LEMMA ServeSplits ==
    ASSUME ServerTypeOK, VerdictOK, NEW h \in Handlers, Serve(h)
    PROVE  /\ pc[h] # "free" /\ UNCHANGED outsideVars
           /\ Commits(h) \/ Judges(h) \/ Record(h)
<1> USE Words
<1>k. key[h] \in Seqs
  BY DEF ServerTypeOK
<1>1. CASE CheckCaller(h)
  BY <1>1 DEF CheckCaller, Judges
<1>2. CASE LookUp(h)
  <2>1. CASE replays[key[h]] # "none"
    BY <1>2, <1>k, <2>1, StoredAnswerIs DEF LookUp, Judges
  <2>2. CASE replays[key[h]] = "none"
    BY <1>2, <2>2 DEF LookUp, Judges
  <2> QED BY <1>2, <2>1, <2>2 DEF LookUp
<1>3. CASE Clear(h)
  BY <1>3 DEF Clear, Judges
<1>4. CASE Dispatch(h)
  <2>0. pc[h] = "cleared" /\ UNCHANGED outsideVars
    BY <1>4 DEF Dispatch
  <2>1. CASE RunClaimed(h)
    BY <2>0, <2>1, ApplyOrDenySplits, RecogniseJudges DEF RunClaimed
  <2>2. CASE ReadKey(h)
    BY <2>0, <2>2, RecogniseJudges DEF ReadKey, Judges
  <2>3. CASE RunStated(h)
    <3>1. CASE ~InEffect(key[h]) /\ TakeEffect(key[h], Owner[token[h]])
                 /\ Conclude(h, "duplicate")
      BY <2>0, <3>1 DEF Commits, Done
    <3>2. CASE (~InEffect(key[h]) \/ key[h] \in recalled) /\ ApplyOrDeny(h)
      BY <2>0, <3>2, ApplyOrDenySplits DEF MayRepeat
    <3>3. CASE /\ InEffect(key[h]) /\ UNCHANGED storeVars
               /\ \E v \in {"duplicate", "denied"} : Conclude(h, v)
      <4>1. PICK v \in {"duplicate", "denied"} : Conclude(h, v)
        BY <3>3
      <4>2. v \in Verdicts /\ InEffect(key[h])
        BY <3>3
      <4>3. \E u \in Verdicts : /\ Conclude(h, u)
                               /\ u \in Done => InEffect(key[h])
        BY <4>1, <4>2
      <4> QED BY <2>0, <3>3, <4>3 DEF Judges
    <3>4. \/ /\ InEffect(key[h])
             /\ \E v \in {"duplicate", "denied"} : Conclude(h, v)
             /\ UNCHANGED storeVars
          \/ /\ ~InEffect(key[h])
             /\ TakeEffect(key[h], Owner[token[h]])
             /\ Conclude(h, "duplicate")
          \/ /\ ~InEffect(key[h]) \/ key[h] \in recalled
             /\ ApplyOrDeny(h)
      BY <2>3 DEF RunStated
    <3> QED BY <3>1, <3>2, <3>3, <3>4
  <2>4. CASE RunGuarded(h)
    BY <2>0, <2>4, ApplyOrDenySplits DEF RunGuarded, Judges
  <2>5. CASE RunAbsolute(h)
    BY <2>0, <2>5, ApplyOrDenySplits DEF RunAbsolute, MayRepeat
  <2> QED BY <1>4, <2>0, <2>1, <2>2, <2>3, <2>4, <2>5 DEF Dispatch
<1>5. CASE RunLocked(h)
  BY <1>5, ApplyOrDenySplits, RecogniseJudges DEF RunLocked, Judges
<1>6. CASE NotJudged(h)
  BY <1>6 DEF NotJudged, Judges
<1>7. CASE Record(h)
  BY <1>7 DEF Record
<1>8. CASE Die(h)
  BY <1>8 DEF Die, Judges
<1> QED BY <1>1, <1>2, <1>3, <1>4, <1>5, <1>6, <1>7, <1>8 DEF Serve

\* What an answer to a verdict may be; "ok" answers only one that succeeded.
LEMMA AnswersForIs ==
    ASSUME NEW v \in Verdicts
    PROVE  /\ AnswersFor(v) \subseteq Answers
           /\ "ok" \in AnswersFor(v) => v \in Done
BY DEF AnswersFor, Verdicts, Done, Denied, Answers

\* Recording answers, keeps the write as it is, and stores or answers success
\* only where the verdict or the stored result was one.
LEMMA RecordMoves ==
    ASSUME ServerTypeOK, VerdictOK, NEW h \in Handlers, Record(h)
    PROVE  /\ \E a \in Answers :
                /\ Answer(h, a)
                /\ a = "ok" => out[h] \in Done \/ replays[key[h]] \in Done
           /\ UNCHANGED <<holder, effects, after, outsideVars>>
           /\ replays' \in [Seqs -> {"none", "conflict"} \cup Done]
           /\ \A k \in Seqs : replays'[k] # replays[k] =>
                /\ k = key[h] /\ replays[k] = "none"
                /\ replays'[k] \in Done => out[h] \in Done
<1> USE Words
<1>1. key[h] \in Seqs /\ out[h] \in Verdicts /\ pc[h] = "recording"
  BY DEF ServerTypeOK, VerdictOK, Record
<1>2. UNCHANGED <<holder, effects, after, outsideVars>>
  BY DEF Record
<1>3. CASE /\ replays[key[h]] = "none"
           /\ replays' = [replays EXCEPT ![key[h]] =
                            IF out[h] \in Done THEN out[h] ELSE "conflict"]
           /\ \E a \in AnswersFor(out[h]) : Answer(h, a)
  <2>1. PICK a \in AnswersFor(out[h]) : Answer(h, a)
    BY <1>3
  <2>2. a \in Answers /\ (a = "ok" => out[h] \in Done)
    BY <1>1, <2>1, AnswersForIs
  <2>3. replays' \in [Seqs -> {"none", "conflict"} \cup Done]
    BY <1>1, <1>3 DEF ServerTypeOK
  <2>4. "conflict" \notin Done
    BY DEF Done
  <2>5. \A k \in Seqs : replays'[k] # replays[k] =>
          /\ k = key[h] /\ replays[k] = "none"
          /\ replays'[k] \in Done => out[h] \in Done
    BY <1>1, <1>3, <2>4 DEF ServerTypeOK
  <2> QED BY <1>2, <2>1, <2>2, <2>3, <2>5
<1>4. CASE /\ replays[key[h]] # "none"
           /\ Answer(h, StoredAnswer(key[h]))
           /\ UNCHANGED replays
  <2>1. StoredAnswer(key[h]) \in Answers
        /\ (StoredAnswer(key[h]) = "ok" => replays[key[h]] \in Done)
    BY <1>1, <1>4, StoredAnswerIs
  <2>2. replays' \in [Seqs -> {"none", "conflict"} \cup Done]
    BY <1>4 DEF ServerTypeOK
  <2> QED BY <1>2, <1>4, <2>1, <2>2
<1>5. CASE /\ \E a \in AnswersFor(out[h]) : Answer(h, a)
           /\ UNCHANGED replays
  <2>1. PICK a \in AnswersFor(out[h]) : Answer(h, a)
    BY <1>5
  <2>2. a \in Answers /\ (a = "ok" => out[h] \in Done)
    BY <1>1, <2>1, AnswersForIs
  <2>3. replays' \in [Seqs -> {"none", "conflict"} \cup Done]
    BY <1>5 DEF ServerTypeOK
  <2> QED BY <1>2, <1>5, <2>1, <2>2, <2>3
<1> QED BY <1>3, <1>4, <1>5 DEF Record

\* A handler's step keeps the server's types, and the request it carries.
LEMMA ServeTyped ==
    ASSUME ServerTypeOK, VerdictOK, NEW h \in Handlers, Serve(h)
    PROVE  ServerTypeOK' /\ HandlerMoved(h)
<1> USE Words
<1>1. pc[h] # "free" /\ UNCHANGED <<expired, recalled>> /\ key[h] \in Seqs
  BY ServeSplits DEF ServerTypeOK, outsideVars
<1>2. HandlerMoved(h)
  <2>1. CASE Commits(h)
    BY <1>1, <2>1, Moved DEF Commits
  <2>2. CASE Judges(h)
    <3>1. CASE \E p \in Steps \ {"free", "recording", "answered"} : Goto(h, p)
      BY <1>1, <3>1, Moved
    <3>2. CASE \E v \in Verdicts : /\ Conclude(h, v)
                                   /\ v \in Done => InEffect(key[h])
      <4>1. \E v \in Verdicts : Conclude(h, v)
        BY <3>2
      <4> QED BY <1>1, <4>1, Moved
    <3>3. CASE (\E a \in Answers \ {"ok"} : Answer(h, a)) \/ Answer(h, "ok")
      <4>1. \E a \in Answers : Answer(h, a)
        BY <3>3
      <4> QED BY <1>1, <4>1, Moved
    <3> QED BY <2>2, <3>1, <3>2, <3>3 DEF Judges
  <2>3. CASE Record(h)
    BY <1>1, <2>3, Moved, RecordMoves
  <2> QED BY <2>1, <2>2, <2>3, ServeSplits
<1>3. /\ replays' \in [Seqs -> {"none", "conflict"} \cup Done]
      /\ holder' \in [Seqs -> Staff \cup {Nobody}]
      /\ effects' \in [Seqs -> 0..2]
      /\ after' \in [Seqs -> SUBSET Seqs]
  <2>1. CASE Commits(h)
    <3>1. Owner[token[h]] \in Staff
      BY <1>1 DEF VerdictOK, Staff
    <3> QED BY <1>1, <2>1, <3>1, TakeEffectTyped DEF Commits, ServerTypeOK
  <2>2. CASE Judges(h)
    BY <2>2 DEF Judges, storeVars, ServerTypeOK
  <2>3. CASE Record(h)
    BY <2>3, RecordMoves DEF ServerTypeOK
  <2> QED BY <2>1, <2>2, <2>3, ServeSplits
<1> QED BY <1>1, <1>2, <1>3 DEF HandlerMoved, ServerTypeOK

-----------------------------------------------------------------------------
\* A handler that is freed, and one that receives a request.
LEMMA FreeTyped ==
    ASSUME ServerTypeOK, VerdictOK, NEW h \in Handlers, Free(h),
           UNCHANGED <<storeVars, outsideVars>>
    PROVE  /\ ServerTypeOK' /\ VerdictOK'
           /\ pc'[h] = "free"
           /\ \A g \in Handlers \ {h} :
                /\ pc'[g] = pc[g] /\ out'[g] = out[g] /\ key'[g] = key[g]
                /\ token'[g] = token[g]
<1>1. 1 \in Seqs
  BY MaxRowsAssumption DEF Seqs
<1> QED BY <1>1, Words DEF ServerTypeOK, VerdictOK, Free, storeVars, outsideVars

\* A request carries a row and the session it was sent with.
LEMMA ReceiveTyped ==
    ASSUME ServerTypeOK, VerdictOK, NEW h \in Handlers, NEW s \in Seqs,
           NEW t \in Tokens, Receive(h, s, t)
    PROVE  /\ ServerTypeOK' /\ VerdictOK'
           /\ pc'[h] = "sent" /\ key'[h] = s /\ token'[h] = t
           /\ \A g \in Handlers \ {h} :
                /\ pc'[g] = pc[g] /\ out'[g] = out[g] /\ key'[g] = key[g]
                /\ token'[g] = token[g]
BY Words DEF ServerTypeOK, VerdictOK, Receive, storeVars, outsideVars

\* The answer the till hears is one of the branches of its outcome map, and
\* only "ok" acks the row.
LEMMA HeardIsHear ==
    ASSUME NEW a \in Answers, Heard(a)
    PROVE  \/ a = "ok" /\ HearOk
           \/ HearConflict \/ HearRefused \/ HearRetry \/ HearUnauthorized
<1>1. CASE a = "ok"
  BY <1>1 DEF Heard
<1>2. CASE a \in {"clash", "prior_conflict"}
  BY <1>2 DEF Heard
<1>3. CASE a \in {"denied", "orphan"}
  BY <1>3 DEF Heard
<1>4. CASE a = "retry"
  BY <1>4 DEF Heard
<1>5. CASE a = "unauthorized"
  BY <1>5 DEF Heard
<1> QED BY <1>1, <1>2, <1>3, <1>4, <1>5 DEF Answers

-----------------------------------------------------------------------------
\* What the till does to a row: nothing ever takes one out of the table, and
\* only the answer "ok" acks one, the awaited one.
LEMMA RowMoves ==
    ASSUME WorkerTypeOK, WorkerNext \/ UNCHANGED workerVars
    PROVE  \A s \in Seqs :
             /\ row[s] # "absent" => row'[s] # "absent"
             /\ row'[s] = "acked" => row[s] = "acked" \/ (HearOk /\ s = post)
<1> USE RowStates
<1>one. ASSUME NEW s \in Seqs, NEW st \in RowState \ {"absent", "acked"},
               SetState(s, st), NEW t \in Seqs
        PROVE  /\ row[t] # "absent" => row'[t] # "absent"
               /\ row'[t] = "acked" => row[t] = "acked"
  BY <1>one, SetRow
<1>1. CASE \E s \in Seqs : Enqueue(s)
  BY <1>1, <1>one DEF Enqueue, enqueue
<1>2. CASE \E s \in Seqs : Resolve(s)
  BY <1>2, <1>one DEF Resolve, resolveRow
<1>3. CASE \E s \in Seqs : ParkHead(s)
  BY <1>3, <1>one DEF ParkHead, parkUnreadable
<1>4. CASE \E s \in Seqs : Send(s)
  BY <1>4, <1>one DEF Send, markInflight
<1>5. CASE HearOk
  BY <1>5, PostIsRow, SetRow DEF HearOk, ack
<1>6. CASE HearConflict \/ HearRefused \/ HearRetry \/ HearUnauthorized
  <2>1. PICK st \in {"conflict", "failed", "pending"} : SetState(post, st)
    BY <1>6 DEF HearConflict, HearRefused, HearRetry, HearUnauthorized,
       markConflict, markFailed, releaseToPending
  <2>2. post \in Seqs
    BY <1>6, PostIsRow DEF HearConflict, HearRefused, HearRetry, HearUnauthorized
  <2> QED BY <1>one, <2>1, <2>2
<1>7. CASE Stop
  <2>1. post # NoPost => post \in Seqs
    BY DEF WorkerTypeOK
  <2> QED BY <1>7, <1>one, <2>1 DEF Stop, releaseToPending, queueVars
<1>8. CASE \E t \in Tokens \cup {NoToken} : PushAuth(t)
  BY <1>8 DEF PushAuth, queueVars
<1>9. CASE Tick \/ BackoffElapses \/ EndDrain \/ PowerCut \/ Boot \/ LoseProfile
           \/ UNCHANGED workerVars
  BY <1>9 DEF Tick, BackoffElapses, EndDrain, PowerCut, Boot,
     LoseProfile, loseKey, workerVars, queueVars
<1> QED
  BY <1>1, <1>2, <1>3, <1>4, <1>5, <1>6, <1>7, <1>8, <1>9 DEF WorkerNext

\* The steps of the till alone keep the row it awaits.
LEMMA TillStepIsWorker ==
    ASSUME TillStep
    PROVE  WorkerNext /\ post' = post /\ ~HearOk
<1>1. CASE \E s \in Seqs : Enqueue(s) \/ Resolve(s) \/ ParkHead(s)
  BY <1>1 DEF Enqueue, Resolve, ParkHead, WorkerNext, HearOk, Settled
<1>2. CASE \E t \in Tokens \cup {NoToken} : PushAuth(t)
  BY <1>2 DEF PushAuth, WorkerNext, HearOk, Settled
<1>3. CASE Tick \/ BackoffElapses \/ EndDrain \/ Boot \/ LoseProfile
  BY <1>3 DEF Tick, BackoffElapses, EndDrain, Boot, LoseProfile, WorkerNext,
     HearOk, Settled
<1> QED BY <1>1, <1>2, <1>3 DEF TillStep

\* The till cannot tell the replay function from an environment that may
\* answer anything: every step of the path is a step of the worker.
LEMMA PathStepIsWorker ==
    ASSUME VerdictOK, ConnOK, PathTypeOK, [PathNext]_pathVars
    PROVE  [WorkerNext]_workerVars
<1>1. CASE TillStep
  BY <1>1, TillStepIsWorker
<1>2. CASE ServerStep \/ \E h \in Handlers : NetworkDrops(h)
  BY <1>2 DEF ServerStep, NetworkDrops
<1>3. CASE \E s \in Seqs, h \in Handlers : Post(s, h)
  BY <1>3 DEF Post, WorkerNext
<1>4. ASSUME NEW h \in Handlers, Deliver(h) PROVE WorkerNext
  <2>1. out[h] \in Answers /\ Heard(out[h])
    BY <1>4 DEF Deliver, Respond, VerdictOK
  <2> QED BY <2>1, HeardIsHear DEF WorkerNext
<1>5. CASE GiveUp
  BY <1>5 DEF GiveUp, WorkerNext
<1>6. CASE TillGoesDown
  BY <1>6 DEF TillGoesDown, WorkerNext
<1>7. CASE UNCHANGED pathVars
  BY <1>7 DEF pathVars
<1> QED BY <1>1, <1>2, <1>3, <1>4, <1>5, <1>6, <1>7 DEF PathNext

-----------------------------------------------------------------------------
\* Only the server's own steps, and requests that come and go, touch it.
LEMMA NextServer ==
    ASSUME PathTypeOK, VerdictOK, [PathNext]_pathVars
    PROVE  ServerTypeOK' /\ VerdictOK' /\ conn' \in Handlers \cup {NoHandler}
<1>same. ASSUME UNCHANGED serverVars PROVE ServerTypeOK' /\ VerdictOK'
  BY <1>same DEF PathTypeOK, ServerTypeOK, VerdictOK, serverVars, handlerVars,
     storeVars, outsideVars
<1>1. CASE TillStep
  BY <1>1, <1>same DEF TillStep, PathTypeOK
<1>2. ASSUME NEW h \in Handlers, Serve(h), UNCHANGED conn
      PROVE  ServerTypeOK' /\ VerdictOK' /\ conn' \in Handlers \cup {NoHandler}
  BY <1>2, ServeTyped DEF HandlerMoved, PathTypeOK
<1>3. ASSUME Elsewhere, UNCHANGED conn
      PROVE  ServerTypeOK' /\ VerdictOK' /\ conn' \in Handlers \cup {NoHandler}
  BY <1>3 DEF Elsewhere, Expire, Recall, PathTypeOK, ServerTypeOK, VerdictOK, handlerVars, storeVars
<1>4. ASSUME NEW h \in Handlers, NetworkDrops(h)
      PROVE  ServerTypeOK' /\ VerdictOK' /\ conn' \in Handlers \cup {NoHandler}
  BY <1>4, FreeTyped DEF NetworkDrops, LoseRequest, Respond, PathTypeOK
<1>5. ASSUME NEW s \in Seqs, NEW h \in Handlers, Post(s, h)
      PROVE  ServerTypeOK' /\ VerdictOK' /\ conn' \in Handlers \cup {NoHandler}
  <2>1. current \in Tokens
    BY <1>5 DEF Post, Send, getReplayAuth, PathTypeOK, WorkerTypeOK
  <2> QED BY <1>5, <2>1, ReceiveTyped DEF Post, PathTypeOK
<1>6. ASSUME NEW h \in Handlers, Deliver(h)
      PROVE  ServerTypeOK' /\ VerdictOK' /\ conn' \in Handlers \cup {NoHandler}
  BY <1>6, FreeTyped DEF Deliver, Respond, PathTypeOK
<1>7. CASE GiveUp \/ TillGoesDown
  BY <1>7, <1>same DEF GiveUp, TillGoesDown
<1>8. CASE UNCHANGED pathVars
  BY <1>8, <1>same DEF pathVars, PathTypeOK
<1> QED
  BY <1>1, <1>2, <1>3, <1>4, <1>5, <1>6, <1>7, <1>8 DEF PathNext, ServerStep

\* The handler the till awaits keeps working on the awaited row: it answers
\* before it is freed, and the till lets go of it whenever it lets go of the row.
LEMMA NextConn ==
    ASSUME PathTypeOK, VerdictOK, ConnOK, [PathNext]_pathVars
    PROVE  ConnOK'
<1>same. ASSUME post' = post, UNCHANGED <<pc, key, conn>> PROVE ConnOK'
  BY <1>same DEF ConnOK
<1>none. ASSUME conn' = NoHandler PROVE ConnOK'
  BY <1>none DEF ConnOK
<1>1. CASE TillStep
  BY <1>1, <1>same, TillStepIsWorker DEF TillStep, serverVars, handlerVars
<1>2. ASSUME NEW h \in Handlers, Serve(h), UNCHANGED <<workerVars, conn>>
      PROVE  ConnOK'
  <2>1. HandlerMoved(h)
    BY <1>2, ServeTyped DEF PathTypeOK
  <2>2. conn # NoHandler => conn \in Handlers
    BY DEF PathTypeOK
  <2> QED BY <1>2, <2>1, <2>2 DEF HandlerMoved, ConnOK, workerVars
<1>3. ASSUME Elsewhere, UNCHANGED <<workerVars, conn>>
      PROVE  ConnOK'
  BY <1>3, <1>same DEF Elsewhere, Expire, Recall, handlerVars, workerVars
<1>4. ASSUME NEW h \in Handlers, NetworkDrops(h) PROVE ConnOK'
  <2>1. CASE h = conn
    BY <1>4, <1>none, <2>1 DEF NetworkDrops
  <2>2. CASE h # conn
    <3>1. conn # NoHandler => pc'[conn] = pc[conn] /\ key'[conn] = key[conn]
      BY <1>4, <2>2, FreeTyped DEF NetworkDrops, LoseRequest, Respond, PathTypeOK
    <3> QED BY <1>4, <2>2, <3>1 DEF NetworkDrops, ConnOK, workerVars
  <2> QED BY <2>1, <2>2
<1>5. ASSUME NEW s \in Seqs, NEW h \in Handlers, Post(s, h) PROVE ConnOK'
  <2>1. current \in Tokens
    BY <1>5 DEF Post, Send, getReplayAuth, PathTypeOK, WorkerTypeOK
  <2>2. pc'[h] = "sent" /\ key'[h] = s
    BY <1>5, <2>1, ReceiveTyped DEF Post, PathTypeOK
  <2>3. s # NoPost
    BY MaxRowsAssumption DEF Seqs, NoPost
  <2> QED BY <1>5, <2>2, <2>3 DEF Post, Send, ConnOK
<1>6. ASSUME NEW h \in Handlers, Deliver(h) PROVE ConnOK'
  BY <1>6, <1>none DEF Deliver
<1>7. CASE GiveUp \/ TillGoesDown
  BY <1>7, <1>none DEF GiveUp, TillGoesDown
<1>8. CASE UNCHANGED pathVars
  BY <1>8, <1>same DEF pathVars, workerVars, serverVars, handlerVars
<1> QED
  BY <1>1, <1>2, <1>3, <1>4, <1>5, <1>6, <1>7, <1>8 DEF PathNext, ServerStep

\* The requests' part of the invariant is inductive by itself.
LEMMA NextRequestInv ==
    ASSUME RequestInv, [PathNext]_pathVars
    PROVE  RequestInv' /\ [WorkerNext]_workerVars
<1>1. [WorkerNext]_workerVars
  BY PathStepIsWorker DEF RequestInv
<1>2. WorkerTypeOK' /\ QueueInv' /\ MemoryInv'
  BY <1>1, NextTypeOK, NextQueueInv, NextMemoryInv DEF RequestInv, PathTypeOK
<1> QED BY <1>1, <1>2, NextServer, NextConn DEF RequestInv, PathTypeOK

-----------------------------------------------------------------------------
\* A step of the server, of the network or of the till commits, or leaves the
\* store but for one stored verdict, or leaves it all.
LEMMA StoreMoves ==
    ASSUME RequestInv, [PathNext]_pathVars
    PROVE  \/ \E h \in Handlers : Commits(h) /\ UNCHANGED <<workerVars, conn>>
           \/ \E h \in Handlers : Record(h) /\ UNCHANGED <<workerVars, conn>>
           \/ UNCHANGED storeVars
<1>1. ASSUME NEW h \in Handlers, Serve(h), UNCHANGED <<workerVars, conn>>
      PROVE  Commits(h) \/ Record(h) \/ UNCHANGED storeVars
  BY <1>1, ServeSplits DEF RequestInv, PathTypeOK, Judges
<1>2. CASE TillStep \/ GiveUp \/ TillGoesDown \/ UNCHANGED pathVars
  BY <1>2 DEF TillStep, GiveUp, TillGoesDown, pathVars, serverVars
<1>3. ASSUME NEW h \in Handlers, NetworkDrops(h) \/ Deliver(h)
      PROVE  UNCHANGED storeVars
  BY <1>3 DEF NetworkDrops, Deliver, LoseRequest, Respond
<1>4. ASSUME NEW s \in Seqs, NEW h \in Handlers, Post(s, h)
      PROVE  UNCHANGED storeVars
  BY <1>4 DEF Post, Receive
<1>5. ASSUME Elsewhere PROVE UNCHANGED storeVars
  BY <1>5 DEF Elsewhere, Expire, Recall
<1> QED
  BY <1>1, <1>2, <1>3, <1>4, <1>5 DEF PathNext, ServerStep

\* No write ever leaves effect.
LEMMA EffectStays ==
    ASSUME RequestInv, [PathNext]_pathVars, NEW k \in Seqs, InEffect(k)
    PROVE  InEffect(k)' /\ after'[k] = after[k]
<1>1. ASSUME NEW h \in Handlers, Commits(h) PROVE InEffect(k)' /\ after'[k] = after[k]
  <2>1. key[h] \in Seqs /\ Owner[token[h]] \in Staff
    BY <1>1 DEF Commits, RequestInv, PathTypeOK, ServerTypeOK, VerdictOK, Staff
  <2> QED BY <1>1, <2>1, TakeEffectTyped DEF Commits, RequestInv, PathTypeOK
<1>2. ASSUME NEW h \in Handlers, Record(h) PROVE InEffect(k)' /\ after'[k] = after[k]
  BY <1>2, RecordMoves DEF RequestInv, PathTypeOK, InEffect
<1>3. ASSUME UNCHANGED storeVars PROVE InEffect(k)' /\ after'[k] = after[k]
  BY <1>3 DEF storeVars, InEffect
<1> QED BY <1>1, <1>2, <1>3, StoreMoves

\* The till acks a row on one occasion: it hears "ok" from the handler that
\* carries that row.
LEMMA AckHeard ==
    ASSUME RequestInv, [PathNext]_pathVars, NEW s \in Seqs,
           row'[s] = "acked", row[s] # "acked"
    PROVE  \E h \in Handlers : /\ pc[h] = "answered" /\ out[h] = "ok"
                               /\ key[h] = s
<1> USE RowStates
<1>1. WorkerNext \/ UNCHANGED workerVars
  BY NextRequestInv
<1>2. WorkerTypeOK
  BY DEF RequestInv, PathTypeOK
<1>3. HearOk /\ s = post
  BY <1>1, <1>2, RowMoves
<1>4. ASSUME NEW st \in RowState \ {"acked"}, SetState(post, st) PROVE FALSE
  BY <1>2, <1>3, <1>4, SetRow
<1>5. ~HearConflict /\ ~HearRefused /\ ~HearRetry /\ ~HearUnauthorized
  BY <1>4 DEF HearConflict, HearRefused, HearRetry, HearUnauthorized,
     markConflict, markFailed, releaseToPending
<1>6. row' # row
  OBVIOUS
<1>7. ASSUME NEW h \in Handlers, Deliver(h)
      PROVE  pc[h] = "answered" /\ out[h] = "ok" /\ key[h] = s
  <2>1. pc[h] = "answered" /\ h = conn /\ Heard(out[h])
    BY <1>7 DEF Deliver, Respond
  <2>2. out[h] \in Answers
    BY <2>1 DEF RequestInv, VerdictOK
  <2>3. out[h] = "ok"
    BY <1>5, <2>1, <2>2, HeardIsHear
  <2>4. h # NoHandler
    BY ServerAssumption
  <2> QED BY <1>3, <2>1, <2>3, <2>4 DEF RequestInv, ConnOK
<1>8. CASE TillStep
  BY <1>3, <1>8, TillStepIsWorker
<1>9. CASE ServerStep \/ (\E h \in Handlers : NetworkDrops(h)) \/ UNCHANGED pathVars
  BY <1>6, <1>9 DEF ServerStep, NetworkDrops, workerVars, queueVars, pathVars
<1>10. ASSUME NEW t \in Seqs, NEW h \in Handlers, Post(t, h) PROVE FALSE
  <2>1. post = NoPost
    BY <1>10 DEF Post, Send, InDrain
  <2> QED BY <1>3, <2>1, MaxRowsAssumption DEF Seqs, NoPost
<1>11. CASE GiveUp
  BY <1>5, <1>11 DEF GiveUp
<1>12. CASE TillGoesDown
  BY <1>4, <1>6, <1>12 DEF TillGoesDown, Stop, PowerCut, releaseToPending, queueVars
<1> QED
  BY <1>7, <1>8, <1>9, <1>10, <1>11, <1>12 DEF PathNext

\* Nobody says "applied" of a write that is not in effect.
LEMMA NextTruth ==
    ASSUME PathInv, [PathNext]_pathVars
    PROVE  TruthInv'
<1> USE Words DEF PathInv
<1>t. ServerTypeOK /\ VerdictOK /\ RequestInv'
  BY NextRequestInv DEF RequestInv, PathTypeOK
<1>keys. \A h \in Handlers : key[h] \in Seqs
  BY <1>t DEF ServerTypeOK
<1>1. ASSUME NEW k \in Seqs, replays'[k] \in Done PROVE InEffect(k)'
  <2>1. CASE replays[k] \in Done
    BY <2>1, EffectStays DEF TruthInv
  <2>2. ASSUME NEW h \in Handlers, Record(h), replays[k] \notin Done
        PROVE  InEffect(k)'
    <3>1. k = key[h] /\ out[h] \in Done
      BY <1>1, <1>t, <2>2, RecordMoves
    <3>2. InEffect(k)
      BY <2>2, <3>1 DEF TruthInv, Record
    <3> QED BY <3>2, EffectStays
  <2>3. ASSUME NEW h \in Handlers, Commits(h) PROVE replays' = replays
    BY <2>3 DEF Commits, TakeEffect
  <2> QED BY <1>1, <2>1, <2>2, <2>3, StoreMoves DEF storeVars
<1>2. ASSUME NEW s \in Seqs, row'[s] = "acked" PROVE InEffect(s)'
  <2>1. InEffect(s)
    BY <1>2, AckHeard DEF TruthInv, AckTruthful
  <2> QED BY <2>1, EffectStays
<1>told. ASSUME NEW g \in Handlers, UNCHANGED <<pc, out, key>>
                  \/ (pc'[g] = pc[g] /\ out'[g] = out[g] /\ key'[g] = key[g])
         PROVE  /\ pc'[g] = "recording" /\ out'[g] \in Done => InEffect(key[g])'
                /\ pc'[g] = "answered" /\ out'[g] = "ok" => InEffect(key[g])'
  <2>1. pc'[g] = pc[g] /\ out'[g] = out[g] /\ key'[g] = key[g]
    BY <1>told
  <2>2. InEffect(key[g]) => effects'[key[g]] > 0
    BY <1>keys, EffectStays DEF InEffect
  <2> QED BY <2>1, <2>2 DEF TruthInv, InEffect
<1>3. ASSUME NEW g \in Handlers
      PROVE  /\ pc'[g] = "recording" /\ out'[g] \in Done => InEffect(key[g])'
             /\ pc'[g] = "answered" /\ out'[g] = "ok" => InEffect(key[g])'
  <2>1. ASSUME NEW h \in Handlers, Serve(h)
        PROVE  /\ pc'[g] = "recording" /\ out'[g] \in Done => InEffect(key[g])'
               /\ pc'[g] = "answered" /\ out'[g] = "ok" => InEffect(key[g])'
    <3>1. HandlerMoved(h)
      BY <1>t, <2>1, ServeTyped
    <3>2. CASE g # h
      BY <1>told, <3>1, <3>2 DEF HandlerMoved
    <3>3. CASE g = h
      <4>0. key'[h] = key[h] /\ (InEffect(key[h]) => effects'[key[h]] > 0)
        BY <1>keys, <3>1, EffectStays DEF HandlerMoved, InEffect
      <4>1. ASSUME NEW p, NEW o, Move(h, p, o) PROVE pc'[h] = p /\ out'[h] = o
        BY <1>t, <4>1 DEF Move, ServerTypeOK
      <4>2. CASE Commits(h)
        <5>1. Owner[token[h]] \in Staff
          BY <1>t, <4>2 DEF Commits, VerdictOK, Staff
        <5>2. effects'[key[h]] > 0
          BY <1>t, <1>keys, <4>2, <5>1, TakeEffectTyped DEF Commits, InEffect
        <5> QED BY <3>3, <4>0, <5>2 DEF InEffect
      <4>3. CASE Judges(h)
        <5>1. CASE \E p \in Steps \ {"free", "recording", "answered"} : Goto(h, p)
          BY <3>3, <4>1, <5>1 DEF Goto
        <5>2. CASE \E v \in Verdicts : /\ Conclude(h, v)
                                       /\ v \in Done => InEffect(key[h])
          BY <3>3, <4>0, <4>1, <5>2 DEF Conclude, InEffect
        <5>3. CASE \E a \in Answers \ {"ok"} : Answer(h, a)
          BY <3>3, <4>1, <5>3 DEF Answer
        <5>4. CASE replays[key[h]] \in Done /\ Answer(h, "ok")
          BY <1>keys, <3>3, <4>0, <4>1, <5>4 DEF Answer, TruthInv, InEffect
        <5> QED BY <4>3, <5>1, <5>2, <5>3, <5>4 DEF Judges
      <4>4. CASE Record(h)
        <5>1. PICK a \in Answers :
                /\ Answer(h, a)
                /\ a = "ok" => out[h] \in Done \/ replays[key[h]] \in Done
          BY <1>t, <4>4, RecordMoves
        <5>2. a = "ok" => InEffect(key[h])
          BY <1>keys, <4>4, <5>1 DEF TruthInv, Record
        <5> QED BY <3>3, <4>0, <4>1, <5>1, <5>2 DEF Answer, InEffect
      <4> QED BY <1>t, <2>1, <4>2, <4>3, <4>4, ServeSplits
    <3> QED BY <3>2, <3>3
  <2>2. CASE TillStep \/ GiveUp \/ TillGoesDown \/ UNCHANGED pathVars
    BY <1>told, <2>2 DEF TillStep, GiveUp, TillGoesDown, pathVars, serverVars,
       handlerVars
  <2>3. ASSUME NEW h \in Handlers, NetworkDrops(h) \/ Deliver(h)
        PROVE  pc'[g] = "free"
               \/ (pc'[g] = pc[g] /\ out'[g] = out[g] /\ key'[g] = key[g])
    BY <1>t, <2>3, FreeTyped DEF NetworkDrops, Deliver, LoseRequest, Respond
  <2>4. ASSUME NEW s \in Seqs, NEW h \in Handlers, Post(s, h)
        PROVE  pc'[g] = "sent"
               \/ (pc'[g] = pc[g] /\ out'[g] = out[g] /\ key'[g] = key[g])
    <3>1. current \in Tokens
      BY <2>4 DEF Post, Send, getReplayAuth, RequestInv, PathTypeOK, WorkerTypeOK
    <3> QED BY <1>t, <2>4, <3>1, ReceiveTyped DEF Post
  <2>5. ASSUME Elsewhere PROVE UNCHANGED <<pc, out, key>>
    BY <2>5 DEF Elsewhere, Expire, Recall, handlerVars
  <2> QED
    BY <1>told, <2>1, <2>2, <2>3, <2>4, <2>5 DEF PathNext, ServerStep
<1> QED BY <1>1, <1>2, <1>3 DEF TruthInv, AckTruthful

-----------------------------------------------------------------------------
\* Nothing was sent, nothing is acked, nothing took effect.
LEMMA InitPathInv == PathInit => PathInv
<1> SUFFICES ASSUME PathInit PROVE PathInv
  OBVIOUS
<1>1. WorkerInv
  BY InitWorkerInv DEF PathInit
<1>2. ServerTypeOK
  <2>1. 1 \in Seqs
    BY MaxRowsAssumption DEF Seqs
  <2> QED BY <2>1, Words DEF PathInit, ServerInit, ServerTypeOK
<1>3. VerdictOK /\ ConnOK /\ conn \in Handlers \cup {NoHandler}
  BY DEF PathInit, ServerInit, VerdictOK, ConnOK
<1>4. AckTruthful
  BY DEF PathInit, WorkerInit, QueueInit, AckTruthful
<1>5. TruthInv
  BY <1>4 DEF PathInit, ServerInit, TruthInv, Done
<1> QED BY <1>1, <1>2, <1>3, <1>5 DEF WorkerInv, PathInv, RequestInv, PathTypeOK

\* The inductive invariant holds in every state of the path.
THEOREM PathInvariant == PathSpec => []PathInv
<1>1. PathInv /\ [PathNext]_pathVars => PathInv'
  BY NextRequestInv, NextTruth DEF PathInv
<1> QED BY <1>1, InitPathInv, PTL DEF PathSpec

\* Every variable of the till, the handlers and the database keeps its type.
THEOREM PathTypeCorrect == PathSpec => []PathTypeOK
<1>1. PathInv => PathTypeOK
  BY DEF PathInv, RequestInv
<1> QED BY <1>1, PathInvariant, PTL

\* The till of the whole path is the worker of SyncWorker: what is proved of the
\* worker under any answers holds of it with the replay function.
THEOREM PathImplementsWorker == PathSpec => WorkerSpec
<1>1. PathInit => WorkerInit
  BY DEF PathInit
<1>2. PathInv /\ [PathNext]_pathVars => [WorkerNext]_workerVars
  BY NextRequestInv DEF PathInv
<1> QED BY <1>1, <1>2, PathInvariant, PTL DEF PathSpec, WorkerSpec

\* "acked" is only ever shown of a write that is in effect, whatever is lost,
\* resent, overlapped or restarted, and whatever the kind of its RPC.
THEOREM AckIsTrue == PathSpec => []AckTruthful
<1>1. PathInv => AckTruthful
  BY DEF PathInv, TruthInv
<1> QED BY <1>1, PathInvariant, PTL

-----------------------------------------------------------------------------
\* What every kind of RPC but "absolute" guarantees, write by write.
OnceInv == /\ \A k \in Seqs : Kind[k] # "absolute" => effects[k] < 2 \/ k \in recalled
           /\ \A k \in recalled : Kind[k] = "recallable"

\* A ticket brought back stays one, and only tickets are.
LEMMA RecalledGrows ==
    ASSUME PathInv, OnceInv, [PathNext]_pathVars
    PROVE  recalled \subseteq recalled' /\ \A k \in recalled' : Kind[k] = "recallable"
<1>0. ServerTypeOK /\ VerdictOK /\ \A k \in recalled : Kind[k] = "recallable"
  BY DEF PathInv, RequestInv, PathTypeOK, OnceInv
<1>1. ASSUME NEW h \in Handlers, Serve(h) PROVE recalled' = recalled
  BY <1>0, <1>1, ServeSplits DEF outsideVars
<1>2. CASE TillStep \/ GiveUp \/ TillGoesDown \/ UNCHANGED pathVars
  BY <1>0, <1>2 DEF TillStep, GiveUp, TillGoesDown, pathVars, serverVars, outsideVars
<1>3. ASSUME NEW h \in Handlers, NetworkDrops(h) \/ Deliver(h)
      PROVE  recalled' = recalled
  BY <1>3 DEF NetworkDrops, Deliver, LoseRequest, Respond, outsideVars
<1>4. ASSUME NEW s \in Seqs, NEW h \in Handlers, Post(s, h) PROVE recalled' = recalled
  BY <1>4 DEF Post, Receive, outsideVars
<1>5. CASE Elsewhere
  BY <1>0, <1>5 DEF Elsewhere, Expire, Recall
<1> QED BY <1>0, <1>1, <1>2, <1>3, <1>4, <1>5 DEF PathNext, ServerStep

\* A commit is the first one of its write, unless it may be repeated.
LEMMA NextOnce == ASSUME PathInv, OnceInv, [PathNext]_pathVars PROVE OnceInv'
<1>0. RequestInv /\ ServerTypeOK /\ VerdictOK
  BY DEF PathInv, RequestInv, PathTypeOK
<1>1. ASSUME NEW h \in Handlers, Commits(h) PROVE OnceInv'
  <2>1. key[h] \in Seqs /\ Owner[token[h]] \in Staff
    BY <1>0, <1>1 DEF Commits, ServerTypeOK, VerdictOK, Staff
  <2>2. /\ \A j \in Seqs : j # key[h] => effects'[j] = effects[j]
        /\ ~InEffect(key[h]) => effects'[key[h]] = 1
    BY <1>0, <1>1, <2>1, TakeEffectTyped DEF Commits
  <2> QED BY <1>1, <2>2, RecalledGrows DEF Commits, MayRepeat, OnceInv
<1>2. ASSUME NEW h \in Handlers, Record(h) PROVE OnceInv'
  BY <1>2, RecalledGrows DEF Record, OnceInv
<1>3. ASSUME UNCHANGED storeVars PROVE OnceInv'
  BY <1>3, RecalledGrows DEF storeVars, OnceInv
<1> QED BY <1>0, <1>1, <1>2, <1>3, StoreMoves

\* It holds from the start.
LEMMA InitOnce == PathInit => OnceInv
BY DEF PathInit, ServerInit, OnceInv

\* Where every RPC knows its write again (no move, no extend), no retry, overlap
\* or restart applies a write twice, but a completed ticket that a cook brought
\* back in between.
THEOREM AppliedOnce ==
    ASSUME \A k \in Seqs : Kind[k] # "absolute"
    PROVE  PathSpec => []AppliedAtMostOnce
<1>1. PathInv /\ OnceInv /\ [PathNext]_pathVars => OnceInv'
  BY NextOnce
<1>2. OnceInv => AppliedAtMostOnce
  BY DEF OnceInv, AppliedAtMostOnce
<1> QED BY <1>1, <1>2, InitOnce, PathInvariant, PTL DEF PathSpec

-----------------------------------------------------------------------------
\* The row has been judged, and so have all before j.
Past(s) == row[s] \notin Open \cup {"absent"}
Behind(j) == row[j] # "absent" /\ \A i \in Seqs : i < j => Past(i)

\* A request is sent, and a write takes effect, only behind judged rows.
OrderInv == /\ \A h \in Handlers : pc[h] # "free" => Behind(key[h])
            /\ \A j \in Seqs : InEffect(j) => Behind(j)
            /\ AckedInOrder

\* What is past stays past, and is acked only if it was.
LEMMA PastStays ==
    ASSUME RequestInv, [PathNext]_pathVars
    PROVE  /\ \A s \in Seqs : Past(s) => /\ Past(s)'
                                         /\ row'[s] = "acked" => row[s] = "acked"
           /\ \A j \in Seqs : Behind(j) => Behind(j)'
<1>1. WorkerTypeOK /\ QueueInv /\ (WorkerNext \/ UNCHANGED workerVars)
  BY NextRequestInv DEF RequestInv, PathTypeOK
<1>2. ASSUME NEW s \in Seqs, Past(s)
      PROVE  Past(s)' /\ (row'[s] = "acked" => row[s] = "acked")
  <2>1. row[s] \in {"acked", "resolved"} \cup Refused
    BY <1>1, <1>2 DEF Past, WorkerTypeOK, QueueTypeOK, RowState, Blocking
  <2>2. row'[s] \in {row[s], "resolved"}
    BY <1>1, <2>1, NextRowKept DEF RowKept
  <2> QED BY <1>2, <2>2 DEF Past, Open
<1>3. ASSUME NEW j \in Seqs, Behind(j) PROVE Behind(j)'
  BY <1>1, <1>2, <1>3, RowMoves DEF Behind
<1> QED BY <1>2, <1>3

\* The head that is sent is behind judged rows only.
LEMMA SentBehind ==
    ASSUME RequestInv, NEW s \in Seqs, Send(s) PROVE Behind(s)
<1>1. IsHead(s) /\ Contiguous
  BY DEF Send, peeked, RequestInv, QueueInv
<1> QED BY <1>1, MaxRowsAssumption DEF Behind, Past, IsHead, Contiguous, Open, Seqs

\* The order of the till becomes the order of the database.
LEMMA NextOrder == ASSUME PathInv, OrderInv, [PathNext]_pathVars PROVE OrderInv'
<1>0. /\ RequestInv /\ ServerTypeOK /\ VerdictOK /\ RequestInv'
      /\ \A h \in Handlers : key[h] \in Seqs
  BY NextRequestInv DEF PathInv, RequestInv, PathTypeOK, ServerTypeOK
<1>stays. \A j \in Seqs : Behind(j) => Behind(j)'
  BY <1>0, PastStays
<1>1. ASSUME NEW g \in Handlers, pc'[g] # "free" PROVE Behind(key[g])'
  <2>told. ASSUME pc[g] # "free", key'[g] = key[g] PROVE Behind(key[g])'
    <3>1. Behind(key[g])
      BY <2>told DEF OrderInv
    <3>2. PICK j \in Seqs : j = key[g]
      BY <1>0
    <3>3. Behind(j)'
      BY <1>stays, <3>1, <3>2
    <3> QED BY <2>told, <3>2, <3>3 DEF Behind, Past
  <2>1. ASSUME NEW h \in Handlers, Serve(h) PROVE Behind(key[g])'
    <3>1. HandlerMoved(h)
      BY <1>0, <2>1, ServeTyped
    <3>2. pc[g] # "free" /\ key'[g] = key[g]
      BY <1>1, <3>1 DEF HandlerMoved
    <3> QED BY <2>told, <3>2
  <2>2. CASE TillStep \/ GiveUp \/ TillGoesDown \/ UNCHANGED pathVars
    BY <1>1, <2>told, <2>2 DEF TillStep, GiveUp, TillGoesDown, pathVars,
       serverVars, handlerVars
  <2>3. ASSUME NEW h \in Handlers, NetworkDrops(h) \/ Deliver(h)
        PROVE  Behind(key[g])'
    <3>1. pc[g] # "free" /\ key'[g] = key[g]
      BY <1>0, <1>1, <2>3, FreeTyped DEF NetworkDrops, Deliver, LoseRequest, Respond
    <3> QED BY <2>told, <3>1
  <2>4. ASSUME NEW s \in Seqs, NEW h \in Handlers, Post(s, h)
        PROVE  Behind(key[g])'
    <3>1. current \in Tokens
      BY <2>4 DEF Post, Send, getReplayAuth, PathInv, RequestInv, PathTypeOK,
         WorkerTypeOK
    <3>2. CASE g # h
      BY <1>0, <1>1, <2>told, <2>4, <3>1, <3>2, ReceiveTyped DEF Post
    <3>3. CASE g = h
      <4>1. key'[g] = s
        BY <1>0, <2>4, <3>1, <3>3, ReceiveTyped DEF Post
      <4>2. Behind(s)'
        BY <1>0, <1>stays, <2>4, SentBehind DEF Post
      <4> QED BY <4>1, <4>2 DEF Behind, Past
    <3> QED BY <3>2, <3>3
  <2>5. ASSUME Elsewhere PROVE Behind(key[g])'
    BY <1>1, <2>told, <2>5 DEF Elsewhere, Expire, Recall, handlerVars
  <2> QED
    BY <2>1, <2>2, <2>3, <2>4, <2>5 DEF PathNext, ServerStep
<1>new. ASSUME NEW j \in Seqs, InEffect(j)', ~InEffect(j)
        PROVE  /\ \E h \in Handlers : pc[h] # "free" /\ key[h] = j
               /\ after'[j] = {i \in Seqs : InEffect(i)}
               /\ row' = row
  <2>1. ASSUME NEW h \in Handlers, Commits(h), UNCHANGED workerVars
        PROVE  /\ pc[h] # "free" /\ key[h] = j
               /\ after'[j] = {i \in Seqs : InEffect(i)}
               /\ row' = row
    <3>1. Owner[token[h]] \in Staff /\ pc[h] # "free"
      BY <1>0, <2>1 DEF Commits, VerdictOK, Staff
    <3>2. key[h] = j
      BY <1>0, <1>new, <2>1, <3>1, TakeEffectTyped DEF Commits, InEffect
    <3> QED BY <1>0, <1>new, <2>1, <3>1, <3>2, TakeEffectTyped
            DEF Commits, workerVars, queueVars
  <2>2. ASSUME NEW h \in Handlers, Record(h) PROVE FALSE
    BY <1>new, <2>2 DEF Record, InEffect
  <2>3. ASSUME UNCHANGED storeVars PROVE FALSE
    BY <1>new, <2>3 DEF storeVars, InEffect
  <2> QED BY <1>0, <2>1, <2>2, <2>3, StoreMoves
<1>2. ASSUME NEW j \in Seqs, InEffect(j)' PROVE Behind(j)'
  <2>1. CASE InEffect(j)
    BY <1>stays, <2>1 DEF OrderInv
  <2>2. CASE ~InEffect(j)
    BY <1>new, <1>stays, <1>2, <2>2 DEF OrderInv
  <2> QED BY <2>1, <2>2
<1>3. ASSUME NEW i \in Seqs, NEW j \in Seqs, i < j, row'[i] = "acked", InEffect(j)'
      PROVE  i \in after'[j]
  <2>1. CASE InEffect(j)
    <3>1. Past(i)
      BY <1>3, <2>1 DEF OrderInv, Behind
    <3>2. row[i] = "acked"
      BY <1>0, <1>3, <3>1, PastStays
    <3>3. i \in after[j]
      BY <1>3, <2>1, <3>2 DEF OrderInv, AckedInOrder
    <3> QED BY <1>0, <2>1, <3>3, EffectStays
  <2>2. CASE ~InEffect(j)
    <3>1. row[i] = "acked"
      BY <1>new, <1>3, <2>2
    <3>2. InEffect(i)
      BY <3>1 DEF PathInv, TruthInv, AckTruthful
    <3> QED BY <1>new, <1>3, <2>2, <3>2
  <2> QED BY <2>1, <2>2
<1> QED BY <1>1, <1>2, <1>3 DEF OrderInv, AckedInOrder

\* It holds from the start.
LEMMA InitOrder == PathInit => OrderInv
BY DEF PathInit, ServerInit, WorkerInit, QueueInit, OrderInv, AckedInOrder, InEffect

\* The order in which the till queued its writes is the order in which the
\* database saw them, although attempts outlive the till's patience.
THEOREM AcksInOrder == PathSpec => []AckedInOrder
<1>1. PathInv /\ OrderInv /\ [PathNext]_pathVars => OrderInv'
  BY NextOrder
<1>2. OrderInv => AckedInOrder
  BY DEF OrderInv
<1> QED BY <1>1, <1>2, InitOrder, PathInvariant, PTL DEF PathSpec

-----------------------------------------------------------------------------
\* A handler says "orphan" on one occasion: the parent is not in effect.
LEMMA OrphanSaid ==
    ASSUME ServerTypeOK, VerdictOK, NEW h \in Handlers, Serve(h),
           pc'[h] = "answered", out'[h] = "orphan"
    PROVE  Parent[key[h]] # 0 /\ ~InEffect(Parent[key[h]])
<1>m. ASSUME NEW p, NEW o, Move(h, p, o) PROVE p = "answered" /\ o = "orphan"
  BY <1>m DEF Move, ServerTypeOK
<1>1. ~Commits(h)
  BY <1>m DEF Commits, Conclude
<1>2. ~Record(h)
  <2>1. ASSUME NEW a, Answer(h, a) PROVE a = "orphan"
    BY <1>m, <2>1 DEF Answer
  <2>2. ASSUME NEW v \in Verdicts PROVE "orphan" \notin AnswersFor(v)
    BY DEF AnswersFor, Verdicts, Done, Denied
  <2>3. StoredAnswer(key[h]) # "orphan"
    BY DEF StoredAnswer
  <2>4. ASSUME Record(h) PROVE out[h] \in Verdicts
    BY <2>4 DEF Record, VerdictOK
  <2> QED BY <2>1, <2>2, <2>3, <2>4 DEF Record
<1>3. ~CheckCaller(h) /\ ~Clear(h) /\ ~NotJudged(h) /\ ~Die(h)
  BY <1>m DEF CheckCaller, Clear, NotJudged, Die, Answer, Goto, Conclude
<1>4. ~Dispatch(h) /\ ~RunLocked(h)
  BY <1>m DEF Dispatch, RunLocked, RunClaimed, ReadKey, RunStated, RunGuarded,
     RunAbsolute, ApplyOrDeny, Recognise, Goto, Conclude
<1>5. ASSUME LookUp(h) PROVE Parent[key[h]] # 0 /\ ~InEffect(Parent[key[h]])
  <2>1. replays[key[h]] = "none"
    BY <1>m, <1>5 DEF LookUp, Answer, StoredAnswer
  <2> QED BY <1>m, <1>5, <2>1 DEF LookUp, Goto
<1> QED BY <1>2, <1>3, <1>4, <1>5 DEF Serve

\* An orphan answer names a parent, and the parent was refused.
OrphanInv == \A h \in Handlers : pc[h] = "answered" /\ out[h] = "orphan" =>
                /\ Parent[key[h]] \in Seqs
                /\ row[Parent[key[h]]] \in Refused \cup {"resolved"}

\* Behind judged rows, a parent that is not in effect was refused; and refused
\* it stays, though a zombie of its own may yet commit it.
LEMMA NextOrphan ==
    ASSUME PathInv, OrderInv, OrphanInv, [PathNext]_pathVars
    PROVE  OrphanInv'
<1>0. /\ RequestInv /\ WorkerTypeOK /\ QueueInv /\ ServerTypeOK /\ VerdictOK
      /\ [WorkerNext]_workerVars
      /\ \A h \in Handlers : key[h] \in Seqs
  BY NextRequestInv DEF PathInv, RequestInv, PathTypeOK, ServerTypeOK
<1>stays. ASSUME NEW s \in Seqs, row[s] \in Refused \cup {"resolved"}
          PROVE  row'[s] \in Refused \cup {"resolved"}
  BY <1>0, <1>stays, NextRowKept DEF RowKept
<1> SUFFICES ASSUME NEW g \in Handlers, pc'[g] = "answered", out'[g] = "orphan"
             PROVE  /\ Parent[key'[g]] \in Seqs
                    /\ row'[Parent[key'[g]]] \in Refused \cup {"resolved"}
  BY DEF OrphanInv
<1> DEFINE Cascade == /\ Parent[key'[g]] \in Seqs
                      /\ row'[Parent[key'[g]]] \in Refused \cup {"resolved"}
<1>told. ASSUME pc'[g] = pc[g], out'[g] = out[g], key'[g] = key[g]
         PROVE  Cascade
  BY <1>told, <1>stays DEF OrphanInv
<1>1. ASSUME NEW h \in Handlers, Serve(h) PROVE Cascade
  <2>1. HandlerMoved(h)
    BY <1>0, <1>1, ServeTyped
  <2>2. CASE g # h
    BY <1>told, <2>1, <2>2 DEF HandlerMoved
  <2>3. CASE g = h
    <3>1. Parent[key[g]] # 0 /\ ~InEffect(Parent[key[g]])
      BY <1>0, <1>1, <2>3, OrphanSaid
    <3>2. Parent[key[g]] \in Seqs /\ Parent[key[g]] < key[g]
      BY <1>0, <3>1, ServerAssumption
    <3>3. Past(Parent[key[g]])
      BY <1>0, <2>1, <2>3, <3>2 DEF HandlerMoved, OrderInv, Behind
    <3>4. row[Parent[key[g]]] # "acked"
      BY <3>1, <3>2 DEF PathInv, TruthInv, AckTruthful
    <3>5. row[Parent[key[g]]] \in Refused \cup {"resolved"}
      BY <1>0, <3>2, <3>3, <3>4 DEF Past, WorkerTypeOK, QueueTypeOK, RowState,
         Blocking
    <3> QED BY <1>stays, <2>1, <3>2, <3>5 DEF HandlerMoved
  <2> QED BY <2>2, <2>3
<1>2. CASE TillStep \/ GiveUp \/ TillGoesDown \/ UNCHANGED pathVars
  BY <1>told, <1>2 DEF TillStep, GiveUp, TillGoesDown, pathVars, serverVars,
     handlerVars
<1>3. ASSUME NEW h \in Handlers, NetworkDrops(h) \/ Deliver(h) PROVE Cascade
  <2>1. pc'[g] = pc[g] /\ out'[g] = out[g] /\ key'[g] = key[g]
    BY <1>0, <1>3, FreeTyped DEF NetworkDrops, Deliver, LoseRequest, Respond
  <2> QED BY <1>told, <2>1
<1>4. ASSUME NEW s \in Seqs, NEW h \in Handlers, Post(s, h) PROVE Cascade
  <2>1. current \in Tokens
    BY <1>4 DEF Post, Send, getReplayAuth, PathInv, RequestInv, PathTypeOK,
       WorkerTypeOK
  <2>2. pc'[g] = pc[g] /\ out'[g] = out[g] /\ key'[g] = key[g]
    BY <1>0, <1>4, <2>1, ReceiveTyped DEF Post
  <2> QED BY <1>told, <2>2
<1>5. ASSUME Elsewhere PROVE Cascade
  BY <1>told, <1>5 DEF Elsewhere, Expire, Recall, handlerVars
<1> QED
  BY <1>1, <1>2, <1>3, <1>4, <1>5 DEF PathNext, ServerStep

\* It holds from the start.
LEMMA InitOrphan == PathInit => OrphanInv
BY DEF PathInit, ServerInit, OrphanInv

\* A write is refused for want of its tab or its order only when the open, or the
\* order, was itself refused: never because a zombie or a retry is on its way.
THEOREM OrphansCascade == PathSpec => []OrphanIsCascade
<1>1. PathInv /\ OrderInv /\ [PathNext]_pathVars => OrderInv'
  BY NextOrder
<1>2. PathInv /\ OrderInv /\ OrphanInv /\ [PathNext]_pathVars => OrphanInv'
  BY NextOrphan
<1>3. OrphanInv => OrphanIsCascade
  BY DEF OrphanInv, OrphanIsCascade
<1> QED
  BY <1>1, <1>2, <1>3, InitOrder, InitOrphan, PathInvariant, PTL DEF PathSpec

\* Where recording does not fail, whoever says "ok" has a record that says so.
RecordInv == /\ \A h \in Handlers : pc[h] = "answered" /\ out[h] = "ok" =>
                                      replays[key[h]] \in Done
             /\ AckAgreesWithRecord

\* A record of success is final: the INSERT that collides changes nothing.
LEMMA RecordStays ==
    ASSUME RequestInv, [PathNext]_pathVars, NEW k \in Seqs, replays[k] \in Done
    PROVE  replays'[k] \in Done
<1>1. ASSUME NEW h \in Handlers, Record(h) PROVE replays'[k] = replays[k]
  <2>1. replays[k] # "none"
    BY DEF Done
  <2> QED BY <1>1, <2>1, RecordMoves DEF RequestInv, PathTypeOK
<1>2. ASSUME NEW h \in Handlers, Commits(h) PROVE replays' = replays
  BY <1>2 DEF Commits, TakeEffect
<1> QED BY <1>1, <1>2, StoreMoves DEF storeVars

\* A handler that answers "ok" found a record of success, or has just made it.
LEMMA OkRecorded ==
    ASSUME "record_fails" \notin Faults, ServerTypeOK, VerdictOK,
           NEW h \in Handlers, Serve(h), pc'[h] = "answered", out'[h] = "ok"
    PROVE  replays'[key[h]] \in Done
<1>m. ASSUME NEW p, NEW o, Move(h, p, o) PROVE p = "answered" /\ o = "ok"
  BY <1>m DEF Move, ServerTypeOK
<1>k. key[h] \in Seqs
  BY DEF ServerTypeOK
<1>1. ~Commits(h)
  BY <1>m DEF Commits, Conclude
<1>2. CASE Judges(h)
  <2>1. replays[key[h]] \in Done
    BY <1>m, <1>2, Words DEF Judges, Goto, Conclude, Answer
  <2> QED BY <1>2, <2>1 DEF Judges, storeVars
<1>3. CASE Record(h)
  <2>1. out[h] \in Verdicts
    BY <1>3 DEF Record, VerdictOK
  <2>2. CASE /\ replays[key[h]] = "none"
             /\ replays' = [replays EXCEPT ![key[h]] =
                              IF out[h] \in Done THEN out[h] ELSE "conflict"]
             /\ \E a \in AnswersFor(out[h]) : Answer(h, a)
    <3>1. PICK a \in AnswersFor(out[h]) : Answer(h, a)
      BY <2>2
    <3>2. out[h] \in Done
      BY <1>m, <2>1, <3>1, AnswersForIs DEF Answer
    <3> QED BY <1>k, <2>2, <3>2 DEF ServerTypeOK
  <2>3. CASE /\ replays[key[h]] # "none"
             /\ Answer(h, StoredAnswer(key[h]))
             /\ UNCHANGED replays
    <3>1. StoredAnswer(key[h]) = "ok"
      BY <1>m, <2>3 DEF Answer
    <3> QED BY <1>k, <2>3, <3>1, StoredAnswerIs
  <2> QED BY <1>3, <2>2, <2>3 DEF Record
<1> QED BY <1>1, <1>2, <1>3, ServeSplits

\* Nobody else says it, and the till repeats it only while the record stands.
LEMMA NextRecord ==
    ASSUME "record_fails" \notin Faults, PathInv, RecordInv, [PathNext]_pathVars
    PROVE  RecordInv'
<1>0. RequestInv /\ ServerTypeOK /\ VerdictOK /\ \A h \in Handlers : key[h] \in Seqs
  BY DEF PathInv, RequestInv, PathTypeOK, ServerTypeOK
<1>1. ASSUME NEW s \in Seqs, row'[s] = "acked" PROVE replays'[s] \in Done
  <2>1. replays[s] \in Done
    BY <1>0, <1>1, AckHeard DEF RecordInv, AckAgreesWithRecord
  <2> QED BY <1>0, <2>1, RecordStays
<1>2. ASSUME NEW g \in Handlers, pc'[g] = "answered", out'[g] = "ok"
      PROVE  replays'[key'[g]] \in Done
  <2>told. ASSUME pc'[g] = pc[g], out'[g] = out[g], key'[g] = key[g]
           PROVE  replays'[key'[g]] \in Done
    BY <1>0, <1>2, <2>told, RecordStays DEF RecordInv
  <2>1. ASSUME NEW h \in Handlers, Serve(h) PROVE replays'[key'[g]] \in Done
    <3>1. HandlerMoved(h)
      BY <1>0, <2>1, ServeTyped
    <3>2. CASE g # h
      BY <2>told, <3>1, <3>2 DEF HandlerMoved
    <3>3. CASE g = h
      BY <1>0, <1>2, <2>1, <3>1, <3>3, OkRecorded DEF HandlerMoved
    <3> QED BY <3>2, <3>3
  <2>2. CASE TillStep \/ GiveUp \/ TillGoesDown \/ UNCHANGED pathVars
    BY <2>told, <2>2 DEF TillStep, GiveUp, TillGoesDown, pathVars, serverVars,
       handlerVars
  <2>3. ASSUME NEW h \in Handlers, NetworkDrops(h) \/ Deliver(h)
        PROVE  replays'[key'[g]] \in Done
    <3>1. pc'[g] = pc[g] /\ out'[g] = out[g] /\ key'[g] = key[g]
      BY <1>0, <1>2, <2>3, FreeTyped DEF NetworkDrops, Deliver, LoseRequest, Respond
    <3> QED BY <2>told, <3>1
  <2>4. ASSUME NEW s \in Seqs, NEW h \in Handlers, Post(s, h)
        PROVE  replays'[key'[g]] \in Done
    <3>1. current \in Tokens
      BY <2>4 DEF Post, Send, getReplayAuth, PathInv, RequestInv, PathTypeOK,
         WorkerTypeOK
    <3>2. pc'[g] = pc[g] /\ out'[g] = out[g] /\ key'[g] = key[g]
      BY <1>0, <1>2, <2>4, <3>1, ReceiveTyped DEF Post
    <3> QED BY <2>told, <3>2
  <2>5. ASSUME Elsewhere PROVE replays'[key'[g]] \in Done
    BY <2>told, <2>5 DEF Elsewhere, Expire, Recall, handlerVars
  <2> QED
    BY <2>1, <2>2, <2>3, <2>4, <2>5 DEF PathNext, ServerStep
<1> QED BY <1>1, <1>2 DEF RecordInv, AckAgreesWithRecord

\* At the start nothing is answered and nothing is acked.
LEMMA InitRecord == PathInit => RecordInv
BY DEF PathInit, ServerInit, WorkerInit, QueueInit, RecordInv, AckAgreesWithRecord

\* Unless the insert into sync_replays fails (it is only logged, and the answer
\* goes out all the same), what the till shows as acked the server has on record.
THEOREM AckedIsOnRecord ==
    ASSUME "record_fails" \notin Faults
    PROVE  PathSpec => []AckAgreesWithRecord
<1>1. PathInv /\ RecordInv /\ [PathNext]_pathVars => RecordInv'
  BY NextRecord
<1>2. RecordInv => AckAgreesWithRecord
  BY DEF RecordInv
<1> QED BY <1>1, <1>2, InitRecord, PathInvariant, PTL DEF PathSpec

-----------------------------------------------------------------------------
(* Which session the till believes refused *)

\* What a step does to a handler that is at work after it.
LEMMA HandlerFate ==
    ASSUME RequestInv, [PathNext]_pathVars, NEW g \in Handlers, pc'[g] # "free"
    PROVE  \/ /\ UNCHANGED <<workerVars, conn>>
              /\ Serve(g) /\ HandlerMoved(g)
           \/ /\ pc'[g] = pc[g] /\ out'[g] = out[g] /\ key'[g] = key[g]
              /\ token'[g] = token[g]
           \/ \E s \in Seqs :
                /\ Post(s, g) /\ pc'[g] = "sent" /\ key'[g] = s
                /\ token'[g] = postToken'
<1>0. ServerTypeOK /\ VerdictOK
  BY DEF RequestInv, PathTypeOK
<1> DEFINE Same == /\ pc'[g] = pc[g] /\ out'[g] = out[g] /\ key'[g] = key[g]
                   /\ token'[g] = token[g]
<1>1. ASSUME NEW h \in Handlers, Serve(h), UNCHANGED <<workerVars, conn>>
      PROVE  Same \/ (Serve(g) /\ HandlerMoved(g))
  BY <1>0, <1>1, ServeTyped DEF HandlerMoved
<1>2. CASE TillStep \/ GiveUp \/ TillGoesDown \/ UNCHANGED pathVars
  BY <1>2 DEF TillStep, GiveUp, TillGoesDown, pathVars, serverVars, handlerVars
<1>3. ASSUME NEW h \in Handlers, NetworkDrops(h) \/ Deliver(h) PROVE Same
  <2>1. Free(h) /\ UNCHANGED <<storeVars, outsideVars>>
    BY <1>3 DEF NetworkDrops, Deliver, LoseRequest, Respond
  <2>2. g # h
    BY <1>0, <2>1, FreeTyped
  <2> QED BY <1>0, <2>1, <2>2, FreeTyped
<1>4. ASSUME NEW s \in Seqs, NEW h \in Handlers, Post(s, h)
      PROVE  Same \/ (/\ Post(s, g) /\ pc'[g] = "sent" /\ key'[g] = s
                      /\ token'[g] = postToken')
  <2>1. current \in Tokens /\ Receive(h, s, current) /\ postToken' = current
    BY <1>4 DEF Post, Send, getReplayAuth, RequestInv, PathTypeOK, WorkerTypeOK
  <2>2. /\ pc'[h] = "sent" /\ key'[h] = s /\ token'[h] = current
        /\ \A f \in Handlers \ {h} :
             /\ pc'[f] = pc[f] /\ out'[f] = out[f] /\ key'[f] = key[f]
             /\ token'[f] = token[f]
    BY <1>0, <2>1, ReceiveTyped
  <2> QED BY <1>4, <2>1, <2>2
<1>5. ASSUME Elsewhere PROVE Same
  BY <1>5 DEF Elsewhere, Expire, Recall, handlerVars
<1> QED
  BY <1>1, <1>2, <1>3, <1>4, <1>5 DEF PathNext, ServerStep

\* A token that ran out stays out.
LEMMA ExpiredStays ==
    ASSUME RequestInv, [PathNext]_pathVars PROVE expired \subseteq expired'
<1>1. ASSUME NEW h \in Handlers, Serve(h) PROVE expired' = expired
  BY <1>1, ServeSplits DEF RequestInv, PathTypeOK, outsideVars
<1>2. CASE TillStep \/ GiveUp \/ TillGoesDown \/ UNCHANGED pathVars
  BY <1>2 DEF TillStep, GiveUp, TillGoesDown, pathVars, serverVars, outsideVars
<1>3. ASSUME NEW h \in Handlers,
             \/ NetworkDrops(h) \/ Deliver(h) \/ \E s \in Seqs : Post(s, h)
      PROVE  expired' = expired
  BY <1>3 DEF NetworkDrops, Deliver, LoseRequest, Respond, Post, Receive, outsideVars
<1>4. ASSUME Elsewhere PROVE expired \subseteq expired'
  BY <1>4 DEF Elsewhere, Expire, Recall
<1> QED BY <1>1, <1>2, <1>3, <1>4 DEF PathNext, ServerStep

\* Where the auth server answers, a handler says 401 of an expired token only.
LEMMA UnauthorizedSaid ==
    ASSUME "auth_unreachable" \notin Faults, ServerTypeOK, VerdictOK,
           NEW h \in Handlers, Serve(h),
           pc'[h] = "answered", out'[h] = "unauthorized"
    PROVE  token[h] \in expired
<1>m. ASSUME NEW p, NEW o, Move(h, p, o)
      PROVE  p = "answered" /\ o = "unauthorized"
  BY <1>m DEF Move, ServerTypeOK
<1>1. ~Record(h)
  <2>1. ASSUME NEW a, Answer(h, a) PROVE a = "unauthorized"
    BY <1>m, <2>1 DEF Answer
  <2>2. ASSUME NEW v \in Verdicts PROVE "unauthorized" \notin AnswersFor(v)
    BY DEF AnswersFor, Verdicts, Done, Denied
  <2>3. StoredAnswer(key[h]) # "unauthorized"
    BY DEF StoredAnswer
  <2>4. ASSUME Record(h) PROVE out[h] \in Verdicts
    BY <2>4 DEF Record, VerdictOK
  <2> QED BY <2>1, <2>2, <2>3, <2>4 DEF Record
<1>2. ~Clear(h) /\ ~NotJudged(h) /\ ~Die(h)
  BY <1>m DEF Clear, NotJudged, Die, Answer, Goto, Conclude
<1>3. ~Dispatch(h) /\ ~RunLocked(h)
  BY <1>m DEF Dispatch, RunLocked, RunClaimed, ReadKey, RunStated, RunGuarded,
     RunAbsolute, ApplyOrDeny, Recognise, Goto, Conclude
<1>4. ~LookUp(h)
  BY <1>m DEF LookUp, Answer, StoredAnswer, Goto
<1>5. CheckCaller(h) => token[h] \in expired
  BY <1>m DEF CheckCaller, Goto, Answer
<1> QED BY <1>1, <1>2, <1>3, <1>4, <1>5 DEF Serve

\* The awaited handler works with the session the till sent, and a session
\* believed refused was expired when the handler looked.
TokenInv ==
    /\ \A h \in Handlers : pc[h] = "answered" /\ out[h] = "unauthorized"
                              => token[h] \in expired
    /\ conn # NoHandler => token[conn] = postToken
    /\ OnlyExpiredTokensRefused

\* The till changes its mind about a session when it hears a 401, from the
\* handler it awaits, or when a new one is pushed or memory is lost.
LEMMA RejectedHeard ==
    ASSUME RequestInv, [PathNext]_pathVars, rejected' # rejected,
           rejected' # NoToken
    PROVE  \E h \in Handlers :
              /\ Deliver(h) /\ h = conn /\ out[h] = "unauthorized"
              /\ rejected' = postToken
<1>1. CASE TillStep
  BY <1>1 DEF TillStep, Enqueue, Resolve, ParkHead, PushAuth, setAuthState, Tick,
     BackoffElapses, EndDrain, Boot, LoseProfile, authVars
<1>2. CASE ServerStep \/ (\E h \in Handlers : NetworkDrops(h)) \/ UNCHANGED pathVars
  BY <1>2 DEF ServerStep, NetworkDrops, workerVars, authVars, pathVars
<1>3. CASE \E s \in Seqs, h \in Handlers : Post(s, h)
  BY <1>3 DEF Post, Send, authVars
<1>4. ASSUME NEW h \in Handlers, Deliver(h)
      PROVE  h = conn /\ out[h] = "unauthorized" /\ rejected' = postToken
  <2>1. h = conn /\ out[h] \in Answers /\ Heard(out[h])
    BY <1>4 DEF Deliver, Respond, RequestInv, VerdictOK
  <2>2. ~HearOk /\ ~HearConflict /\ ~HearRefused /\ ~HearRetry
    BY DEF HearOk, HearConflict, HearRefused, HearRetry, authVars
  <2>3. out[h] = "unauthorized" /\ HearUnauthorized
    BY <2>1, <2>2 DEF Heard, Answers
  <2> QED BY <2>1, <2>3 DEF HearUnauthorized, markTokenRejected
<1>5. CASE GiveUp
  BY <1>5 DEF GiveUp, HearRetry, authVars
<1>6. CASE TillGoesDown
  BY <1>6 DEF TillGoesDown, Stop, PowerCut, loseMemory
<1> QED BY <1>1, <1>2, <1>3, <1>4, <1>5, <1>6 DEF PathNext

\* The awaited session is the one that was sent, as long as it is awaited.
LEMMA PostTokenStays ==
    ASSUME RequestInv, [PathNext]_pathVars, conn' # NoHandler
    PROVE  \/ conn' = conn /\ postToken' = postToken
           \/ \E s \in Seqs : Post(s, conn') /\ conn' \in Handlers
<1>1. CASE TillStep
  BY <1>1 DEF TillStep, Enqueue, Resolve, ParkHead, PushAuth, Tick,
     BackoffElapses, EndDrain, Boot, LoseProfile
<1>2. CASE ServerStep \/ (\E h \in Handlers : NetworkDrops(h)) \/ UNCHANGED pathVars
  BY <1>2 DEF ServerStep, NetworkDrops, workerVars, pathVars
<1>3. ASSUME NEW s \in Seqs, NEW h \in Handlers, Post(s, h)
      PROVE  Post(s, conn') /\ conn' \in Handlers
  BY <1>3 DEF Post
<1>4. ~(\E h \in Handlers : Deliver(h)) /\ ~GiveUp /\ ~TillGoesDown
  BY DEF Deliver, GiveUp, TillGoesDown
<1> QED BY <1>1, <1>2, <1>3, <1>4 DEF PathNext

\* Each step keeps the awaited session known and the refused one expired.
LEMMA NextToken ==
    ASSUME "auth_unreachable" \notin Faults,
           RequestInv, TokenInv, [PathNext]_pathVars
    PROVE  TokenInv'
<1>0. ServerTypeOK /\ VerdictOK /\ ConnOK /\ RequestInv'
  BY NextRequestInv DEF RequestInv, PathTypeOK
<1>1. ASSUME NEW g \in Handlers, pc'[g] = "answered", out'[g] = "unauthorized"
      PROVE  token'[g] \in expired'
  <2>1. CASE Serve(g) /\ HandlerMoved(g)
    BY <1>0, <1>1, <2>1, UnauthorizedSaid, ExpiredStays DEF HandlerMoved
  <2>2. CASE /\ pc'[g] = pc[g] /\ out'[g] = out[g] /\ token'[g] = token[g]
    BY <1>1, <2>2, ExpiredStays DEF TokenInv
  <2> QED BY <1>1, <2>1, <2>2, HandlerFate
<1>2. ASSUME conn' # NoHandler PROVE token'[conn'] = postToken'
  <2>1. conn' \in Handlers /\ pc'[conn'] # "free"
    BY <1>0, <1>2 DEF RequestInv, PathTypeOK, ConnOK
  <2>2. PICK g \in Handlers : g = conn'
    BY <2>1
  <2>3. CASE conn' = conn /\ postToken' = postToken
    <3>1. token[g] = postToken /\ pc[g] # "free"
      BY <1>0, <1>2, <2>2, <2>3 DEF TokenInv, ConnOK
    <3>2. token'[g] = token[g] \/ token'[g] = postToken'
      BY <2>1, <2>2, HandlerFate DEF HandlerMoved
    <3> QED BY <2>2, <2>3, <3>1, <3>2
  <2>4. ASSUME NEW s \in Seqs, Post(s, g) PROVE token'[g] = postToken'
    <3>1. current \in Tokens /\ Receive(g, s, current) /\ postToken' = current
      BY <2>4 DEF Post, Send, getReplayAuth, RequestInv, PathTypeOK, WorkerTypeOK
    <3> QED BY <1>0, <3>1, ReceiveTyped
  <2> QED BY <1>2, <2>2, <2>3, <2>4, PostTokenStays
<1>3. ASSUME rejected' # NoToken PROVE rejected' \in expired'
  <2>1. CASE rejected' = rejected
    BY <1>3, <2>1, ExpiredStays DEF TokenInv, OnlyExpiredTokensRefused
  <2>2. CASE rejected' # rejected
    <3>1. PICK h \in Handlers : /\ Deliver(h) /\ h = conn
                                /\ out[h] = "unauthorized" /\ rejected' = postToken
      BY <1>3, <2>2, RejectedHeard
    <3>2. pc[h] = "answered" /\ h # NoHandler
      BY <3>1, ServerAssumption DEF Deliver, Respond
    <3> QED BY <3>1, <3>2, ExpiredStays DEF TokenInv
  <2> QED BY <2>1, <2>2
<1> QED BY <1>1, <1>2, <1>3 DEF TokenInv, OnlyExpiredTokensRefused

\* Unless the auth server cannot be reached (which reads as a bad token), the
\* till stops using a session only when that session ran out: never a good
\* one because an older one's 401 came late.
THEOREM OnlyExpiredAreRefused ==
    ASSUME "auth_unreachable" \notin Faults
    PROVE  PathSpec => []OnlyExpiredTokensRefused
<1>1. PathInit => TokenInv
  BY DEF PathInit, ServerInit, WorkerInit, TokenInv, OnlyExpiredTokensRefused
<1>2. PathInv /\ TokenInv /\ [PathNext]_pathVars => TokenInv'
  BY NextToken DEF PathInv
<1>3. TokenInv => OnlyExpiredTokensRefused
  BY DEF TokenInv
<1> QED BY <1>1, <1>2, <1>3, PathInvariant, PTL DEF PathSpec

-----------------------------------------------------------------------------
(* Where a refusal is the last word *)

\* One attempt at a time, none cut off between the commit and the record, no
\* refusal that comes before the look at the record, no row that turns
\* unreadable.  (The till's own queue is that serial; a zombie attempt is not.)
Serial == /\ \A g, h \in Handlers : g = h
          /\ Faults \cap {"die", "record_fails", "staff_inactive"} = {}
          /\ ~KeyMayBeLost

Judging == {"new", "cleared", "missed"}
Refusals == {"clash", "denied", "orphan", "prior_conflict"}

\* A handler that looked and found no record works on a write that is not in
\* effect, until it commits it itself; and it refuses no other.
Knows(h) == /\ pc[h] \in Judging \cup {"recording"} => replays[key[h]] = "none"
            /\ pc[h] \in Judging => ~InEffect(key[h])
            /\ pc[h] = "recording" /\ out[h] \in Denied => ~InEffect(key[h])
            /\ pc[h] = "answered" /\ out[h] \in Refusals => ~InEffect(key[h])

\* A write in effect is on record, or about to be.
Remembered(k) == \/ replays[k] \in Done
                 \/ \E h \in Handlers : /\ pc[h] = "recording"
                                        /\ key[h] = k /\ out[h] \in Done

StoreInv == /\ \A h \in Handlers : Knows(h)
            /\ \A k \in Seqs : /\ effects[k] < 2
                               /\ replays[k] = "conflict" => ~InEffect(k)
                               /\ InEffect(k) => Remembered(k)

\* An attempt is made at an open row, and the till can read every row.
RowInv == /\ \A h \in Handlers : pc[h] # "free" => row[key[h]] \in Open
          /\ \A s \in Seqs : row[s] # "absent" => s \in readable
          /\ RefusalTruthful

SerialInv == StoreInv /\ RowInv

\* A handler's step that leaves the store alone keeps what it knows, if it was
\* not yet to record and does not conclude more than it knows.
LEMMA StoreKept ==
    ASSUME Serial, ServerTypeOK, StoreInv, NEW h \in Handlers,
           UNCHANGED storeVars, key' = key, pc[h] # "recording", Knows(h)'
    PROVE  StoreInv'
<1>1. \A g \in Handlers : g = h
  BY DEF Serial
<1>2. ASSUME NEW k \in Seqs
      PROVE  /\ effects'[k] < 2
             /\ replays'[k] = "conflict" => ~InEffect(k)'
             /\ InEffect(k)' => Remembered(k)'
  <2>1. InEffect(k) => replays[k] \in Done
    BY <1>1 DEF StoreInv, Remembered
  <2>2. InEffect(k)' <=> InEffect(k)
    BY DEF InEffect, storeVars
  <2> QED BY <2>1, <2>2 DEF StoreInv, Remembered, storeVars
<1>3. ASSUME NEW g \in Handlers PROVE Knows(g)'
  <2>1. g = h
    BY <1>1
  <2> QED BY <2>1
<1> QED BY <1>2, <1>3 DEF StoreInv

\* What the handler knows after a step that leaves its write as it was.
LEMMA KnowsMoved ==
    ASSUME ServerTypeOK, NEW h \in Handlers, NEW p, NEW o, Move(h, p, o),
           UNCHANGED storeVars,
           p \in Judging \cup {"recording"} => replays[key[h]] = "none",
           \/ ~InEffect(key[h])
           \/ p \notin Judging \cup {"recording", "answered"}
           \/ p = "answered" /\ o \notin Refusals
    PROVE  Knows(h)' /\ key' = key
<1>1. pc'[h] = p /\ out'[h] = o /\ key' = key /\ replays' = replays
      /\ effects' = effects
  BY DEF Move, ServerTypeOK, storeVars
<1> QED BY <1>1 DEF Knows, InEffect, Judging

\* A step that reads: the store stays, and what is concluded follows from what
\* was known or from what was just read.
LEMMA ReadsKeepStore ==
    ASSUME Serial, ServerTypeOK, StoreInv, NEW h \in Handlers,
           \/ CheckCaller(h) \/ LookUp(h) \/ Clear(h) \/ NotJudged(h)
    PROVE  StoreInv'
<1> DEFINE k == key[h]
<1>0. k \in Seqs /\ Knows(h)
  BY DEF ServerTypeOK, StoreInv
<1>1. CASE CheckCaller(h)
  <2>1. /\ UNCHANGED storeVars /\ pc[h] = "sent"
        /\ Move(h, "answered", "unauthorized") \/ Move(h, "known", NoOut)
    BY <1>1 DEF CheckCaller, Answer, Goto, Serial
  <2>2. Knows(h)' /\ key' = key
    BY <2>1, KnowsMoved DEF Judging, Refusals
  <2> QED BY <2>1, <2>2, StoreKept
<1>2. CASE LookUp(h)
  <2>1. UNCHANGED storeVars /\ pc[h] = "known"
    BY <1>2 DEF LookUp
  <2>2. InEffect(k) => replays[k] \in Done
    <3>1. \A g \in Handlers : g = h
      BY DEF Serial
    <3> QED BY <1>0, <2>1, <3>1 DEF StoreInv, Remembered
  <2>3. CASE replays[k] # "none"
    <3>1. Move(h, "answered", StoredAnswer(k))
      BY <1>2, <2>3 DEF LookUp, Answer
    <3>2. StoredAnswer(k) \in Refusals => ~InEffect(k)
      BY <1>0 DEF StoredAnswer, Refusals, StoreInv
    <3>3. Knows(h)' /\ key' = key
      BY <2>1, <3>1, <3>2, KnowsMoved DEF Judging
    <3> QED BY <2>1, <3>3, StoreKept
  <2>4. CASE replays[k] = "none"
    <3>1. Move(h, "answered", "orphan") \/ Move(h, "new", NoOut)
      BY <1>2, <2>4 DEF LookUp, Answer, Goto
    <3>2. ~InEffect(k)
      BY <2>2, <2>4 DEF Done
    <3>3. Knows(h)' /\ key' = key
      BY <2>1, <2>4, <3>1, <3>2, KnowsMoved
    <3> QED BY <2>1, <3>3, StoreKept
  <2> QED BY <2>3, <2>4
<1>3. CASE Clear(h)
  <2>1. /\ UNCHANGED storeVars /\ pc[h] = "new"
        /\ Move(h, "cleared", NoOut) \/ Move(h, "recording", "denied")
    BY <1>3 DEF Clear, Goto, Conclude
  <2>2. replays[k] = "none" /\ ~InEffect(k)
    BY <1>0, <2>1 DEF Knows, Judging
  <2>3. Knows(h)' /\ key' = key
    BY <2>1, <2>2, KnowsMoved
  <2> QED BY <2>1, <2>3, StoreKept
<1>4. CASE NotJudged(h)
  <2>1. /\ UNCHANGED storeVars /\ pc[h] # "recording"
        /\ Move(h, "answered", "retry")
    BY <1>4 DEF NotJudged, Answer
  <2>2. Knows(h)' /\ key' = key
    BY <2>1, KnowsMoved DEF Judging, Refusals
  <2> QED BY <2>1, <2>2, StoreKept
<1> QED BY <1>1, <1>2, <1>3, <1>4

\* The RPC finds its write as the look-up left it: it commits for the first
\* time, or refuses what is not in effect, whatever its kind.
LEMMA RpcKeepsStore ==
    ASSUME Serial, ServerTypeOK, VerdictOK, StoreInv, NEW h \in Handlers,
           Dispatch(h) \/ RunLocked(h)
    PROVE  StoreInv'
<1> DEFINE k == key[h]
<1>0. k \in Seqs /\ \A g \in Handlers : g = h
  BY DEF ServerTypeOK, Serial
<1>1. pc[h] \in {"cleared", "missed"}
  BY DEF Dispatch, RunLocked
<1>2. replays[k] = "none" /\ ~InEffect(k)
  BY <1>1 DEF StoreInv, Knows, Judging
<1>3. \/ \E v \in Done : TakeEffect(k, Owner[token[h]]) /\ Conclude(h, v)
      \/ \E v \in Denied : Conclude(h, v) /\ UNCHANGED storeVars
      \/ Goto(h, "missed") /\ UNCHANGED storeVars
  BY <1>2 DEF Dispatch, RunLocked, RunClaimed, ReadKey, RunStated, RunGuarded,
     RunAbsolute, ApplyOrDeny, Done
<1>4. ASSUME NEW v \in Done, TakeEffect(k, Owner[token[h]]), Conclude(h, v)
      PROVE  StoreInv'
  <2>1. Owner[token[h]] \in Staff
    BY <1>1 DEF VerdictOK, Staff
  <2>2. /\ replays' = replays /\ effects'[k] = 1
        /\ \A j \in Seqs : j # k => effects'[j] = effects[j]
    BY <1>0, <1>2, <1>4, <2>1, TakeEffectTyped
  <2>3. pc'[h] = "recording" /\ out'[h] = v /\ key' = key /\ v \notin Denied
    BY <1>4 DEF Conclude, Move, ServerTypeOK, Done, Denied
  <2>4. Knows(h)'
    BY <1>2, <2>2, <2>3 DEF Knows, Judging
  <2>5. ASSUME NEW j \in Seqs
        PROVE  /\ effects'[j] < 2
               /\ replays'[j] = "conflict" => ~InEffect(j)'
               /\ InEffect(j)' => Remembered(j)'
    <3>1. CASE j = k
      BY <1>2, <1>4, <2>2, <2>3, <3>1 DEF Remembered
    <3>2. CASE j # k
      <4>1. InEffect(j)' <=> InEffect(j)
        BY <2>2, <3>2 DEF InEffect
      <4>2. InEffect(j) => replays[j] \in Done
        BY <1>0, <1>1 DEF StoreInv, Remembered
      <4> QED BY <2>2, <3>2, <4>1, <4>2 DEF StoreInv, Remembered
    <3> QED BY <3>1, <3>2
  <2> QED BY <1>0, <2>4, <2>5 DEF StoreInv
<1>5. ASSUME NEW p, NEW o, Move(h, p, o), UNCHANGED storeVars PROVE StoreInv'
  <2>1. Knows(h)' /\ key' = key
    BY <1>2, <1>5, KnowsMoved
  <2> QED BY <1>1, <1>5, <2>1, StoreKept
<1> QED BY <1>3, <1>4, <1>5 DEF Conclude, Goto

\* The record repeats the verdict, and so does the answer.
LEMMA RecordKeepsStore ==
    ASSUME Serial, ServerTypeOK, VerdictOK, StoreInv, NEW h \in Handlers,
           Record(h)
    PROVE  StoreInv'
<1> DEFINE k == key[h]
           v == out[h]
<1>0. /\ k \in Seqs /\ \A g \in Handlers : g = h
      /\ v \in Verdicts /\ pc[h] = "recording" /\ effects' = effects
  BY DEF ServerTypeOK, VerdictOK, Record, Serial
<1>1. replays[k] = "none" /\ (v \in Denied => ~InEffect(k))
  BY <1>0 DEF StoreInv, Knows
<1>2. /\ replays' = [replays EXCEPT ![k] = IF v \in Done THEN v ELSE "conflict"]
      /\ \E a \in AnswersFor(v) : Answer(h, a)
  BY <1>1 DEF Record, Serial
<1>3. PICK a \in AnswersFor(v) : Answer(h, a)
  BY <1>2
<1>4. v \notin Denied => a \notin Refusals
  BY <1>0 DEF Verdicts, Done, Denied, AnswersFor, Refusals
<1>5. pc'[h] = "answered" /\ out'[h] = a /\ key' = key
  BY <1>3 DEF Answer, Move, ServerTypeOK
<1>6. Knows(h)'
  BY <1>0, <1>1, <1>4, <1>5 DEF Knows, Judging, InEffect
<1>7. /\ replays'[k] = IF v \in Done THEN v ELSE "conflict"
      /\ \A j \in Seqs : j # k => replays'[j] = replays[j]
  BY <1>0, <1>2 DEF ServerTypeOK
<1>8. ASSUME NEW j \in Seqs
      PROVE  /\ effects'[j] < 2
             /\ replays'[j] = "conflict" => ~InEffect(j)'
             /\ InEffect(j)' => Remembered(j)'
  <2>1. InEffect(j)' <=> InEffect(j)
    BY <1>0 DEF InEffect
  <2>2. CASE j = k
    <3>1. CASE v \in Done
      BY <1>0, <1>7, <2>2, <3>1 DEF StoreInv, Remembered, Done
    <3>2. CASE v \in Denied
      BY <1>0, <1>1, <2>1, <2>2, <3>2 DEF StoreInv
    <3> QED BY <1>0, <3>1, <3>2 DEF Verdicts
  <2>3. CASE j # k
    <3>1. InEffect(j) => replays[j] \in Done
      BY <1>0, <2>3 DEF StoreInv, Remembered
    <3> QED BY <1>0, <1>7, <2>1, <2>3, <3>1 DEF StoreInv, Remembered
  <2> QED BY <2>2, <2>3
<1> QED BY <1>0, <1>6, <1>8 DEF StoreInv

\* A handler is freed before it works, or after it answered.
LEMMA FreedEarlyOrLate ==
    ASSUME RequestInv, [PathNext]_pathVars, NEW g \in Handlers,
           pc[g] = "recording"
    PROVE  pc'[g] # "free"
<1>0. ServerTypeOK /\ VerdictOK
  BY DEF RequestInv, PathTypeOK
<1>1. ASSUME NEW h \in Handlers, Serve(h) PROVE pc'[g] # "free"
  BY <1>0, <1>1, ServeTyped DEF HandlerMoved
<1>2. CASE TillStep \/ GiveUp \/ TillGoesDown \/ UNCHANGED pathVars
  BY <1>2 DEF TillStep, GiveUp, TillGoesDown, pathVars, serverVars, handlerVars
<1>3. ASSUME NEW h \in Handlers, NetworkDrops(h) \/ Deliver(h)
      PROVE  pc'[g] # "free"
  <2>1. /\ Free(h) /\ UNCHANGED <<storeVars, outsideVars>>
        /\ pc[h] \in {"sent", "answered"}
    BY <1>3 DEF NetworkDrops, Deliver, LoseRequest, Respond
  <2> QED BY <1>0, <2>1, FreeTyped
<1>4. ASSUME NEW s \in Seqs, NEW h \in Handlers, Post(s, h)
      PROVE  pc'[g] # "free"
  <2>1. current \in Tokens /\ Receive(h, s, current)
    BY <1>4 DEF Post, Send, getReplayAuth, RequestInv, PathTypeOK, WorkerTypeOK
  <2>2. pc'[h] = "sent" /\ \A f \in Handlers \ {h} : pc'[f] = pc[f]
    BY <1>0, <2>1, ReceiveTyped
  <2> QED BY <2>2
<1>5. ASSUME Elsewhere PROVE pc'[g] # "free"
  BY <1>5 DEF Elsewhere, Expire, Recall, handlerVars
<1> QED BY <1>1, <1>2, <1>3, <1>4, <1>5 DEF PathNext, ServerStep

\* Only handlers at work change the store, and what they know of it.
LEMMA NextStore ==
    ASSUME Serial, RequestInv, StoreInv, [PathNext]_pathVars
    PROVE  StoreInv'
<1>0. ServerTypeOK /\ VerdictOK
  BY DEF RequestInv, PathTypeOK
<1>1. ASSUME NEW h \in Handlers, Serve(h) PROVE StoreInv'
  <2>1. ~Die(h)
    BY DEF Die, Serial
  <2> QED BY <1>0, <1>1, <2>1, ReadsKeepStore, RpcKeepsStore, RecordKeepsStore
          DEF Serve
<1>2. ASSUME \A h \in Handlers : ~Serve(h) PROVE StoreInv'
  <2>1. UNCHANGED storeVars
    <3>1. CASE TillStep \/ GiveUp \/ TillGoesDown \/ UNCHANGED pathVars
      BY <3>1 DEF TillStep, GiveUp, TillGoesDown, pathVars, serverVars
    <3>2. ASSUME NEW h \in Handlers, NetworkDrops(h) \/ Deliver(h)
          PROVE  UNCHANGED storeVars
      BY <3>2 DEF NetworkDrops, Deliver, LoseRequest, Respond
    <3>3. ASSUME NEW s \in Seqs, NEW h \in Handlers, Post(s, h)
          PROVE  UNCHANGED storeVars
      BY <3>3 DEF Post, Receive
    <3>4. ASSUME Elsewhere PROVE UNCHANGED storeVars
      BY <3>4 DEF Elsewhere, Expire, Recall
    <3> QED BY <1>2, <3>1, <3>2, <3>3, <3>4 DEF PathNext, ServerStep
  <2>2. ASSUME NEW g \in Handlers, pc'[g] # "free"
        PROVE  \/ pc'[g] = pc[g] /\ out'[g] = out[g] /\ key'[g] = key[g]
               \/ pc'[g] = "sent" /\ pc[g] = "free"
    BY <1>2, <2>2, HandlerFate DEF Post, Receive
  <2>3. ASSUME NEW g \in Handlers PROVE Knows(g)'
    <3>1. CASE pc'[g] \in {"free", "sent"}
      BY <3>1 DEF Knows, Judging
    <3>2. CASE pc'[g] = pc[g] /\ out'[g] = out[g] /\ key'[g] = key[g]
      BY <2>1, <3>2 DEF StoreInv, Knows, InEffect, storeVars
    <3> QED BY <2>2, <3>1, <3>2
  <2>4. ASSUME NEW k \in Seqs, Remembered(k) PROVE Remembered(k)'
    <3>1. ASSUME NEW g \in Handlers, pc[g] = "recording"
          PROVE  pc'[g] = "recording" /\ out'[g] = out[g] /\ key'[g] = key[g]
      BY <2>2, <3>1, FreedEarlyOrLate
    <3> QED BY <2>1, <2>4, <3>1 DEF Remembered, storeVars
  <2> QED BY <2>1, <2>3, <2>4 DEF StoreInv, InEffect, storeVars
<1> QED BY <1>1, <1>2

\* A write comes into effect by the hand of its handler, the till looking on.
LEMMA NewEffect ==
    ASSUME RequestInv, [PathNext]_pathVars,
           NEW j \in Seqs, InEffect(j)', ~InEffect(j)
    PROVE  /\ \E h \in Handlers : pc[h] # "free" /\ key[h] = j
           /\ row' = row
<1>0. ServerTypeOK /\ VerdictOK
  BY DEF RequestInv, PathTypeOK
<1>1. ASSUME NEW h \in Handlers, Commits(h), UNCHANGED workerVars
      PROVE  pc[h] # "free" /\ key[h] = j /\ row' = row
  <2>1. Owner[token[h]] \in Staff /\ pc[h] # "free" /\ key[h] \in Seqs
    BY <1>0, <1>1 DEF Commits, VerdictOK, Staff, ServerTypeOK
  <2>2. key[h] = j
    BY <1>0, <1>1, <2>1, TakeEffectTyped DEF Commits, InEffect
  <2> QED BY <1>1, <2>1, <2>2 DEF workerVars, queueVars
<1>2. ASSUME NEW h \in Handlers, Record(h) PROVE FALSE
  BY <1>2 DEF Record, InEffect
<1>3. ASSUME UNCHANGED storeVars PROVE FALSE
  BY <1>3 DEF storeVars, InEffect
<1> QED BY <1>1, <1>2, <1>3, StoreMoves

\* The handler's answer judges the row it carries.
JudgedBy(h, s) == /\ Deliver(h) /\ key[h] = s
                  /\ \/ out[h] = "ok" /\ row'[s] = "acked"
                     \/ out[h] \in Refusals /\ row'[s] \in Refused

\* What becomes of a row, where every row is readable: it is queued, stays open,
\* is dismissed, or is judged by the answer of the handler that carries it.
LEMMA RowFate ==
    ASSUME RequestInv, ~KeyMayBeLost, [PathNext]_pathVars,
           \A t \in Seqs : row[t] # "absent" => t \in readable,
           NEW s \in Seqs
    PROVE  /\ \/ row'[s] = row[s]
              \/ row'[s] \in Open /\ row[s] \in Open \cup {"absent"}
              \/ row'[s] = "resolved" /\ row[s] \in Refused
              \/ \E h \in Handlers : JudgedBy(h, s)
           /\ row'[s] # "absent" => s \in readable'
<1> USE RowStates
<1>0. WorkerTypeOK
  BY DEF RequestInv, PathTypeOK
<1>post. post # NoPost => post \in Seqs /\ row[post] = "inflight"
  BY <1>0 DEF WorkerTypeOK, RequestInv, QueueInv, InflightIsHead
<1> DEFINE Fate == \/ row'[s] = row[s]
                   \/ row'[s] \in Open /\ row[s] \in Open \cup {"absent"}
                   \/ row'[s] = "resolved" /\ row[s] \in Refused
                   \/ \E h \in Handlers : JudgedBy(h, s)
           Seen == row'[s] # "absent" => s \in readable'
<1>same. ASSUME UNCHANGED queueVars PROVE Fate /\ Seen
  BY <1>same DEF queueVars
<1>back. ASSUME post # NoPost, releaseToPending(post) PROVE Fate /\ Seen
  <2>1. row'[post] = "pending" /\ \A t \in Seqs : t # post => row'[t] = row[t]
    BY <1>0, <1>back, <1>post, SetRow DEF releaseToPending
  <2> QED BY <1>back, <1>post, <2>1 DEF releaseToPending, Open
<1>1. CASE TillStep
  <2>1. ASSUME NEW t \in Seqs, Enqueue(t) PROVE Fate /\ Seen
    <3>1. /\ row[t] = "absent" /\ row'[t] = "pending"
          /\ \A r \in Seqs : r # t => row'[r] = row[r]
          /\ readable' = readable \cup {t}
      BY <1>0, <2>1, SetRow DEF Enqueue, enqueue, IsNew
    <3> QED BY <3>1 DEF Open
  <2>2. ASSUME NEW t \in Seqs, Resolve(t) PROVE Fate /\ Seen
    <3>1. /\ row[t] \in Refused /\ row'[t] = "resolved"
          /\ \A r \in Seqs : r # t => row'[r] = row[r]
          /\ readable' = readable
      BY <1>0, <2>2, SetRow DEF Resolve, resolveRow
    <3> QED BY <3>1 DEF Refused
  <2>3. ASSUME NEW t \in Seqs, ParkHead(t) PROVE FALSE
    BY <2>3 DEF ParkHead, parkUnreadable, IsHead, Open
  <2>4. CASE (\E t \in Tokens \cup {NoToken} : PushAuth(t)) \/ Tick
             \/ BackoffElapses \/ EndDrain \/ Boot
    BY <1>same, <2>4 DEF PushAuth, Tick, BackoffElapses, EndDrain, Boot
  <2> QED BY <1>1, <2>1, <2>2, <2>3, <2>4 DEF TillStep
<1>2. CASE ServerStep \/ (\E h \in Handlers : NetworkDrops(h)) \/ UNCHANGED pathVars
  BY <1>same, <1>2 DEF ServerStep, NetworkDrops, workerVars, pathVars
<1>3. ASSUME NEW t \in Seqs, NEW h \in Handlers, Post(t, h) PROVE Fate /\ Seen
  <2>1. /\ row[t] \in Open /\ row'[t] = "inflight"
        /\ \A r \in Seqs : r # t => row'[r] = row[r]
        /\ readable' = readable /\ t \in readable
    BY <1>0, <1>3, SetRow DEF Post, Send, peeked, IsHead, markInflight
  <2> QED BY <2>1 DEF Open
<1>4. ASSUME NEW h \in Handlers, Deliver(h) PROVE Fate /\ Seen
  <2>1. /\ pc[h] = "answered" /\ h = conn /\ Heard(out[h]) /\ out[h] \in Answers
        /\ h # NoHandler
    BY <1>4, ServerAssumption DEF Deliver, Respond, RequestInv, VerdictOK
  <2>2. post # NoPost /\ key[h] = post /\ post \in Seqs /\ row[post] = "inflight"
    BY <1>post, <2>1 DEF RequestInv, ConnOK
  <2>set. ASSUME NEW st \in RowState, SetState(post, st), UNCHANGED readable,
                 st # "absent",
                 (out[h] = "ok" /\ st = "acked")
                   \/ (out[h] \in Refusals /\ st \in Refused)
          PROVE  Fate /\ Seen
    <3>1. row'[post] = st /\ \A t \in Seqs : t # post => row'[t] = row[t]
      BY <1>0, <2>2, <2>set, SetRow
    <3>2. s = post => JudgedBy(h, s)
      BY <1>4, <2>2, <2>set, <3>1 DEF JudgedBy
    <3> QED BY <2>2, <2>set, <3>1, <3>2
  <2>3. CASE out[h] = "ok"
    <3>1. HearOk
      BY <2>1, <2>3 DEF Heard
    <3> QED BY <2>3, <2>set, <3>1 DEF HearOk, ack
  <2>4. CASE out[h] \in {"clash", "prior_conflict"}
    <3>1. HearConflict
      BY <2>1, <2>4 DEF Heard
    <3> QED BY <2>4, <2>set, <3>1 DEF HearConflict, markConflict, Refusals, Refused
  <2>5. CASE out[h] \in {"denied", "orphan"}
    <3>1. HearRefused
      BY <2>1, <2>5 DEF Heard
    <3> QED BY <2>5, <2>set, <3>1 DEF HearRefused, markFailed, Refusals, Refused
  <2>6. CASE out[h] = "retry" \/ out[h] = "unauthorized"
    <3>1. HearRetry \/ HearUnauthorized
      BY <2>1, <2>6 DEF Heard
    <3> QED BY <1>back, <2>2, <3>1 DEF HearRetry, HearUnauthorized
  <2> QED BY <2>1, <2>3, <2>4, <2>5, <2>6 DEF Answers
<1>5. CASE GiveUp
  BY <1>back, <1>5 DEF GiveUp, HearRetry, Settled
<1>6. CASE TillGoesDown
  BY <1>back, <1>same, <1>6 DEF TillGoesDown, Stop, PowerCut
<1> QED BY <1>1, <1>2, <1>3, <1>4, <1>5, <1>6 DEF PathNext

\* The till tells of refusals only what a handler knew, and no commit comes
\* after: whoever could commit works on an open row.
LEMMA NextRows ==
    ASSUME Serial, RequestInv, SerialInv, [PathNext]_pathVars
    PROVE  RowInv'
<1>0. /\ ServerTypeOK /\ ~KeyMayBeLost /\ \A g, h \in Handlers : g = h
      /\ \A t \in Seqs : row[t] # "absent" => t \in readable
      /\ \A h \in Handlers : pc[h] # "free" => row[key[h]] \in Open
      /\ \A h \in Handlers : key[h] \in Seqs
  BY DEF RequestInv, PathTypeOK, ServerTypeOK, Serial, SerialInv, RowInv
<1>w. WorkerTypeOK
  BY DEF RequestInv, PathTypeOK
<1>judged. ASSUME NEW h \in Handlers, NEW s \in Seqs, JudgedBy(h, s)
           PROVE  pc[h] = "answered" /\ pc'[h] = "free" /\ UNCHANGED storeVars
  BY <1>0, <1>judged DEF JudgedBy, Deliver, Respond, Free, ServerTypeOK
<1>1. ASSUME NEW g \in Handlers, pc'[g] # "free" PROVE row'[key'[g]] \in Open
  <2>1. CASE UNCHANGED workerVars /\ HandlerMoved(g)
    BY <1>0, <2>1 DEF HandlerMoved, workerVars, queueVars
  <2>2. CASE pc'[g] = pc[g] /\ key'[g] = key[g]
    <3>1. PICK s \in Seqs : s = key[g]
      BY <1>0
    <3>2. row[s] \in Open
      BY <1>0, <1>1, <2>2, <3>1
    <3>3. ~\E h \in Handlers : JudgedBy(h, s)
      BY <1>0, <1>1, <1>judged
    <3>4. row'[s] \in Open
      BY <1>0, <3>2, <3>3, RowFate DEF Open, Refused
    <3> QED BY <2>2, <3>1, <3>4
  <2>3. ASSUME NEW s \in Seqs, Post(s, g), key'[g] = s PROVE row'[key'[g]] \in Open
    <3>1. row'[s] = "inflight"
      BY <1>w, <2>3, SetRow, RowStates DEF Post, Send, markInflight
    <3> QED BY <2>3, <3>1 DEF Open
  <2> QED BY <1>1, <2>1, <2>2, <2>3, HandlerFate
<1>2. ASSUME NEW s \in Seqs, row'[s] \in Refused \cup {"resolved"}
      PROVE  ~InEffect(s)'
  <2>1. CASE row'[s] = row[s] \/ row[s] \in Refused
    <3>1. row[s] \in Refused \cup {"resolved"}
      BY <1>2, <2>1
    <3>2. ~InEffect(s)
      BY <3>1 DEF SerialInv, RowInv, RefusalTruthful
    <3>3. row[s] \notin Open
      BY <3>1 DEF Refused, Open
    <3> QED BY <1>0, <3>2, <3>3, NewEffect
  <2>2. ASSUME NEW h \in Handlers, JudgedBy(h, s) PROVE ~InEffect(s)'
    <3>1. out[h] \in Refusals /\ key[h] = s
      BY <1>2, <2>2 DEF JudgedBy, Refused
    <3>2. ~InEffect(s)
      BY <1>judged, <2>2, <3>1 DEF SerialInv, StoreInv, Knows
    <3> QED BY <1>judged, <2>2, <3>2 DEF InEffect, storeVars
  <2>3. row'[s] \notin Open
    BY <1>2 DEF Refused, Open
  <2> QED BY <1>0, <2>1, <2>2, <2>3, RowFate
<1>3. ASSUME NEW s \in Seqs, row'[s] # "absent" PROVE s \in readable'
  BY <1>0, <1>3, RowFate
<1> QED BY <1>1, <1>2, <1>3 DEF RowInv, RefusalTruthful

\* It holds from the start.
LEMMA InitSerial == PathInit => SerialInv
BY DEF PathInit, ServerInit, WorkerInit, QueueInit, SerialInv, StoreInv, RowInv,
   Knows, Judging, InEffect, RefusalTruthful, Refused

\* One attempt at a time, what the till shows as refused, or a manager dismissed,
\* is not in the database, also where the RPC has no key at all.
THEOREM RefusalIsTrue ==
    ASSUME Serial
    PROVE  PathSpec => []RefusalTruthful
<1>1. PathInv /\ SerialInv /\ [PathNext]_pathVars => SerialInv'
  BY NextStore, NextRows DEF PathInv, SerialInv
<1>2. SerialInv => RefusalTruthful
  BY DEF SerialInv, RowInv
<1> QED BY <1>1, <1>2, InitSerial, PathInvariant, PTL DEF PathSpec

\* There, sending a write again is as safe as peekNext takes it to be: no attempt
\* at a write in effect ends in a refusal, also for the RPCs that have no key.
THEOREM ResendsAreSafe ==
    ASSUME Serial
    PROVE  PathSpec => []ResendIsSafe
<1>1. PathInv /\ SerialInv /\ [PathNext]_pathVars => SerialInv'
  BY NextStore, NextRows DEF PathInv, SerialInv
<1>2. PathInv /\ SerialInv => ResendIsSafe
  BY DEF PathInv, RequestInv, VerdictOK, SerialInv, StoreInv, Knows, ResendIsSafe,
     Verdicts
<1> QED BY <1>1, <1>2, InitSerial, PathInvariant, PTL DEF PathSpec

\* And it applies no write twice, move and extend included.
THEOREM SerialAppliesOnce ==
    ASSUME Serial
    PROVE  PathSpec => []AppliedAtMostOnce
<1>1. PathInv /\ SerialInv /\ [PathNext]_pathVars => SerialInv'
  BY NextStore, NextRows DEF PathInv, SerialInv
<1>2. SerialInv => AppliedAtMostOnce
  BY DEF SerialInv, StoreInv, AppliedAtMostOnce
<1> QED BY <1>1, <1>2, InitSerial, PathInvariant, PTL DEF PathSpec

-----------------------------------------------------------------------------
(* The write path implements DurableWrites *)

\* What the till shows, state by state.
LEMMA ShownIs ==
    /\ Shown("absent") = "none"
    /\ Shown("pending") = "queued" /\ Shown("inflight") = "queued"
    /\ Shown("acked") = "delivered"
    /\ Shown("conflict") = "refused" /\ Shown("failed") = "refused"
    /\ Shown("resolved") = "dismissed"
BY DEF Shown, Open, Refused

\* One statement changes what is shown of one row.
LEMMA ShownSet ==
    ASSUME WorkerTypeOK, NEW s \in Seqs, NEW st \in RowState, SetState(s, st)
    PROVE  shownState' = [shownState EXCEPT ![s] = Shown(st)]
<1>1. \A t \in Seqs : Shown(row'[t]) = IF t = s THEN Shown(st) ELSE Shown(row[t])
  BY SetRow
<1> QED BY <1>1 DEF shownState

\* A row that is past shows neither nothing nor a queued write.
LEMMA PastShown ==
    ASSUME WorkerTypeOK, NEW s \in Seqs, Past(s)
    PROVE  shownState[s] \notin {"none", "queued"}
<1>1. row[s] \in {"acked", "resolved", "conflict", "failed"}
  BY DEF Past, WorkerTypeOK, QueueTypeOK, RowState, Blocking, Refused
<1> QED BY <1>1, ShownIs DEF shownState

\* It is a write's turn when all before it are past.
LEMMA BehindIsTurn ==
    ASSUME WorkerTypeOK, NEW s \in Seqs, Behind(s) PROVE Durable!ItsTurn(s)
BY PastShown DEF Behind, Durable!ItsTurn

\* The head is behind judged rows only.
LEMMA HeadBehind ==
    ASSUME QueueInv, NEW s \in Seqs, IsHead(s)
    PROVE  Behind(s) /\ row[s] \in Open
BY MaxRowsAssumption DEF QueueInv, Behind, Past, IsHead, Contiguous, Open, Seqs

\* The rows in their first state, the effects at none.
LEMMA InitImplements == PathInit => Durable!DurableInit
BY ShownIs DEF PathInit, WorkerInit, QueueInit, ServerInit, Durable!DurableInit,
   shownState

\* Each step of the path is one step of the promise, or none: where no write is
\* committed twice, the till's words are the promise's.
LEMMA StepImplements ==
    ASSUME \A k \in Seqs : effects[k] < 2,
           \A h \in Handlers : Commits(h) => ~InEffect(key[h]),
           PathInv, OrderInv, [PathNext]_pathVars
    PROVE  Durable!DurableNext \/ UNCHANGED Durable!durableVars
<1> USE RowStates
<1>0. /\ RequestInv /\ WorkerTypeOK /\ QueueInv /\ ServerTypeOK /\ VerdictOK
      /\ WorkerNext \/ UNCHANGED workerVars
  BY NextRequestInv DEF PathInv, RequestInv, PathTypeOK
<1>next. ASSUME NEW w \in Seqs,
                \/ Durable!Queue(w) \/ Durable!TakesEffect(w)
                \/ Durable!Deliver(w) \/ Durable!Refuse(w) \/ Durable!Dismiss(w)
         PROVE  Durable!DurableNext
  BY <1>next DEF Durable!DurableNext
<1>1. ASSUME NEW h \in Handlers, Commits(h), UNCHANGED workerVars
      PROVE  Durable!TakesEffect(key[h])
  <2> DEFINE k == key[h]
  <2>1. /\ k \in Seqs /\ Owner[token[h]] \in Staff /\ ~InEffect(k)
        /\ Behind(k)
    BY <1>0, <1>1 DEF Commits, ServerTypeOK, VerdictOK, Staff, OrderInv
  <2>2. effects[k] = 0 /\ effects' = [effects EXCEPT ![k] = 1]
    <3>1. effects[k] = 0
      BY <1>0, <2>1 DEF InEffect, ServerTypeOK
    <3>2. /\ effects' \in [Seqs -> 0..2] /\ effects'[k] = 1
          /\ \A j \in Seqs : j # k => effects'[j] = effects[j]
      BY <1>0, <1>1, <2>1, TakeEffectTyped DEF Commits
    <3> QED BY <1>0, <2>1, <3>1, <3>2 DEF ServerTypeOK
  <2>3. shownState' = shownState
    BY <1>1 DEF workerVars, queueVars, shownState
  <2>4. row[k] \in {"pending", "inflight", "conflict", "failed", "resolved"}
    BY <1>0, <2>1 DEF PathInv, TruthInv, AckTruthful, Behind, WorkerTypeOK,
       QueueTypeOK, RowState, Blocking, Open, Refused
  <2>5. shownState[k] \in {"queued", "refused", "dismissed"}
    BY <2>1, <2>4, ShownIs DEF shownState
  <2> QED BY <1>0, <2>1, <2>2, <2>3, <2>5, BehindIsTurn DEF Durable!TakesEffect
<1>2. ASSUME effects' = effects
      PROVE  Durable!DurableNext \/ UNCHANGED Durable!durableVars
  <2>same. ASSUME shownState' = shownState PROVE UNCHANGED Durable!durableVars
    BY <1>2, <2>same DEF Durable!durableVars
  <2>head. ASSUME NEW s \in Seqs, IsHead(s)
           PROVE  Durable!ItsTurn(s) /\ shownState[s] = "queued"
    BY <1>0, <2>head, HeadBehind, BehindIsTurn, ShownIs DEF Open, shownState
  <2>post. post # NoPost => post \in Seqs /\ IsHead(post)
    BY <1>0 DEF WorkerTypeOK, QueueInv, InflightIsHead
  <2>refuse. ASSUME NEW s \in Seqs, IsHead(s), NEW st \in {"conflict", "failed"},
                    SetState(s, st)
             PROVE  Durable!Refuse(s)
    <3>1. shownState' = [shownState EXCEPT ![s] = "refused"]
      BY <1>0, <2>refuse, ShownSet, ShownIs
    <3> QED BY <1>2, <2>head, <2>refuse, <3>1 DEF Durable!Refuse
  <2>open. ASSUME NEW s \in Seqs, IsHead(s), NEW st \in Open, SetState(s, st)
           PROVE  shownState' = shownState
    <3>1. shownState' = [shownState EXCEPT ![s] = "queued"]
      BY <1>0, <2>open, ShownSet, ShownIs DEF Open
    <3>2. shownState[s] = "queued"
      BY <2>head, <2>open
    <3> QED BY <3>1, <3>2 DEF shownState
  <2>1. ASSUME NEW s \in Seqs, Enqueue(s) PROVE Durable!Queue(s)
    <3>1. SetState(s, "pending") /\ IsNew(s)
      BY <2>1 DEF Enqueue, enqueue
    <3>2. shownState' = [shownState EXCEPT ![s] = "queued"]
      BY <1>0, <3>1, ShownSet, ShownIs
    <3>3. shownState[s] = "none"
      BY <3>1, ShownIs DEF IsNew, shownState
    <3>4. ASSUME NEW t \in Seqs, t < s PROVE shownState[t] # "none"
      <4>1. row[t] # "absent"
        BY <3>1, <3>4, MaxRowsAssumption DEF IsNew, Seqs
      <4>2. row[t] \in {"pending", "inflight", "conflict", "failed", "acked",
                        "resolved"}
        BY <1>0, <4>1 DEF WorkerTypeOK, QueueTypeOK, RowState, Blocking, Open,
           Refused
      <4> QED BY <4>2, ShownIs DEF shownState
    <3> QED BY <1>2, <3>2, <3>3, <3>4 DEF Durable!Queue
  <2>2. ASSUME NEW s \in Seqs, Resolve(s) PROVE Durable!Dismiss(s)
    <3>1. SetState(s, "resolved") /\ row[s] \in {"conflict", "failed"}
      BY <2>2 DEF Resolve, resolveRow, Refused
    <3>2. shownState' = [shownState EXCEPT ![s] = "dismissed"]
      BY <1>0, <3>1, ShownSet, ShownIs
    <3>3. shownState[s] = "refused"
      BY <3>1, ShownIs DEF shownState
    <3> QED BY <1>2, <3>2, <3>3 DEF Durable!Dismiss
  <2>3. ASSUME NEW s \in Seqs, ParkHead(s) PROVE Durable!Refuse(s)
    BY <2>3, <2>refuse DEF ParkHead, parkUnreadable
  <2>4. ASSUME NEW s \in Seqs, Send(s) PROVE shownState' = shownState
    BY <2>4, <2>open DEF Send, peeked, markInflight, Open
  <2>5. CASE HearOk
    <3>1. post \in Seqs /\ IsHead(post) /\ SetState(post, "acked")
      BY <2>5, <2>post DEF HearOk, Settled, ack
    <3>2. row[post] # "acked" /\ row'[post] = "acked"
      BY <1>0, <3>1, SetRow DEF IsHead, Open
    <3>3. effects[post] = 1
      <4>1. InEffect(post)
        BY <1>0, <3>1, <3>2, AckHeard DEF PathInv, TruthInv
      <4> QED BY <1>0, <3>1, <4>1 DEF InEffect, ServerTypeOK
    <3>4. shownState' = [shownState EXCEPT ![post] = "delivered"]
      BY <1>0, <3>1, ShownSet, ShownIs
    <3>5. Durable!Deliver(post)
      BY <1>2, <2>head, <3>1, <3>3, <3>4 DEF Durable!Deliver
    <3> QED BY <1>next, <3>1, <3>5
  <2>6. CASE HearConflict \/ HearRefused
    <3>1. post # NoPost /\ \E st \in {"conflict", "failed"} : SetState(post, st)
      BY <2>6 DEF HearConflict, HearRefused, Settled, markConflict, markFailed
    <3> QED BY <1>next, <2>post, <2>refuse, <3>1
  <2>7. CASE HearRetry \/ HearUnauthorized
    <3>1. post # NoPost /\ SetState(post, "pending")
      BY <2>7 DEF HearRetry, HearUnauthorized, Settled, releaseToPending
    <3> QED BY <2>same, <2>post, <2>open, <3>1 DEF Open
  <2>8. CASE Stop
    <3>1. row' = row \/ (post # NoPost /\ SetState(post, "pending"))
      BY <2>8 DEF Stop, releaseToPending, queueVars
    <3>2. row' = row => shownState' = shownState
      BY DEF shownState
    <3> QED BY <2>same, <2>post, <2>open, <3>1, <3>2 DEF Open
  <2>9. CASE \/ \E t \in Tokens \cup {NoToken} : PushAuth(t)
            \/ Tick \/ BackoffElapses \/ EndDrain \/ PowerCut \/ Boot
            \/ LoseProfile \/ UNCHANGED workerVars
    <3>1. row' = row
      BY <2>9 DEF PushAuth, Tick, BackoffElapses, EndDrain, PowerCut, Boot,
         LoseProfile, loseKey, workerVars, queueVars
    <3> QED BY <2>same, <3>1 DEF shownState
  <2> QED
    BY <1>0, <1>next, <2>same, <2>1, <2>2, <2>3, <2>4, <2>5, <2>6, <2>7, <2>8,
       <2>9 DEF WorkerNext
<1>3. ASSUME NEW h \in Handlers, Record(h) PROVE effects' = effects
  BY <1>3 DEF Record
<1>4. ASSUME UNCHANGED storeVars PROVE effects' = effects
  BY <1>4 DEF storeVars
<1>5. \A h \in Handlers : key[h] \in Seqs
  BY <1>0 DEF ServerTypeOK
<1> QED BY <1>0, <1>next, <1>1, <1>2, <1>3, <1>4, <1>5, StoreMoves

\* The till, the network and the replay function together keep the promise of
\* DurableWrites: a queued write is never lost, takes effect at most once and
\* behind judged ones only, and "acked" says it has.  Moves and extensions have
\* no such promise, nor has a completed ticket, which a cook may bring back.
THEOREM KeepsThePromise ==
    ASSUME \A k \in Seqs : Kind[k] \notin {"absolute", "recallable"}
    PROVE  PathSpec => ImplementsDurableWrites
<1>1. PathInv /\ OnceInv /\ [PathNext]_pathVars => OnceInv'
  BY NextOnce
<1>2. PathInv /\ OrderInv /\ [PathNext]_pathVars => OrderInv'
  BY NextOrder
<1>3. PathInv /\ OnceInv /\ OrderInv /\ [PathNext]_pathVars
        => [Durable!DurableNext]_(Durable!durableVars)
  <2> SUFFICES ASSUME PathInv, OnceInv, OrderInv, [PathNext]_pathVars
               PROVE  Durable!DurableNext \/ UNCHANGED Durable!durableVars
    OBVIOUS
  <2>1. \A k \in Seqs : ~MayRepeat(k) /\ effects[k] < 2
    BY DEF OnceInv, MayRepeat
  <2>2. \A h \in Handlers : Commits(h) => ~InEffect(key[h])
    BY <2>1 DEF Commits, PathInv, RequestInv, PathTypeOK, ServerTypeOK
  <2> QED BY <2>1, <2>2, StepImplements
<1> QED
  BY <1>1, <1>2, <1>3, InitOnce, InitOrder, InitImplements, PathInvariant, PTL
     DEF PathSpec, ImplementsDurableWrites, Durable!DurableSpec

\* A step of the weak promise is one of the strong, if no refusal is untrue
\* before or after it.
LEMMA StepTruthful ==
    ASSUME Durable!DurableNext \/ UNCHANGED Durable!durableVars,
           WorkerTypeOK', ServerTypeOK, RefusalTruthful'
    PROVE  TruthfulDurable!DurableNext \/ UNCHANGED TruthfulDurable!durableVars
<1>untrue. ASSUME NEW w \in Seqs, shownState'[w] \in {"refused", "dismissed"}
           PROVE  effects'[w] = 0 \/ ~(effects'[w] \in 0..2)
  <2>1. row'[w] \in Refused \cup {"resolved"}
    <3>1. row'[w] \notin Refused \cup {"resolved"}
            => row'[w] \in {"absent", "pending", "inflight", "acked"}
      BY DEF WorkerTypeOK, QueueTypeOK, RowState, Blocking, Open
    <3> QED BY <1>untrue, <3>1, ShownIs DEF shownState
  <2> QED BY <2>1 DEF RefusalTruthful, InEffect
<1>1. CASE UNCHANGED Durable!durableVars
  BY <1>1 DEF Durable!durableVars, TruthfulDurable!durableVars
<1>next. ASSUME NEW w \in Seqs,
                \/ TruthfulDurable!Queue(w) \/ TruthfulDurable!TakesEffect(w)
                \/ TruthfulDurable!Deliver(w) \/ TruthfulDurable!Refuse(w)
                \/ TruthfulDurable!Dismiss(w)
         PROVE  TruthfulDurable!DurableNext
  BY <1>next DEF TruthfulDurable!DurableNext
<1>2. ASSUME NEW w \in Seqs, Durable!Queue(w) PROVE TruthfulDurable!Queue(w)
  BY <1>2 DEF Durable!Queue, TruthfulDurable!Queue
<1>3. ASSUME NEW w \in Seqs, Durable!TakesEffect(w)
      PROVE  TruthfulDurable!TakesEffect(w)
  <2>1. effects'[w] = 1 /\ shownState' = shownState
    BY <1>3 DEF Durable!TakesEffect, ServerTypeOK
  <2>2. shownState[w] = "queued"
    BY <1>3, <1>untrue, <2>1 DEF Durable!TakesEffect
  <2> QED BY <1>3, <2>2 DEF Durable!TakesEffect, TruthfulDurable!TakesEffect,
             Durable!ItsTurn, TruthfulDurable!ItsTurn
<1>4. ASSUME NEW w \in Seqs, Durable!Deliver(w) PROVE TruthfulDurable!Deliver(w)
  BY <1>4 DEF Durable!Deliver, TruthfulDurable!Deliver, Durable!ItsTurn,
     TruthfulDurable!ItsTurn
<1>5. ASSUME NEW w \in Seqs, Durable!Refuse(w) PROVE TruthfulDurable!Refuse(w)
  <2>1. effects' = effects /\ shownState'[w] = "refused"
    BY <1>5 DEF Durable!Refuse, shownState
  <2>2. effects[w] = 0
    BY <1>untrue, <2>1 DEF ServerTypeOK
  <2> QED BY <1>5, <2>2 DEF Durable!Refuse, TruthfulDurable!Refuse,
             Durable!ItsTurn, TruthfulDurable!ItsTurn
<1>6. ASSUME NEW w \in Seqs, Durable!Dismiss(w) PROVE TruthfulDurable!Dismiss(w)
  BY <1>6 DEF Durable!Dismiss, TruthfulDurable!Dismiss
<1> QED BY <1>1, <1>next, <1>2, <1>3, <1>4, <1>5, <1>6 DEF Durable!DurableNext

\* Where attempts are serial, no commit is a second one.
LEMMA SerialOnce ==
    ASSUME SerialInv
    PROVE  /\ \A k \in Seqs : effects[k] < 2
           /\ \A h \in Handlers : Commits(h) => ~InEffect(key[h])
BY DEF SerialInv, StoreInv, Knows, Judging, Commits

\* And there the promise holds in its strong form, whatever the kinds of the
\* RPCs: a refusal is the last word.
THEOREM KeepsTheStrongPromise ==
    ASSUME Serial
    PROVE  PathSpec => ImplementsTruthfully
<1>1. PathInv /\ SerialInv /\ [PathNext]_pathVars => SerialInv'
  BY NextStore, NextRows DEF PathInv, SerialInv
<1>2. PathInv /\ OrderInv /\ [PathNext]_pathVars => OrderInv'
  BY NextOrder
<1>3. ASSUME PathInv, SerialInv, OrderInv, SerialInv', [PathNext]_pathVars
      PROVE  [TruthfulDurable!DurableNext]_(TruthfulDurable!durableVars)
  <2>1. Durable!DurableNext \/ UNCHANGED Durable!durableVars
    BY <1>3, SerialOnce, StepImplements
  <2>2. WorkerTypeOK' /\ ServerTypeOK
    BY <1>3, NextRequestInv DEF PathInv, RequestInv, PathTypeOK
  <2>3. RefusalTruthful'
    BY <1>3 DEF SerialInv, RowInv
  <2> QED BY <2>1, <2>2, <2>3, StepTruthful
<1>4. PathInit => TruthfulDurable!DurableInit
  BY InitImplements DEF Durable!DurableInit, TruthfulDurable!DurableInit
<1> QED
  BY <1>1, <1>2, <1>3, <1>4, InitSerial, InitOrder, PathInvariant, PTL
     DEF PathSpec, ImplementsTruthfully, TruthfulDurable!DurableSpec

=============================================================================
