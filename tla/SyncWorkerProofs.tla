-------------------------- MODULE SyncWorkerProofs --------------------------
(***************************************************************************)
(* Proofs about the sync worker, for any number of rows, any tokens, and   *)
(* any answer of the server.  The inductive invariant is the type, the     *)
(* shape of the queue and the shape of the process's memory.               *)
(***************************************************************************)
EXTENDS SyncWorker, TLAPS

\* AUTOINCREMENT leaves no gap, so a new row is always the last.
Contiguous == \A s, t \in Seqs : s < t /\ row[t] # "absent" => row[s] # "absent"

QueueInv == Contiguous /\ InflightIsHead

\* A POST is awaited by a running drain, with a token; a process that is down
\* has no memory; the listener lifts the 401 pause only for another token.
MemoryInv == /\ post # NoPost => up /\ draining /\ postToken \in Tokens
             /\ ~up => ~draining /\ ~backingOff
             /\ unreachable <=> Blocked
             /\ rejected # NoToken => pausedOnAuth
             /\ NoDrainWhileBackingOff

WorkerInv == WorkerTypeOK /\ QueueInv /\ MemoryInv

-----------------------------------------------------------------------------
\* What one UPDATE of the queue does.
LEMMA SetRow ==
    ASSUME WorkerTypeOK, NEW s \in Seqs, NEW st \in RowState, SetState(s, st)
    PROVE  /\ row' \in [Seqs -> RowState]
           /\ row'[s] = st
           /\ \A t \in Seqs : t # s => row'[t] = row[t]
BY DEF WorkerTypeOK, QueueTypeOK, SetState

\* There is one head.
LEMMA OneHead ==
    ASSUME NEW s \in Seqs, NEW t \in Seqs, IsHead(s), IsHead(t)
    PROVE  s = t
<1>1. s < t => s \in 1..(t-1)
  BY MaxRowsAssumption DEF Seqs
<1>2. t < s => t \in 1..(s-1)
  BY MaxRowsAssumption DEF Seqs
<1> QED BY <1>1, <1>2, MaxRowsAssumption DEF IsHead, Seqs

\* The states the queue writes are states of a row.
LEMMA RowStates ==
    /\ {"pending", "inflight", "conflict", "failed", "acked", "resolved"}
         \subseteq RowState
    /\ "absent" \in RowState
BY DEF RowState, Blocking, Open, Refused

\* The awaited POST names a row.
LEMMA PostIsRow == ASSUME WorkerTypeOK, Settled PROVE post \in Seqs
BY DEF WorkerTypeOK, Settled

\* The flags an answer and the loss of memory assign.
HealthTypeOK == /\ failures \in 0..2
                /\ backingOff \in BOOLEAN /\ pausedOnAuth \in BOOLEAN
                /\ unreachable \in BOOLEAN

\* noteTransportOk keeps the types of the health flags.
LEMMA OkTyped == WorkerTypeOK /\ noteTransportOk => HealthTypeOK'
<1> SUFFICES ASSUME WorkerTypeOK, noteTransportOk PROVE HealthTypeOK'
  OBVIOUS
<1>1. failures' \in 0..2
  BY DEF noteTransportOk
<1>2. backingOff' \in BOOLEAN /\ pausedOnAuth' \in BOOLEAN
  BY Zenon DEF noteTransportOk, WorkerTypeOK
<1>3. unreachable' \in BOOLEAN
  BY DEF noteTransportOk, reportUnreachable, Blocked
<1> QED BY <1>1, <1>2, <1>3 DEF HealthTypeOK

\* noteTransportFailure keeps them.
LEMMA FailureTyped == WorkerTypeOK /\ noteTransportFailure => HealthTypeOK'
<1> SUFFICES ASSUME WorkerTypeOK, noteTransportFailure PROVE HealthTypeOK'
  OBVIOUS
<1>1. failures' \in 0..2
  BY DEF noteTransportFailure, WorkerTypeOK
<1>2. backingOff' \in BOOLEAN /\ pausedOnAuth' \in BOOLEAN
  BY Zenon DEF noteTransportFailure, WorkerTypeOK
<1>3. unreachable' \in BOOLEAN
  BY DEF noteTransportFailure, reportUnreachable, Blocked
<1> QED BY <1>1, <1>2, <1>3 DEF HealthTypeOK

\* The 401 branch keeps them.
LEMMA UnauthorizedTyped == HearUnauthorized => HealthTypeOK'
<1> SUFFICES ASSUME HearUnauthorized PROVE HealthTypeOK'
  OBVIOUS
<1>1. failures' \in 0..2
  BY DEF HearUnauthorized
<1>2. backingOff' \in BOOLEAN /\ pausedOnAuth' \in BOOLEAN
  BY Zenon DEF HearUnauthorized
<1>3. unreachable' \in BOOLEAN
  BY DEF HearUnauthorized, reportUnreachable, Blocked
<1> QED BY <1>1, <1>2, <1>3 DEF HealthTypeOK

\* A process that is gone leaves the initial values.
LEMMA MemoryLostTyped ==
    loseMemory /\ up' = FALSE => HealthTypeOK' /\ up' \in BOOLEAN
                                /\ draining' \in BOOLEAN
<1> SUFFICES ASSUME loseMemory, up' = FALSE
             PROVE  HealthTypeOK' /\ up' \in BOOLEAN /\ draining' \in BOOLEAN
  OBVIOUS
<1>1. failures' \in 0..2
  BY DEF loseMemory
<1>2. /\ backingOff' \in BOOLEAN /\ pausedOnAuth' \in BOOLEAN
      /\ unreachable' \in BOOLEAN /\ up' \in BOOLEAN /\ draining' \in BOOLEAN
  BY Zenon DEF loseMemory
<1> QED BY <1>1, <1>2 DEF HealthTypeOK

-----------------------------------------------------------------------------
\* A till that was never used satisfies the invariant.
LEMMA InitWorkerInv == WorkerInit => WorkerInv
<1> SUFFICES ASSUME WorkerInit PROVE WorkerInv
  OBVIOUS
<1>1. WorkerTypeOK
  <2>1. QueueTypeOK
    BY DEF WorkerInit, QueueInit, QueueTypeOK, RowState
  <2>2. /\ up \in BOOLEAN /\ draining \in BOOLEAN /\ backingOff \in BOOLEAN
        /\ pausedOnAuth \in BOOLEAN /\ unreachable \in BOOLEAN
    BY Zenon DEF WorkerInit
  <2> QED BY <2>1, <2>2 DEF WorkerInit, WorkerTypeOK
<1>2. QueueInv
  BY DEF WorkerInit, QueueInit, QueueInv, Contiguous, InflightIsHead, IsHead
<1>3. MemoryInv
  <2>1. /\ post = NoPost /\ up /\ rejected = NoToken
        /\ NoDrainWhileBackingOff
    BY DEF WorkerInit, NoDrainWhileBackingOff, InDrain
  <2>2. unreachable <=> Blocked
    BY DEF WorkerInit, Blocked
  <2> QED BY <2>1, <2>2 DEF MemoryInv
<1> QED BY <1>1, <1>2, <1>3 DEF WorkerInv

\* Each action leaves every variable in its type.
LEMMA NextTypeOK == WorkerTypeOK /\ [WorkerNext]_workerVars => WorkerTypeOK'
<1> SUFFICES ASSUME WorkerTypeOK, [WorkerNext]_workerVars PROVE WorkerTypeOK'
  OBVIOUS
<1> USE RowStates, SetRow
<1>1. ASSUME NEW s \in Seqs, Enqueue(s) PROVE WorkerTypeOK'
  BY <1>1 DEF Enqueue, enqueue, kick, startDrain, WorkerTypeOK, QueueTypeOK,
              authVars, healthVars
<1>2. ASSUME NEW s \in Seqs, Resolve(s) PROVE WorkerTypeOK'
  BY <1>2 DEF Resolve, resolveRow, WorkerTypeOK, QueueTypeOK, authVars,
              healthVars
<1>3. ASSUME NEW t \in Tokens \cup {NoToken}, PushAuth(t) PROVE WorkerTypeOK'
  BY <1>3 DEF PushAuth, setAuthState, kick, startDrain, reportUnreachable,
              Blocked, WorkerTypeOK, QueueTypeOK, queueVars, healthVars
<1>4. CASE Tick
  BY <1>4 DEF Tick, WorkerTypeOK, QueueTypeOK, queueVars, authVars, healthVars
<1>5. CASE BackoffElapses
  BY <1>5 DEF BackoffElapses, WorkerTypeOK, QueueTypeOK, queueVars, authVars,
              healthVars
<1>6. ASSUME NEW s \in Seqs, ParkHead(s) PROVE WorkerTypeOK'
  BY <1>6 DEF ParkHead, parkUnreadable, WorkerTypeOK, QueueTypeOK, authVars,
              healthVars
<1>7. ASSUME NEW s \in Seqs, Send(s) PROVE WorkerTypeOK'
  BY <1>7 DEF Send, markInflight, WorkerTypeOK, QueueTypeOK, authVars,
              healthVars
<1>8. CASE EndDrain
  BY <1>8 DEF EndDrain, WorkerTypeOK, QueueTypeOK, queueVars, authVars,
              healthVars
<1>9. CASE HearOk
  <2>1. QueueTypeOK'
    BY <1>9, PostIsRow DEF HearOk, ack, WorkerTypeOK, QueueTypeOK
  <2>2. HealthTypeOK'
    BY <1>9, OkTyped DEF HearOk
  <2>3. up' \in BOOLEAN /\ draining' \in BOOLEAN
    BY <1>9, Zenon DEF HearOk, WorkerTypeOK
  <2> QED BY <1>9, <2>1, <2>2, <2>3 DEF HearOk, Settled, authVars, HealthTypeOK,
             WorkerTypeOK
<1>10. CASE HearConflict
  <2>1. QueueTypeOK'
    BY <1>10, PostIsRow DEF HearConflict, markConflict, WorkerTypeOK, QueueTypeOK
  <2>2. HealthTypeOK'
    BY <1>10, OkTyped DEF HearConflict
  <2>3. up' \in BOOLEAN /\ draining' \in BOOLEAN
    BY <1>10, Zenon DEF HearConflict, WorkerTypeOK
  <2> QED BY <1>10, <2>1, <2>2, <2>3 DEF HearConflict, Settled, authVars, HealthTypeOK,
             WorkerTypeOK
<1>11. CASE HearRefused
  <2>1. QueueTypeOK'
    BY <1>11, PostIsRow DEF HearRefused, markFailed, WorkerTypeOK, QueueTypeOK
  <2>2. HealthTypeOK'
    BY <1>11, OkTyped DEF HearRefused
  <2>3. up' \in BOOLEAN /\ draining' \in BOOLEAN
    BY <1>11, Zenon DEF HearRefused, WorkerTypeOK
  <2> QED BY <1>11, <2>1, <2>2, <2>3 DEF HearRefused, Settled, authVars, HealthTypeOK,
             WorkerTypeOK
<1>12. CASE HearRetry
  <2>1. QueueTypeOK'
    BY <1>12, PostIsRow DEF HearRetry, releaseToPending, WorkerTypeOK, QueueTypeOK
  <2>2. HealthTypeOK'
    BY <1>12, FailureTyped DEF HearRetry
  <2>3. up' \in BOOLEAN /\ draining' \in BOOLEAN
    BY <1>12, Zenon DEF HearRetry, WorkerTypeOK
  <2> QED BY <1>12, <2>1, <2>2, <2>3 DEF HearRetry, Settled, authVars, HealthTypeOK,
             WorkerTypeOK
<1>13. CASE HearUnauthorized
  <2>1. QueueTypeOK'
    BY <1>13, PostIsRow DEF HearUnauthorized, releaseToPending, WorkerTypeOK, QueueTypeOK
  <2>2. HealthTypeOK'
    BY <1>13, UnauthorizedTyped DEF HearUnauthorized
  <2>3. up' \in BOOLEAN /\ draining' \in BOOLEAN
    BY <1>13, Zenon DEF HearUnauthorized, WorkerTypeOK
  <2> QED BY <1>13, <2>1, <2>2, <2>3 DEF HearUnauthorized, Settled, markTokenRejected, HealthTypeOK,
             WorkerTypeOK
<1>14. CASE Stop
  <2>1. QueueTypeOK'
    <3>1. CASE post = NoPost
      BY <1>14, <3>1 DEF Stop, WorkerTypeOK, QueueTypeOK, queueVars
    <3>2. CASE post # NoPost
      <4>1. post \in Seqs
        BY <3>2 DEF WorkerTypeOK
      <4> QED BY <1>14, <3>2, <4>1 DEF Stop, releaseToPending, WorkerTypeOK,
                 QueueTypeOK
    <3> QED BY <3>1, <3>2
  <2>2. loseMemory /\ up' = FALSE
    BY <1>14 DEF Stop
  <2> QED BY <2>1, <2>2, MemoryLostTyped DEF loseMemory, HealthTypeOK, WorkerTypeOK
<1>15. CASE PowerCut
  <2>1. QueueTypeOK'
    BY <1>15 DEF PowerCut, queueVars, WorkerTypeOK, QueueTypeOK
  <2>2. loseMemory /\ up' = FALSE
    BY <1>15 DEF PowerCut
  <2> QED BY <2>1, <2>2, MemoryLostTyped DEF loseMemory, HealthTypeOK, WorkerTypeOK
<1>16. CASE Boot
  BY <1>16 DEF Boot, WorkerTypeOK, QueueTypeOK, queueVars, authVars, healthVars
<1>17. CASE LoseProfile
  BY <1>17 DEF LoseProfile, loseKey, WorkerTypeOK, QueueTypeOK, authVars,
               healthVars
<1>18. CASE UNCHANGED workerVars
  BY <1>18 DEF workerVars, WorkerTypeOK, QueueTypeOK, queueVars, authVars,
               healthVars
<1> QED
  BY <1>1, <1>2, <1>3, <1>4, <1>5, <1>6, <1>7, <1>8, <1>9, <1>10, <1>11,
     <1>12, <1>13, <1>14, <1>15, <1>16, <1>17, <1>18 DEF WorkerNext

-----------------------------------------------------------------------------
\* A statement that closes one row, or leaves the open ones alone, keeps the
\* order of the queue, provided no row that was absent is touched.
LEMMA ContiguousKept ==
    ASSUME WorkerTypeOK, Contiguous, NEW s \in Seqs, NEW st \in RowState,
           SetState(s, st), row[s] # "absent", st # "absent"
    PROVE  Contiguous'
BY SetRow DEF Contiguous

\* The head leaves the open rows: nothing else is inflight.
LEMMA HeadCloses ==
    ASSUME WorkerTypeOK, QueueInv, NEW s \in Seqs, IsHead(s),
           NEW st \in RowState \ {"absent", "inflight"}, SetState(s, st)
    PROVE  Contiguous' /\ \A t \in Seqs : row'[t] # "inflight"
<1>1. row[s] # "absent"
  BY DEF IsHead, Open
<1>2. Contiguous'
  BY <1>1, ContiguousKept DEF QueueInv
<1>3. ASSUME NEW t \in Seqs PROVE row'[t] # "inflight"
  <2>1. t # s => row'[t] = row[t]
    BY SetRow
  <2>2. row[t] = "inflight" => t = s
    BY OneHead DEF QueueInv, InflightIsHead
  <2> QED BY <2>1, <2>2, SetRow
<1> QED BY <1>2, <1>3

\* The order of the queue, and of what is in flight, survives every step.
LEMMA NextQueueInv ==
    WorkerTypeOK /\ QueueInv /\ [WorkerNext]_workerVars => QueueInv'
<1> SUFFICES ASSUME WorkerTypeOK, QueueInv, [WorkerNext]_workerVars
             PROVE  QueueInv'
  OBVIOUS
<1> USE RowStates
<1>head. post # NoPost => post \in Seqs /\ IsHead(post)
  BY DEF QueueInv, InflightIsHead, WorkerTypeOK
<1>none. ASSUME Contiguous', \A t \in Seqs : row'[t] # "inflight", post' = NoPost
         PROVE  QueueInv'
  BY <1>none DEF QueueInv, InflightIsHead
<1>same. ASSUME row' = row, post' \in {post, NoPost} PROVE QueueInv'
  BY <1>same DEF QueueInv, InflightIsHead, Contiguous, IsHead
<1>1. ASSUME NEW s \in Seqs, Enqueue(s) PROVE QueueInv'
  <2>1. SetState(s, "pending") /\ row[s] = "absent" /\ post' = post
        /\ \A t \in 1..(s-1) : row[t] # "absent"
    BY <1>1 DEF Enqueue, enqueue, IsNew
  <2>2. /\ row'[s] = "pending"
        /\ \A t \in Seqs : t # s => row'[t] = row[t]
    BY <2>1, SetRow
  <2>3. \A t \in Seqs : s < t => row[t] = "absent"
    BY <2>1 DEF QueueInv, Contiguous
  <2>4. Contiguous'
    BY <2>1, <2>2, <2>3, MaxRowsAssumption DEF Contiguous, Seqs
  <2>5. ASSUME NEW t \in Seqs, row'[t] = "inflight" PROVE IsHead(t)'
    <3>1. row[t] = "inflight" /\ IsHead(t) /\ t # s
      BY <2>2, <2>5 DEF QueueInv, InflightIsHead
    <3>2. ~(s < t)
      BY <2>3, <3>1
    <3> QED BY <2>2, <2>5, <3>1, <3>2, MaxRowsAssumption DEF IsHead, Seqs, Open
  <2>6. post' # NoPost => row'[post'] = "inflight"
    BY <1>head, <2>1, <2>2 DEF QueueInv, InflightIsHead
  <2> QED BY <2>4, <2>5, <2>6 DEF QueueInv, InflightIsHead
<1>2. ASSUME NEW s \in Seqs, Resolve(s) PROVE QueueInv'
  <2>1. SetState(s, "resolved") /\ row[s] \in Refused /\ post' = post
    BY <1>2 DEF Resolve, resolveRow
  <2>2. /\ row'[s] = "resolved"
        /\ \A t \in Seqs : t # s => row'[t] = row[t]
    BY <2>1, SetRow
  <2>3. Contiguous'
    BY <2>1, ContiguousKept DEF QueueInv, Refused
  <2>4. ASSUME NEW t \in Seqs, row'[t] = "inflight" PROVE IsHead(t)'
    <3>1. row[t] = "inflight" /\ IsHead(t)
      BY <2>2, <2>4 DEF QueueInv, InflightIsHead
    <3> QED BY <2>2, <2>4, <3>1, MaxRowsAssumption DEF IsHead, Seqs, Open
  <2>5. post' # NoPost => row'[post'] = "inflight"
    BY <1>head, <2>1, <2>2 DEF QueueInv, InflightIsHead, Refused
  <2> QED BY <2>3, <2>4, <2>5 DEF QueueInv, InflightIsHead
<1>3. ASSUME NEW t \in Tokens \cup {NoToken}, PushAuth(t) PROVE QueueInv'
  BY <1>3, <1>same DEF PushAuth, queueVars
<1>4. CASE Tick
  BY <1>4, <1>same DEF Tick, queueVars
<1>5. CASE BackoffElapses
  BY <1>5, <1>same DEF BackoffElapses, queueVars
<1>6. ASSUME NEW s \in Seqs, ParkHead(s) PROVE QueueInv'
  BY <1>6, <1>none, HeadCloses DEF ParkHead, parkUnreadable, InDrain
<1>7. ASSUME NEW s \in Seqs, Send(s) PROVE QueueInv'
  <2>1. SetState(s, "inflight") /\ IsHead(s) /\ post' = s
    BY <1>7 DEF Send, markInflight, peeked
  <2>2. /\ row'[s] = "inflight"
        /\ \A t \in Seqs : t # s => row'[t] = row[t]
    BY <2>1, SetRow
  <2>3. Contiguous'
    BY <2>1, ContiguousKept DEF QueueInv, IsHead, Open
  <2>4. IsHead(s)'
    BY <2>1, <2>2, MaxRowsAssumption DEF IsHead, Open, Seqs
  <2>5. \A t \in Seqs : row'[t] = "inflight" => t = s
    BY <2>1, <2>2, OneHead DEF QueueInv, InflightIsHead
  <2> QED BY <2>1, <2>2, <2>3, <2>4, <2>5 DEF QueueInv, InflightIsHead
<1>8. CASE EndDrain
  BY <1>8, <1>same DEF EndDrain, queueVars
<1>9. CASE HearOk
  BY <1>9, <1>head, <1>none, HeadCloses DEF HearOk, Settled, ack
<1>10. CASE HearConflict
  BY <1>10, <1>head, <1>none, HeadCloses DEF HearConflict, Settled, markConflict
<1>11. CASE HearRefused
  BY <1>11, <1>head, <1>none, HeadCloses DEF HearRefused, Settled, markFailed
<1>12. CASE HearRetry
  BY <1>12, <1>head, <1>none, HeadCloses DEF HearRetry, Settled, releaseToPending
<1>13. CASE HearUnauthorized
  BY <1>13, <1>head, <1>none, HeadCloses DEF HearUnauthorized, Settled,
     releaseToPending
<1>14. CASE Stop
  <2>1. post' = NoPost
    BY <1>14 DEF Stop, loseMemory
  <2>2. CASE post = NoPost
    BY <1>14, <1>same, <2>1, <2>2 DEF Stop, queueVars
  <2>3. CASE post # NoPost
    BY <1>14, <1>head, <1>none, <2>1, <2>3, HeadCloses DEF Stop, releaseToPending
  <2> QED BY <2>2, <2>3
<1>15. CASE PowerCut
  BY <1>15, <1>same DEF PowerCut, loseMemory, queueVars
<1>16. CASE Boot
  BY <1>16, <1>same DEF Boot, queueVars
<1>17. CASE LoseProfile
  BY <1>17, <1>same DEF LoseProfile, loseKey
<1>18. CASE UNCHANGED workerVars
  BY <1>18, <1>same DEF workerVars, queueVars
<1> QED
  BY <1>1, <1>2, <1>3, <1>4, <1>5, <1>6, <1>7, <1>8, <1>9, <1>10, <1>11,
     <1>12, <1>13, <1>14, <1>15, <1>16, <1>17, <1>18 DEF WorkerNext

-----------------------------------------------------------------------------
\* What an answer leaves of the process's memory: the drain stops, or the
\* transport has just worked and no backoff holds.
LEMMA AnswerKeepsMemory ==
    ASSUME WorkerTypeOK, MemoryInv, Settled, up' = up,
           unreachable' <=> Blocked', rejected' # NoToken => pausedOnAuth',
           (draining' = draining /\ ~backingOff') \/ draining' = FALSE
    PROVE  MemoryInv'
BY DEF MemoryInv, Settled, NoDrainWhileBackingOff, InDrain

\* The memory of the process survives every step.
LEMMA NextMemoryInv ==
    WorkerTypeOK /\ MemoryInv /\ [WorkerNext]_workerVars => MemoryInv'
<1> SUFFICES ASSUME WorkerTypeOK, MemoryInv, [WorkerNext]_workerVars
             PROVE  MemoryInv'
  OBVIOUS
<1>same. ASSUME UNCHANGED <<authVars, healthVars>>,
                post' # NoPost => up' /\ draining' /\ postToken' \in Tokens,
                ~up' => ~draining' /\ ~backingOff',
                NoDrainWhileBackingOff'
         PROVE  MemoryInv'
  BY <1>same DEF MemoryInv, Blocked, authVars, healthVars
<1>1. ASSUME NEW s \in Seqs, Enqueue(s) PROVE MemoryInv'
  BY <1>1, <1>same DEF Enqueue, Handler, InDrain, kick, startDrain, MemoryInv,
     NoDrainWhileBackingOff
<1>2. ASSUME NEW s \in Seqs, Resolve(s) PROVE MemoryInv'
  BY <1>2, <1>same DEF Resolve, Handler, InDrain, MemoryInv,
     NoDrainWhileBackingOff
<1>3. ASSUME NEW t \in Tokens \cup {NoToken}, PushAuth(t) PROVE MemoryInv'
  <2>1. /\ up /\ ~InDrain /\ UNCHANGED <<up, post, postToken>> /\ setAuthState(t)
    BY <1>3 DEF PushAuth, Handler
  <2>2. CASE getReplayAuth' = NoToken
    <3>1. UNCHANGED <<healthVars, draining, backingOff>>
      BY <1>3, <2>2 DEF PushAuth
    <3>2. rejected' # NoToken => rejected # NoToken
      BY <2>1 DEF setAuthState
    <3> QED BY <2>1, <3>1, <3>2 DEF MemoryInv, Blocked, healthVars, InDrain,
               NoDrainWhileBackingOff
  <2>3. CASE getReplayAuth' # NoToken
    <3>1. (unreachable' <=> Blocked') /\ ~backingOff'
          /\ (draining => draining')
      BY <1>3, <2>3 DEF PushAuth, reportUnreachable, kick, startDrain
    <3>2. rejected' = NoToken
      BY <2>1, <2>3 DEF setAuthState, getReplayAuth
    <3> QED BY <2>1, <3>1, <3>2 DEF MemoryInv, NoDrainWhileBackingOff
  <2> QED BY <2>2, <2>3
<1>4. CASE Tick
  BY <1>4, <1>same DEF Tick, Handler, MemoryInv, NoDrainWhileBackingOff
<1>5. CASE BackoffElapses
  BY <1>5, <1>same DEF BackoffElapses, MemoryInv, NoDrainWhileBackingOff
<1>6. ASSUME NEW s \in Seqs, ParkHead(s) PROVE MemoryInv'
  BY <1>6, <1>same DEF ParkHead, InDrain, MemoryInv, NoDrainWhileBackingOff
<1>7. ASSUME NEW s \in Seqs, Send(s) PROVE MemoryInv'
  <2>1. current \in Tokens
    BY <1>7 DEF Send, getReplayAuth, WorkerTypeOK
  <2> QED BY <1>7, <1>same, <2>1 DEF Send, InDrain, MemoryInv,
             NoDrainWhileBackingOff
<1>8. CASE EndDrain
  BY <1>8, <1>same DEF EndDrain, InDrain, MemoryInv, NoDrainWhileBackingOff
<1>ok. ASSUME noteTransportOk, UNCHANGED <<authVars, up, draining>>, Settled
       PROVE  MemoryInv'
  BY <1>ok, AnswerKeepsMemory DEF noteTransportOk, reportUnreachable, authVars,
     MemoryInv
<1>9. CASE HearOk
  BY <1>9, <1>ok DEF HearOk
<1>10. CASE HearConflict
  BY <1>10, <1>ok DEF HearConflict
<1>11. CASE HearRefused
  BY <1>11, <1>ok DEF HearRefused
<1>12. CASE HearRetry
  BY <1>12, AnswerKeepsMemory DEF HearRetry, noteTransportFailure,
     reportUnreachable, authVars, MemoryInv
<1>13. CASE HearUnauthorized
  BY <1>13, AnswerKeepsMemory DEF HearUnauthorized, reportUnreachable
<1>lost. ASSUME loseMemory, up' = FALSE PROVE MemoryInv'
  BY <1>lost DEF loseMemory, MemoryInv, Blocked, NoDrainWhileBackingOff, InDrain
<1>14. CASE Stop
  BY <1>14, <1>lost DEF Stop
<1>15. CASE PowerCut
  BY <1>15, <1>lost DEF PowerCut
<1>16. CASE Boot
  BY <1>16, <1>same DEF Boot, MemoryInv, NoDrainWhileBackingOff, InDrain
<1>17. CASE LoseProfile
  BY <1>17, <1>same DEF LoseProfile, MemoryInv, NoDrainWhileBackingOff, InDrain
<1>18. CASE UNCHANGED workerVars
  BY <1>18, <1>same DEF workerVars, MemoryInv, NoDrainWhileBackingOff, InDrain
<1> QED
  BY <1>1, <1>2, <1>3, <1>4, <1>5, <1>6, <1>7, <1>8, <1>9, <1>10, <1>11,
     <1>12, <1>13, <1>14, <1>15, <1>16, <1>17, <1>18 DEF WorkerNext

-----------------------------------------------------------------------------
\* The three parts are inductive together.
LEMMA NextWorkerInv == WorkerInv /\ [WorkerNext]_workerVars => WorkerInv'
BY NextTypeOK, NextQueueInv, NextMemoryInv DEF WorkerInv

\* The inductive invariant holds in every state of the worker.
THEOREM WorkerInvariant == WorkerSpec => []WorkerInv
BY InitWorkerInv, NextWorkerInv, PTL DEF WorkerSpec

\* Every variable of the worker, its session state and its queue keeps its type.
THEOREM TypeCorrect == WorkerSpec => []WorkerTypeOK
BY WorkerInvariant, PTL DEF WorkerInv

\* Whatever the server answers, whatever the process loses and however often
\* it restarts, only the lowest open row of the outbox is ever in flight.
THEOREM SentInOrder == WorkerSpec => []InflightIsHead
<1>1. WorkerInv => InflightIsHead
  BY DEF WorkerInv, QueueInv
<1> QED BY <1>1, WorkerInvariant, PTL

\* A session the replay function refused never reads as a healthy upload
\* path: the 401 pause outlives every push that does not replace the token.
THEOREM RefusalIsVisible == WorkerSpec => []RefusedSessionReadsBlocked
<1>1. WorkerInv => RefusedSessionReadsBlocked
  BY DEF WorkerInv, MemoryInv, RefusedSessionReadsBlocked, Blocked
<1> QED BY <1>1, WorkerInvariant, PTL

\* No row is sent inside the backoff window.
THEOREM BackoffHolds == WorkerSpec => []NoDrainWhileBackingOff
<1>1. WorkerInv => NoDrainWhileBackingOff
  BY DEF WorkerInv, MemoryInv
<1> QED BY <1>1, WorkerInvariant, PTL

-----------------------------------------------------------------------------
\* One row through one statement: a row that is done, or refused, is not hit.
RowKept(s) == /\ row[s] \in {"acked", "resolved"} => row'[s] = row[s]
              /\ row[s] \in Refused => row'[s] \in {row[s], "resolved"}

\* A statement that lands on an open or an absent row leaves the done ones be.
LEMMA OpenRowWritten ==
    ASSUME WorkerTypeOK, NEW s \in Seqs, NEW st \in RowState, SetState(s, st),
           row[s] \in Open \cup {"absent"}
    PROVE  \A t \in Seqs : RowKept(t)
BY SetRow DEF RowKept, Open, Refused

\* Every statement lands where the control flow says, not where its WHERE
\* clause says: the row of an answer is still open when the answer comes.
LEMMA NextRowKept ==
    WorkerTypeOK /\ QueueInv /\ [WorkerNext]_workerVars
      => \A t \in Seqs : RowKept(t)
<1> SUFFICES ASSUME WorkerTypeOK, QueueInv, [WorkerNext]_workerVars
             PROVE  \A t \in Seqs : RowKept(t)
  OBVIOUS
<1> USE RowStates
<1>head. post # NoPost => post \in Seqs /\ row[post] \in Open \cup {"absent"}
  BY DEF QueueInv, InflightIsHead, WorkerTypeOK, Open
<1>same. ASSUME row' = row PROVE \A t \in Seqs : RowKept(t)
  BY <1>same DEF RowKept
<1>1. ASSUME NEW s \in Seqs, Enqueue(s) PROVE \A t \in Seqs : RowKept(t)
  BY <1>1, OpenRowWritten DEF Enqueue, enqueue, IsNew
<1>2. ASSUME NEW s \in Seqs, Resolve(s) PROVE \A t \in Seqs : RowKept(t)
  BY <1>2, SetRow DEF Resolve, resolveRow, RowKept, Refused
<1>3. ASSUME NEW t \in Tokens \cup {NoToken}, PushAuth(t), NEW u \in Seqs
      PROVE  RowKept(u)
  BY <1>3, <1>same DEF PushAuth, queueVars
<1>4. ASSUME NEW s \in Seqs, ParkHead(s) PROVE \A t \in Seqs : RowKept(t)
  BY <1>4, OpenRowWritten DEF ParkHead, parkUnreadable, IsHead
<1>5. ASSUME NEW s \in Seqs, Send(s) PROVE \A t \in Seqs : RowKept(t)
  BY <1>5, OpenRowWritten DEF Send, markInflight, peeked, IsHead
<1>6. CASE Hear
  <2>1. PICK st \in {"acked", "conflict", "failed", "pending"} :
          SetState(post, st)
    BY <1>6 DEF Hear, HearOk, HearConflict, HearRefused, HearRetry,
       HearUnauthorized, ack, markConflict, markFailed, releaseToPending
  <2>2. post # NoPost
    BY <1>6 DEF Hear, HearOk, HearConflict, HearRefused, HearRetry,
       HearUnauthorized, Settled
  <2> QED BY <1>head, <2>1, <2>2, OpenRowWritten
<1>7. CASE Stop
  BY <1>7, <1>head, <1>same, OpenRowWritten DEF Stop, releaseToPending, queueVars
<1>8. CASE Tick \/ BackoffElapses \/ EndDrain \/ PowerCut \/ Boot \/ LoseProfile
           \/ UNCHANGED workerVars
  BY <1>8, <1>same DEF Tick, BackoffElapses, EndDrain, PowerCut, Boot,
     LoseProfile, loseKey, workerVars, queueVars
<1> QED
  BY <1>1, <1>2, <1>3, <1>4, <1>5, <1>6, <1>7, <1>8 DEF WorkerNext, Hear

\* No UPDATE of the outbox, each of which selects by key alone, ever reopens
\* a row that is acked or resolved, or moves a refused one but to resolved.
THEOREM DoneIsFinal == WorkerSpec => DoneStaysDone
<1>1. WorkerInv /\ [WorkerNext]_workerVars
        => [\A s \in Seqs :
             /\ row[s] \in {"acked", "resolved"} => row'[s] = row[s]
             /\ row[s] \in Refused => row'[s] \in {row[s], "resolved"}]_workerVars
  BY NextRowKept DEF WorkerInv, RowKept
<1> QED BY <1>1, WorkerInvariant, PTL DEF WorkerSpec, DoneStaysDone

=============================================================================
