----------------------------- MODULE SyncWorker -----------------------------
(***************************************************************************)
(* The Electron main process that empties the outbox: the sync worker      *)
(* (sync-worker.ts), the staff session it replays with (auth-state.ts) and *)
(* the IPC handlers that reach them (index.ts).                            *)
(*                                                                         *)
(* The process is single threaded.  A drain runs from the handler that     *)
(* starts it to the POST it awaits without giving way to another handler;  *)
(* InDrain is that stretch, and no handler is enabled during it.  Only a   *)
(* power cut can fall between two of its statements.  The answer of the    *)
(* replay function is any answer at all here; WritePath constrains it.     *)
(***************************************************************************)
EXTENDS TillQueue

VARIABLES up,           \* the process runs and stop() was not called
          current,      \* auth-state.ts: the session pushed last
          rejected,     \* auth-state.ts: the token replay answered 401 to
          draining,     \* `draining` is a promise, not null
          post,         \* row whose POST is awaited, 0 when none
          postToken,    \* the token that POST carries
          backingOff,   \* Date.now() < nextAllowedAt
          failures,     \* transportFailures, saturating at 2
          pausedOnAuth,
          unreachable   \* reportedUnreachable = queue.ts workerUnreachable

authVars   == <<current, rejected>>
healthVars == <<failures, pausedOnAuth, unreachable>>
workerVars == <<queueVars, authVars, healthVars, up, draining, post,
                postToken, backingOff>>

NoPost == 0

WorkerTypeOK == /\ QueueTypeOK
                /\ up \in BOOLEAN /\ draining \in BOOLEAN
                /\ backingOff \in BOOLEAN /\ pausedOnAuth \in BOOLEAN
                /\ unreachable \in BOOLEAN
                /\ current \in Tokens \cup {NoToken}
                /\ rejected \in Tokens \cup {NoToken}
                /\ postToken \in Tokens \cup {NoToken}
                /\ post \in Seqs \cup {NoPost}
                /\ failures \in 0..2

WorkerInit == /\ QueueInit
              /\ up = TRUE
              /\ current = NoToken /\ rejected = NoToken
              /\ draining = FALSE /\ post = NoPost /\ postToken = NoToken
              /\ backingOff = FALSE /\ failures = 0
              /\ pausedOnAuth = FALSE /\ unreachable = FALSE

-----------------------------------------------------------------------------
(* auth-state.ts *)

getReplayAuth == IF current = rejected THEN NoToken ELSE current

setAuthState(t) ==
    /\ current' = t
    /\ rejected' = IF t = NoToken \/ t # rejected THEN NoToken ELSE rejected

markTokenRejected(t) == rejected' = t /\ UNCHANGED current

-----------------------------------------------------------------------------
(* Helpers of startSyncWorker *)

Blocked == failures >= 2 \/ pausedOnAuth

reportUnreachable == unreachable' = Blocked'

noteTransportFailure == /\ failures' = IF failures < 2 THEN failures + 1 ELSE 2
                        /\ backingOff' = TRUE
                        /\ UNCHANGED pausedOnAuth
                        /\ reportUnreachable

noteTransportOk == /\ failures' = 0
                   /\ backingOff' = FALSE
                   /\ UNCHANGED pausedOnAuth
                   /\ reportUnreachable

\* A drain starts unless one runs or replay has no session.
startDrain == draining' = (draining \/ getReplayAuth' # NoToken)

kick == backingOff' = FALSE /\ startDrain

InDrain == up /\ draining /\ post = NoPost
Handler == up /\ ~InDrain

-----------------------------------------------------------------------------
(* The IPC handlers and timers *)

\* IPC enqueue, and a KDS bump that reaches the till over the LAN.
Enqueue(s) == /\ Handler
              /\ enqueue(s)
              /\ UNCHANGED <<authVars, healthVars, up, post, postToken>>
              /\ kick

\* IPC authState, with the worker's listener.
PushAuth(t) ==
    /\ Handler
    /\ setAuthState(t)
    /\ IF getReplayAuth' = NoToken
         THEN UNCHANGED <<healthVars, draining, backingOff>>
         ELSE /\ pausedOnAuth' = FALSE
              /\ UNCHANGED failures
              /\ reportUnreachable
              /\ kick
    /\ UNCHANGED <<queueVars, up, post, postToken>>

\* IPC resolveQueueRow, behind a manager PIN.
Resolve(s) == /\ Handler
              /\ resolveRow(s)
              /\ UNCHANGED <<authVars, healthVars, up, draining, post,
                             postToken, backingOff>>

\* Mutant: the timer gives up once the upload path reads blocked.
Tick_givesUp == /\ Handler /\ ~draining /\ ~backingOff /\ ~unreachable
                /\ getReplayAuth # NoToken
                /\ draining' = TRUE
                /\ UNCHANGED <<queueVars, authVars, healthVars, up, post,
                               postToken, backingOff>>

\* The 3 s timer: scheduleDrain(false).
Tick == /\ Handler /\ ~draining /\ ~backingOff
        /\ getReplayAuth # NoToken
        /\ draining' = TRUE
        /\ UNCHANGED <<queueVars, authVars, healthVars, up, post, postToken,
                       backingOff>>

\* The clock passes nextAllowedAt (1 s doubling to 30 s).
BackoffElapses == /\ up /\ backingOff
                  /\ backingOff' = FALSE
                  /\ UNCHANGED <<queueVars, authVars, healthVars, up, draining,
                                 post, postToken>>

-----------------------------------------------------------------------------
(* The drain loop *)

ParkHead(s) == /\ InDrain
               /\ parkUnreadable(s)
               /\ UNCHANGED <<authVars, healthVars, up, draining, post,
                              postToken, backingOff>>

Send(s) == /\ InDrain
           /\ peeked(s)
           /\ getReplayAuth # NoToken
           /\ markInflight(s)
           /\ post' = s
           /\ postToken' = current
           /\ UNCHANGED <<authVars, healthVars, up, draining, backingOff>>

EndDrain == /\ InDrain
            /\ \/ NoOpenRow
               \/ getReplayAuth = NoToken /\ \E s \in Seqs : peeked(s)
            /\ draining' = FALSE
            /\ UNCHANGED <<queueVars, authVars, healthVars, up, post,
                           postToken, backingOff>>

-----------------------------------------------------------------------------
(* The awaited POST settles.  The loop goes on unless the answer stops it. *)

Settled == up /\ post # NoPost /\ post' = NoPost /\ postToken' = NoToken

HearOk == /\ Settled
          /\ noteTransportOk
          /\ ack(post)
          /\ UNCHANGED <<authVars, up, draining>>

\* 409, or a 200 'duplicate' whose prior_result is 'conflict'.
HearConflict == /\ Settled
                /\ noteTransportOk
                /\ markConflict(post)
                /\ UNCHANGED <<authVars, up, draining>>

HearRefused == /\ Settled
               /\ noteTransportOk
               /\ markFailed(post)
               /\ UNCHANGED <<authVars, up, draining>>

\* Mutant: the loop goes on after an answer that did not judge the row.
HearRetry_drainsOn == /\ Settled
                      /\ releaseToPending(post)
                      /\ noteTransportFailure
                      /\ UNCHANGED <<authVars, up, draining>>

\* 429, any answer >= 500, a network error, or the 20 s deadline.
HearRetry == /\ Settled
             /\ releaseToPending(post)
             /\ noteTransportFailure
             /\ draining' = FALSE
             /\ UNCHANGED <<authVars, up>>

\* Mutant: the 401 branch as it once was, noting the transport healthy.
HearUnauthorized_laundered == /\ Settled
                              /\ noteTransportOk
                              /\ markTokenRejected(postToken)
                              /\ releaseToPending(post)
                              /\ draining' = FALSE
                              /\ UNCHANGED up

\* Mutant: the session of the moment is refused, not the one that was sent.
HearUnauthorized_rejectsCurrent == /\ Settled
                                   /\ failures' = 0
                                   /\ backingOff' = FALSE
                                   /\ pausedOnAuth' = TRUE
                                   /\ reportUnreachable
                                   /\ markTokenRejected(current)
                                   /\ releaseToPending(post)
                                   /\ draining' = FALSE
                                   /\ UNCHANGED up

HearUnauthorized == /\ Settled
                    /\ failures' = 0
                    /\ backingOff' = FALSE
                    /\ pausedOnAuth' = TRUE
                    /\ reportUnreachable
                    /\ markTokenRejected(postToken)
                    /\ releaseToPending(post)
                    /\ draining' = FALSE
                    /\ UNCHANGED up

-----------------------------------------------------------------------------
(* The process stops, dies and starts *)

\* All of it lives in memory, the session included.
loseMemory == /\ current' = NoToken /\ rejected' = NoToken
              /\ draining' = FALSE /\ post' = NoPost /\ postToken' = NoToken
              /\ backingOff' = FALSE /\ failures' = 0
              /\ pausedOnAuth' = FALSE /\ unreachable' = FALSE

\* The window closes: stop() aborts the POST, whose row goes back to pending.
Stop == /\ Handler
        /\ IF post = NoPost THEN UNCHANGED queueVars ELSE releaseToPending(post)
        /\ up' = FALSE
        /\ loseMemory

PowerCut == /\ up
            /\ up' = FALSE
            /\ loseMemory
            /\ UNCHANGED queueVars

\* The boot drain finds no session yet, so it never reads the queue.
Boot == /\ ~up
        /\ up' = TRUE
        /\ UNCHANGED queueVars
        /\ UNCHANGED <<authVars, healthVars, draining, post, postToken,
                       backingOff>>

LoseProfile == /\ ~up
               /\ loseKey
               /\ UNCHANGED <<authVars, healthVars, up, draining, post,
                              postToken, backingOff>>

-----------------------------------------------------------------------------
Hear == HearOk \/ HearConflict \/ HearRefused \/ HearRetry \/ HearUnauthorized

Drain == EndDrain \/ \E s \in Seqs : ParkHead(s) \/ Send(s)

WorkerNext ==
    \/ \E s \in Seqs : Enqueue(s)
    \/ \E s \in Seqs : Resolve(s)
    \/ \E t \in Tokens \cup {NoToken} : PushAuth(t)
    \/ Tick
    \/ BackoffElapses
    \/ \E s \in Seqs : ParkHead(s)
    \/ \E s \in Seqs : Send(s)
    \/ EndDrain
    \/ HearOk
    \/ HearConflict
    \/ HearRefused
    \/ HearRetry
    \/ HearUnauthorized
    \/ Stop
    \/ PowerCut
    \/ Boot
    \/ LoseProfile

WorkerSpec == WorkerInit /\ [][WorkerNext]_workerVars

Judged == HearOk \/ HearConflict \/ HearRefused

\* The renderer's auth refresh, while replay has no session it may use.
FreshPush == /\ getReplayAuth = NoToken
             /\ \E t \in Tokens \ {rejected} : PushAuth(t)

(***************************************************************************)
(* Timers fire and every POST settles by its deadline (WF); the station is *)
(* started again after it stops (WF).  Of the environment: the renderer    *)
(* signs in again, a drain is not cut by a power failure every time, and   *)
(* the server judges a write it is asked about for ever (SF).              *)
(***************************************************************************)
WorkerFairness == /\ WF_workerVars(Tick)
                  /\ WF_workerVars(BackoffElapses)
                  /\ WF_workerVars(Hear)
                  /\ WF_workerVars(Boot)
                  /\ SF_workerVars(FreshPush)
                  /\ SF_workerVars(Drain)
                  /\ SF_workerVars(Judged)

FairWorkerSpec == WorkerSpec /\ WorkerFairness

-----------------------------------------------------------------------------
(* Properties *)

\* One POST at a time, strictly by seq: an inflight row is the lowest open
\* row, also one a crash left behind, and an awaited POST's row is inflight.
InflightIsHead == /\ \A s \in Seqs : row[s] = "inflight" => IsHead(s)
                  /\ post # NoPost => row[post] = "inflight"

\* The UPDATEs of the queue select by key alone, yet none ever lands on a
\* row that is done: acked and resolved are final, and a refused row leaves
\* its state only by a manager's dismissal.
DoneStaysDone ==
    [][\A s \in Seqs :
         /\ row[s] \in {"acked", "resolved"} => row'[s] = row[s]
         /\ row[s] \in Refused => row'[s] \in {row[s], "resolved"}]_workerVars

\* A session replay refused reads as a blocked upload path, whatever pushes
\* of the same or other tokens crossed the 401 (sync-worker.ts header).
RefusedSessionReadsBlocked ==
    current # NoToken /\ current = rejected => unreachable

\* The loop never sends inside the backoff window, although kicks clear the
\* window while a POST is out.
NoDrainWhileBackingOff == InDrain => ~backingOff

\* Every queued write is judged: it ends acked, refused or dismissed, and
\* no lost wake-up, poisoned row, 401 pause or crash parks it for ever.
EveryWriteJudged ==
    \A s \in Seqs : row[s] \in Open ~> row[s] \notin Open

\* sync-worker.test.ts: "acked rows clear uploadBlocked-by-worker on the next
\* success".  A judged answer leaves the upload path unblocked.
SuccessClearsBlocked == [][Judged => ~unreachable']_workerVars

=============================================================================
