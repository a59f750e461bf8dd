----------------------------- MODULE WritePath -----------------------------
(***************************************************************************)
(* The whole path of a queued write: the till (TillQueue, SyncWorker) and  *)
(* the replay function (ReplayServer), joined by an HTTP request that may  *)
(* be lost, cut at its deadline, or outlive the till that sent it.         *)
(*                                                                         *)
(* conn is the handler whose answer the till awaits.  When the till gives  *)
(* up, or dies, the handler works on: its writes still land, and its       *)
(* answer is heard by nobody.                                              *)
(***************************************************************************)
EXTENDS SyncWorker, ReplayServer

CONSTANT KeyMayBeLost   \* the OS account may lose its key between launches

ASSUME PathAssumption == KeyMayBeLost \in BOOLEAN

VARIABLE conn

pathVars == <<workerVars, serverVars, conn>>

PathTypeOK == /\ WorkerTypeOK
              /\ ServerTypeOK
              /\ conn \in Handlers \cup {NoHandler}

PathInit == WorkerInit /\ ServerInit /\ conn = NoHandler

-----------------------------------------------------------------------------
(* Steps of the till alone, and of the server alone *)

TillStep == /\ \/ \E s \in Seqs : Enqueue(s) \/ Resolve(s) \/ ParkHead(s)
               \/ \E t \in Tokens \cup {NoToken} : PushAuth(t)
               \/ Tick \/ BackoffElapses \/ EndDrain \/ Boot
               \/ KeyMayBeLost /\ LoseProfile
            /\ UNCHANGED <<serverVars, conn>>

\* What neither does: a session runs out, a cook recalls a ticket.
Elsewhere == \/ \E t \in Tokens : Expire(t)
             \/ \E k \in Seqs : Recall(k)

ServerStep == /\ \/ \E h \in Handlers : Serve(h)
                 \/ Elsewhere
              /\ UNCHANGED <<workerVars, conn>>

\* A request on the wire is lost, or an answer nobody awaits is dropped.
NetworkDrops(h) == /\ LoseRequest(h) \/ (h # conn /\ Respond(h))
                   /\ UNCHANGED workerVars
                   /\ conn' = IF h = conn THEN NoHandler ELSE conn

-----------------------------------------------------------------------------
(* Joint steps *)

Post(s, h) == /\ Send(s)
              /\ Receive(h, s, current)
              /\ conn' = h

\* Mutant: any 200 is an ack.
Heard_acksPrior(a) == CASE a \in {"ok", "prior_conflict"} -> HearOk
                        [] a = "clash" -> HearConflict
                        [] a \in {"denied", "orphan"} -> HearRefused
                        [] a = "retry" -> HearRetry
                        [] a = "unauthorized" -> HearUnauthorized

\* The outcome map of replayOne.
Heard(a) == CASE a = "ok" -> HearOk
              [] a \in {"clash", "prior_conflict"} -> HearConflict
              [] a \in {"denied", "orphan"} -> HearRefused
              [] a = "retry" -> HearRetry
              [] a = "unauthorized" -> HearUnauthorized

Deliver(h) == /\ h = conn
              /\ Respond(h)
              /\ Heard(out[h])
              /\ conn' = NoHandler

\* The deadline passes or the connection breaks, whatever the server is at.
GiveUp == /\ HearRetry
          /\ conn' = NoHandler
          /\ UNCHANGED serverVars

TillGoesDown == /\ Stop \/ PowerCut
                /\ conn' = NoHandler
                /\ UNCHANGED serverVars

PathNext ==
    \/ TillStep
    \/ ServerStep
    \/ \E h \in Handlers : NetworkDrops(h)
    \/ \E s \in Seqs, h \in Handlers : Post(s, h)
    \/ \E h \in Handlers : Deliver(h)
    \/ GiveUp
    \/ TillGoesDown

PathSpec == PathInit /\ [][PathNext]_pathVars

-----------------------------------------------------------------------------
(* Fairness.  Timers fire, handlers run on, the till restarts, the renderer*)
(* signs in, an awaited answer arrives or the deadline passes; and the     *)
(* trouble a retry answers to is not endless.                              *)

TillAlone(A) == A /\ UNCHANGED <<serverVars, conn>>

\* TOKEN_REFRESHED: supabase-js pushes a new token, and it is good.
RefreshedPush == /\ getReplayAuth = NoToken
                 /\ \E t \in Tokens \ (expired \cup {rejected}) : PushAuth(t)

DrainStep == \/ TillAlone(EndDrain \/ \E s \in Seqs : ParkHead(s))
             \/ \E s \in Seqs, h \in Handlers : Post(s, h)

AwaitEnds == \/ \E h \in Handlers : Deliver(h)
             \/ conn = NoHandler /\ GiveUp

DropUnheard(h) == /\ h # conn /\ Respond(h)
                  /\ UNCHANGED <<workerVars, conn>>

Trouble == \/ \E h \in Handlers :
                 \/ NotJudged(h) \/ Die(h) \/ LoseRequest(h)
                 \/ Record(h) /\ replays'[key[h]] = "none"
                 \/ CheckCaller(h) /\ out'[h] = "unauthorized"
                                   /\ token[h] \notin expired
           \/ \E t \in expired : PushAuth(t)
           \/ conn # NoHandler /\ GiveUp
           \/ TillGoesDown

PathFairness ==
    /\ WF_pathVars(TillAlone(Tick))
    /\ WF_pathVars(TillAlone(BackoffElapses))
    /\ WF_pathVars(TillAlone(Boot))
    /\ SF_pathVars(TillAlone(RefreshedPush))
    /\ WF_pathVars(DrainStep)
    /\ WF_pathVars(AwaitEnds)
    /\ \A h \in Handlers : /\ WF_pathVars(Serve(h) /\ UNCHANGED <<workerVars, conn>>)
                           /\ WF_pathVars(DropUnheard(h))
    /\ <>[][~Trouble]_pathVars

FairPathSpec == PathSpec /\ PathFairness

-----------------------------------------------------------------------------
(* Properties *)

\* "acked" is never said of a write the database does not hold.
AckTruthful == \A s \in Seqs : row[s] = "acked" => InEffect(s)

\* No retry, concurrent attempt or restart applies a write twice.  A ticket that
\* a cook brought back in between is the exception: sent again, it is completed
\* again.
AppliedAtMostOnce == \A k \in Seqs : effects[k] < 2 \/ k \in recalled

\* The till's order is the database's order: when an earlier write was
\* acked, it took effect before any later one did.
AckedInOrder ==
    \A i, j \in Seqs : i < j /\ row[i] = "acked" /\ InEffect(j) => i \in after[j]

\* queue.ts, peekNext: "re-sending is safe, that is what the idempotency key is
\* for".  An attempt at a write already in effect is never judged a refusal.
ResendIsSafe == \A h \in Handlers : pc[h] = "recording" /\ InEffect(key[h])
                                     => out[h] \in Done

\* A row shown as conflict or failed did not take effect, and a manager who
\* dismisses it dismisses nothing that happened.
RefusalTruthful ==
    \A s \in Seqs : row[s] \in Refused \cup {"resolved"} => ~InEffect(s)

\* The server's stored result never contradicts what the till acked.
AckAgreesWithRecord == \A s \in Seqs : row[s] = "acked" => replays[s] \in Done

\* replay/index.ts on tabIdemKey: "by the time this row replays the tab either
\* exists or its open terminally failed".  An orphan answer is a cascade.
OrphanIsCascade ==
    \A h \in Handlers : pc[h] = "answered" /\ out[h] = "orphan"
        => row[Parent[key[h]]] \in Refused \cup {"resolved"}

\* sync-worker.ts on a 401: "The token the renderer pushed no longer verifies."
OnlyExpiredTokensRefused == rejected # NoToken => rejected \in expired

\* What the till shows of a row, in the terms of DurableWrites.
Shown(st) == CASE st = "absent" -> "none"
               [] st \in Open -> "queued"
               [] st = "acked" -> "delivered"
               [] st \in Refused -> "refused"
               [] st = "resolved" -> "dismissed"

shownState == [s \in Seqs |-> Shown(row[s])]

Durable == INSTANCE DurableWrites
             WITH Writes <- Seqs, Truthful <- FALSE,
                  state <- shownState, times <- effects

TruthfulDurable == INSTANCE DurableWrites
                     WITH Writes <- Seqs, Truthful <- TRUE,
                          state <- shownState, times <- effects

\* Under every failure the till's words mean what DurableWrites says.
ImplementsDurableWrites == Durable!DurableSpec

\* And while no attempt overlaps or dies, a refusal is the last word too.
ImplementsTruthfully == TruthfulDurable!DurableSpec

=============================================================================
