----------------------------- MODULE TillQueue -----------------------------
(***************************************************************************)
(* The till's durable outbox: the SQLite table mutation_queue of           *)
(* apps/operator-shell/src/main/queue.ts.                                  *)
(*                                                                         *)
(* Every action below is one SQL statement, committed and fsynced before   *)
(* it returns (journal_mode WAL, synchronous FULL), hence atomic and       *)
(* durable.  The UPDATEs carry exactly the WHERE clause of the source: all *)
(* but resolveRow select by key alone, whatever state the row is in.       *)
(***************************************************************************)
EXTENDS WriteIds

VARIABLES row,          \* state column by seq; "absent" before the INSERT
          readable      \* seqs whose payload this OS account can decrypt

queueVars == <<row, readable>>

Open == {"pending", "inflight"}          \* what peekNext selects
Refused == {"conflict", "failed"}        \* what resolveRow accepts
Blocking == Open \cup Refused            \* what listBlockingRows selects
RowState == Blocking \cup {"absent", "acked", "resolved"}

QueueTypeOK == /\ row \in [Seqs -> RowState]
               /\ readable \subseteq Seqs

QueueInit == /\ row = [s \in Seqs |-> "absent"]
             /\ readable = {}

SetState(s, st) == row' = [row EXCEPT ![s] = st]

\* The seq the next INSERT receives.
IsNew(s) == /\ row[s] = "absent"
            /\ \A t \in 1..(s-1) : row[t] # "absent"

\* ORDER BY seq LIMIT 1 over the open rows.
IsHead(s) == /\ row[s] \in Open
             /\ \A t \in 1..(s-1) : row[t] \notin Open

NoOpenRow == \A s \in Seqs : row[s] \notin Open

\* Mutant: the row is inserted with the state the IPC reply carries.
enqueue_replyState(s) == IsNew(s) /\ SetState(s, "queued")
                         /\ readable' = readable \cup {s}

enqueue(s) == /\ IsNew(s)
              /\ SetState(s, "pending")
              /\ readable' = readable \cup {s}

\* Mutant: a row that cannot be decrypted is left where it is.
parkUnreadable_wedges(s) == IsHead(s) /\ s \notin readable
                            /\ UNCHANGED queueVars

\* One turn of peekNext's loop that finds a head it cannot decrypt.
parkUnreadable(s) == /\ IsHead(s)
                     /\ s \notin readable
                     /\ SetState(s, "failed")
                     /\ UNCHANGED readable

\* Mutant: peekNext forgets the row a crash left inflight.
peeked_pendingOnly(s) == /\ row[s] = "pending" /\ s \in readable
                         /\ \A t \in 1..(s-1) : row[t] # "pending"

\* Mutant: peekNext without ORDER BY seq.
peeked_anyOrder(s) == row[s] \in Open /\ s \in readable

\* The row peekNext returns.
peeked(s) == IsHead(s) /\ s \in readable

markInflight(s)     == SetState(s, "inflight") /\ UNCHANGED readable
releaseToPending(s) == SetState(s, "pending")  /\ UNCHANGED readable
markConflict(s)     == SetState(s, "conflict") /\ UNCHANGED readable
markFailed(s)       == SetState(s, "failed")   /\ UNCHANGED readable
ack(s)              == SetState(s, "acked")    /\ UNCHANGED readable

\* Mutant: resolveRow without its state condition.
resolveRow_anyState(s) == /\ row[s] # "absent"
                          /\ SetState(s, "resolved")
                          /\ UNCHANGED readable

resolveRow(s) == /\ row[s] \in Refused
                 /\ SetState(s, "resolved")
                 /\ UNCHANGED readable

\* The OS key changes between two launches: nothing stored so far decrypts.
loseKey == readable' = {} /\ UNCHANGED row

=============================================================================
