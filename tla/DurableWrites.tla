---------------------------- MODULE DurableWrites ----------------------------
(***************************************************************************)
(* What the write path promises the person at the till, without worker,    *)
(* network or server: a write the till accepted is never lost, it takes    *)
(* effect at most once, and writes are judged strictly in the order they   *)
(* were queued.  "delivered" is said only of a write in effect.            *)
(*                                                                         *)
(* Truthful chooses the strength of a refusal.  TRUE: a refused write      *)
(* never took effect and never will.  FALSE: a refusal says only that the  *)
(* till stopped trying, and the write may be, or yet come, into effect.    *)
(***************************************************************************)
EXTENDS Naturals

CONSTANTS Writes,       \* a set of numbers: the order they were queued in
          Truthful

VARIABLES state,        \* what the till shows of each write
          times         \* how often it took effect

durableVars == <<state, times>>

DurableInit == /\ state = [w \in Writes |-> "none"]
               /\ times = [w \in Writes |-> 0]

\* Every earlier write has been judged.
ItsTurn(w) == \A v \in Writes : v < w => state[v] \notin {"none", "queued"}

Queue(w) == /\ state[w] = "none"
            /\ \A v \in Writes : v < w => state[v] # "none"
            /\ state' = [state EXCEPT ![w] = "queued"]
            /\ UNCHANGED times

TakesEffect(w) == /\ times[w] = 0
                  /\ ItsTurn(w)
                  /\ \/ state[w] = "queued"
                     \/ ~Truthful /\ state[w] \in {"refused", "dismissed"}
                  /\ times' = [times EXCEPT ![w] = 1]
                  /\ UNCHANGED state

Deliver(w) == /\ state[w] = "queued"
              /\ ItsTurn(w)
              /\ times[w] = 1
              /\ state' = [state EXCEPT ![w] = "delivered"]
              /\ UNCHANGED times

Refuse(w) == /\ state[w] = "queued"
             /\ ItsTurn(w)
             /\ Truthful => times[w] = 0
             /\ state' = [state EXCEPT ![w] = "refused"]
             /\ UNCHANGED times

Dismiss(w) == /\ state[w] = "refused"
              /\ state' = [state EXCEPT ![w] = "dismissed"]
              /\ UNCHANGED times

DurableNext == \E w \in Writes : \/ Queue(w) \/ TakesEffect(w) \/ Deliver(w)
                                 \/ Refuse(w) \/ Dismiss(w)

DurableSpec == DurableInit /\ [][DurableNext]_durableVars

=============================================================================
