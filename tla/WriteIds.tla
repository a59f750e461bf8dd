------------------------------ MODULE WriteIds ------------------------------
(***************************************************************************)
(* The names the till and the server share: the queued writes and the      *)
(* staff sessions they are replayed with.                                  *)
(*                                                                         *)
(* A write is named by the AUTOINCREMENT seq of its row.  Its              *)
(* idempotency_key "{station}:{type}:{ulid}" is UNIQUE in the till's table *)
(* and travels with every attempt, so the seq also stands for the key.     *)
(***************************************************************************)
EXTENDS Naturals

CONSTANTS MaxRows,      \* bound: how many writes are ever queued
          Tokens,       \* access tokens the renderer may push
          NoToken,      \* null
          Owner         \* the staff member a token signs in

ASSUME MaxRowsAssumption == MaxRows \in Nat \ {0}
ASSUME TokenAssumption == NoToken \notin Tokens

Seqs == 1..MaxRows
Staff == {Owner[t] : t \in Tokens}

=============================================================================
