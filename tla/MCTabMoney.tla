----------------------------- MODULE MCTabMoney -----------------------------
(* TabMoney for TLC: two sessions of the manager. *)
EXTENDS TabMoney, TLC

Sessions == Permutations(Clerks)

=============================================================================
