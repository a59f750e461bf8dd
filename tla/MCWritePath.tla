---------------------------- MODULE MCWritePath ----------------------------
(***************************************************************************)
(* Values for checking WritePath: ann's and bob's sessions, a first write  *)
(* that opens a tab, and followers that name it.                           *)
(***************************************************************************)
EXTENDS WritePath, TLC

CONSTANTS tA, tB, ann, bob, h1, h2,
          K1, K2, K3    \* kind of each write

OneCashier  == [t \in Tokens |-> ann]
TwoCashiers == tA :> ann @@ tB :> bob

HandlerSymmetry == Permutations(Handlers)

MCKind     == [k \in Seqs |-> CASE k = 1 -> K1 [] k = 2 -> K2 [] k = 3 -> K3]
MCAuthor   == [k \in Seqs |-> ann]
MCPinGated == {2} \cap Seqs
TabOpener  == [k \in Seqs |-> IF k = 2 THEN 1 ELSE 0]
NoParent   == [k \in Seqs |-> 0]

=============================================================================
