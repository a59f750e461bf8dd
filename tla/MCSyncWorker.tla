---------------------------- MODULE MCSyncWorker ----------------------------
(* Values for checking SyncWorker by itself: two tokens of one cashier.    *)
EXTENDS SyncWorker, TLC

CONSTANTS tA, tB, ann

OneCashier == tA :> ann @@ tB :> ann

=============================================================================
