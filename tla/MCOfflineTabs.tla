---------------------------- MODULE MCOfflineTabs ----------------------------
(* OfflineTabs for TLC; its constants are numbers, given in the .cfg. *)
EXTENDS OfflineTabs
=============================================================================
