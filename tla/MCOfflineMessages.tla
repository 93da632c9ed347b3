------------------------- MODULE MCOfflineMessages -------------------------
(* Small instances of OfflineMessages for TLC.                             *)
EXTENDS OfflineMessages, TLC
=============================================================================
