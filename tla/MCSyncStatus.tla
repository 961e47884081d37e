---------------------------- MODULE MCSyncStatus ---------------------------
(* Two peers, which may be at different heights when they connect.         *)
EXTENDS SyncStatus
CONSTANTS p1, p2
============================================================================
