--------------------------- MODULE MCPeerRequests ---------------------------
(* Two peers, the first of which may be pinned.  Channels hold two filters, *)
(* a batch, and one message of every other kind.                            *)
EXTENDS PeerRequests
CONSTANTS p, q
SmallRoom == [kind \in Kinds |-> IF kind = "cfilters" THEN 2 ELSE 1]
=============================================================================
