----------------------------- MODULE MCPeerPool -----------------------------
(* Peers on the internet, p and a of which may be pinned, and one on Tor.   *)
EXTENDS PeerPool
CONSTANTS p, a, b, o, tor

MCNetworkOf == (p :> Direct) @@ (a :> Direct) @@ (b :> Direct) @@ (o :> tor)
=============================================================================
