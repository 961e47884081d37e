----------------------------- MODULE MCSettings -----------------------------
(* A peer that answers and one that may not, the networks Tor and I2P.      *)
EXTENDS Settings
CONSTANTS a, b, Tor, I2P
=============================================================================
