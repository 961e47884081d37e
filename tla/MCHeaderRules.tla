--------------------------- MODULE MCHeaderRules ---------------------------
(* Bits: the limit, a sixteenth of it, a target that is not a power of the  *)
(* base, one above the limit, one in another form, and two that checkPoW    *)
(* refuses.                                                                 *)
EXTENDS HeaderRules

Bits(e, m) == [exp |-> e, man |-> m]
MCOffered == {PowLimitBits, Bits(3, 3), Bits(4, 5), Bits(5, 6), Bits(0, 1), Bits(1, 1)}
============================================================================
