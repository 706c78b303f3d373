------------------------- MODULE MCSessionRevocation -------------------------
(* SessionRevocation for TLC: ids and requests are interchangeable.          *)
EXTENDS SessionRevocation, TLC

MCSymmetry == Permutations(Sessions) \cup Permutations(Requests)

=============================================================================
