------------------------- MODULE MCInvitationClaim -------------------------
(* One invitation, two overlapping requests of any of two browsers *)
EXTENDS InvitationClaim, TLC

CONSTANTS v1, v2, k1, k2, s1, s2

MCVerifiers == {v1, v2}
MCKeys == {k1, k2}
MCSessions == {s1, s2}

Symmetry == Permutations(MCVerifiers) \cup Permutations(MCKeys)
                \cup Permutations(MCSessions)
=============================================================================
