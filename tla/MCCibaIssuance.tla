--------------------------- MODULE MCCibaIssuance ---------------------------
(* One CIBA request and three polls that may be given a reservation *)
EXTENDS CibaIssuance, TLC

CONSTANTS r1, r2, r3

MCReservations == {r1, r2, r3}
MCSymmetry == Permutations(MCReservations)
=============================================================================
