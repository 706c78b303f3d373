----------------------------- MODULE MCAuditChain -----------------------------
(* AuditChain for TLC: digests are the tuples they are taken over, which no  *)
(* two rows share.                                                           *)
EXTENDS AuditChain, TLC

MCGenesis == <<>>
MCHash(seq, m, prev) == <<seq, m, prev>>

MCSymmetry == Permutations(Runs) \cup Permutations(Sources)

=============================================================================
