--------------------------- MODULE MCAuditDelivery ---------------------------
EXTENDS AuditDelivery, TLC

\* Ids of audits, events and invocations are only compared with each other
Symmetric == Permutations(Audits) \cup Permutations(Plain)
                 \cup Permutations(Workers)

=============================================================================
