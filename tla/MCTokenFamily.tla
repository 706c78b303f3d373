-------------------------- MODULE MCTokenFamily --------------------------
EXTENDS TokenFamily, TLC

\* Ids are only compared with each other
Symmetric == Permutations(Codes) \cup Permutations(Tokens)
                 \cup Permutations(Requests)

=============================================================================
