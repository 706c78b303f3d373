----------------------------- MODULE GrantRight -----------------------------
(***************************************************************************)
(* What authorization codes and refresh-token rotation promise, with rows, *)
(* families, fences and denylists left out: the right to the next refresh  *)
(* token of a grant has one bearer at a time.  It begins with the code,    *)
(* goes to the request that spends the code, then to the refresh token     *)
(* that request issues, to the request that spends this one, and so on.    *)
(* It may be lost at any time, and is then lost for good.  TokenFamily     *)
(* implements it.                                                          *)
(***************************************************************************)
CONSTANTS
    Codes,          \* grants, each named after its authorization code
    Tokens,         \* refresh tokens
    Requests        \* who may hold the right in between

VARIABLES
    right,          \* right[c]: the bearers of the right of grant c
    issued          \* the refresh tokens there have been

Init ==
    /\ right = [c \in Codes |-> {"code"}]
    /\ issued = {}

\* A request spends the code, or the refresh token, and nobody else ever can
Spend(q, c) ==
    /\ \E b \in {"code"} \cup Tokens : right[c] = {b}
    /\ right' = [right EXCEPT ![c] = {q}]
    /\ UNCHANGED issued

\* The request that has the right passes it to a new refresh token
Issue(q, c, t) ==
    /\ right[c] = {q}
    /\ t \notin issued
    /\ right' = [right EXCEPT ![c] = {t}]
    /\ issued' = issued \cup {t}

\* Revocation, expiry, or a request that fails; a right that is lost already
\* stays lost
Lose(C) ==
    /\ right' = [c \in Codes |-> IF c \in C THEN {} ELSE right[c]]
    /\ UNCHANGED issued

Next ==
    \/ \E C \in SUBSET Codes : Lose(C)
    \/ \E q \in Requests, c \in Codes :
          Spend(q, c) \/ \E t \in Tokens : Issue(q, c, t)

Spec == Init /\ [][Next]_<<right, issued>>

=============================================================================
