----------------------------- MODULE Redemption -----------------------------
(***************************************************************************)
(* What a grant that a user must approve promises its client: it is        *)
(* decided once, and tokens for it are handed out at most once, to one     *)
(* redeemer, and only when it was approved.  CibaIssuance implements it.   *)
(***************************************************************************)
CONSTANTS
    Redeemers,      \* attempts to turn the grant into tokens
    None            \* no attempt

VARIABLES
    decision,       \* what became of the grant
    winner,         \* the attempt that may answer with tokens
    served          \* the attempts that did

vars == <<decision, winner, served>>

Decisions == {"open", "approved", "denied", "lapsed"}

Init ==
    /\ decision = "open"
    /\ winner = None
    /\ served = {}

Decide ==
    /\ decision = "open"
    /\ decision' \in {"approved", "denied"}
    /\ UNCHANGED <<winner, served>>

\* The grant is over, whatever it was; a winner may still answer
Lapse ==
    /\ decision # "lapsed"
    /\ decision' = "lapsed"
    /\ UNCHANGED <<winner, served>>

Redeem(r) ==
    /\ decision = "approved"
    /\ winner = None
    /\ winner' = r
    /\ UNCHANGED <<decision, served>>

Serve(r) ==
    /\ winner = r
    /\ served' = served \cup {r}
    /\ UNCHANGED <<decision, winner>>

Next ==
    \/ Decide
    \/ Lapse
    \/ \E r \in Redeemers : Redeem(r) \/ Serve(r)

Spec == Init /\ [][Next]_vars
=============================================================================
