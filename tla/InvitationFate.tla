---------------------------- MODULE InvitationFate ----------------------------
(***************************************************************************)
(* What an invitation promises, with its proof, its requests, its jobs and *)
(* the two places a session is kept in left out: one end, one session that *)
(* can be used at a time, and none once the invitation is sealed.          *)
(***************************************************************************)
CONSTANT Sessions

VARIABLES
    status,         \* as in InvitationClaim
    acceptedBy,     \* "nobody", "account" or "claim"
    member,         \* the claim user has the membership
    usable,         \* sessions of the claim that can be used
    gone,           \* sessions that never can be, or no longer
    sealed          \* who ended the invitation was told that no session is left

Unaccepted == {"pending", "claim_verified"}

Init ==
    /\ status = "pending"
    /\ acceptedBy = "nobody"
    /\ member = FALSE
    /\ usable = {}
    /\ gone = {}
    /\ sealed = FALSE

Claim ==
    /\ status = "pending"
    /\ status' = "claim_verified"
    /\ UNCHANGED <<acceptedBy, member, usable, gone, sealed>>

AcceptByAccount ==
    /\ status = "pending"
    /\ status' = "accepted"
    /\ acceptedBy' = "account"
    /\ UNCHANGED <<member, usable, gone, sealed>>

\* By the user of the claim, who has been given a session
AcceptByClaim ==
    /\ status = "claim_verified"
    /\ usable \cup gone # {}
    /\ status' = "accepted"
    /\ acceptedBy' = "claim"
    /\ member' = TRUE
    /\ UNCHANGED <<usable, gone, sealed>>

\* One session at a time, never the same again, and none to an invitation that
\* is unclaimed, sealed or accepted by another account
Open(s) ==
    /\ status # "pending" /\ acceptedBy # "account"
    /\ ~sealed
    /\ usable = {} /\ s \notin gone
    /\ usable' = {s}
    /\ UNCHANGED <<status, acceptedBy, member, gone, sealed>>

Discard(s) ==
    /\ usable' = usable \ {s}
    /\ gone' = gone \cup {s}

Close(s) ==
    /\ Discard(s)
    /\ UNCHANGED <<status, acceptedBy, member, sealed>>

\* Revoked or expired; its session may end with it
End ==
    /\ status \in Unaccepted
    /\ status' \in {"revoked", "expired"}
    /\ (\E s \in Sessions : Discard(s)) \/ UNCHANGED <<usable, gone>>
    /\ sealed' \in BOOLEAN /\ (sealed' => usable' = {})
    /\ UNCHANGED <<acceptedBy, member>>

Seal ==
    /\ status \in {"revoked", "expired"}
    /\ usable = {}
    /\ sealed' = TRUE
    /\ UNCHANGED <<status, acceptedBy, member, usable, gone>>

Next ==
    \/ Claim \/ AcceptByAccount \/ AcceptByClaim
    \/ \E s \in Sessions : Open(s) \/ Close(s)
    \/ End \/ Seal

Spec == Init /\ [][Next]_<<status, acceptedBy, member, usable, gone, sealed>>
=============================================================================
