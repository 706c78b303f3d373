--------------------------- MODULE InvitationClaim ---------------------------
(***************************************************************************)
(* One invitation whose invitee has no account: the proof mailed to the    *)
(* address, the requests that verify it (each consumes or recovers the     *)
(* claim, issues a browser session and accepts the invitation), and what   *)
(* may end the invitation meanwhile: an account that accepts it, a manager *)
(* who revokes it, and the hourly job that expires it.                     *)
(*                                                                         *)
(* A statement or a batch of D1 is one step, and so is a call of the       *)
(* SessionDO; whoever waits for one is at a value of pc, manager or cron.  *)
(* A call that throws may have had its effect.  A claim is consumed once,  *)
(* by the batch that leaves "pending", so there is one claim user and one  *)
(* consumption id.  The reservation's lease of 30 seconds is "fresh" and   *)
(* later, at any moment, "over".                                           *)
(***************************************************************************)
EXTENDS Naturals

CONSTANTS
    Verifiers,      \* slots for verify requests, each of one browser
    Keys,           \* recovery keys, one of each browser
    Sessions,       \* session ids
    None

ASSUME ConstantsOK == None \notin Sessions \cup Keys

VARIABLES
    status,         \* status of the invitation
    over,           \* expires_at has passed
    proofOver,      \* email_claim_expires_at has passed
    recovery,       \* email_claim_recovery_hash
    claimSession,   \* email_claim_session_id
    lease,          \* email_claim_session_reserved_at
    acceptedBy,     \* accepted_by_user_id
    used,           \* used_count
    member,         \* the claim user has the membership
    inOrg,          \* active_org_id of a claim session is the organization
    row,            \* row[s]: status of s in D1 sessions
    active,         \* the active set of the claim user's SessionDO
    key,            \* key[v]: the recovery key of the browser of slot v
    pc,             \* pc[v]: what request v waits for
    mine,           \* mine[v]: the session it issues or uses
    prev,           \* prev[v]: the reservation it has read
    seen,           \* seen[v]: the status it has read with it
    cookie,         \* the claim session in the winning browser's cookie
    manager,        \* what the revocation of the invitation waits for
    cron,           \* what the hourly job waits for
    picked,         \* the session and status the hourly job has read
    raced           \* sessions revoked while they were being issued

clocks == <<over, proofOver>>
reservation == <<claimSession, lease>>
acceptance == <<acceptedBy, used, member, inOrg>>
sessions == <<row, active, raced>>
requests == <<key, pc, mine, prev, seen, cookie>>
jobs == <<manager, cron, picked>>
vars == <<status, clocks, recovery, reservation, acceptance, sessions, requests,
          jobs>>

Statuses == {"pending", "claim_verified", "accepted", "revoked", "expired"}
Claimed == {"claim_verified", "accepted"}
Waits == {"idle", "stage", "load", "choose", "dropRow", "dropDo", "reserve",
          "insert", "add", "finalize", "confirm", "repair", "undoRow", "undoDo",
          "undoClear", "done"}

-----------------------------------------------------------------------------
(* Helpers *)

Goto(v, l) ==
    /\ pc' = [pc EXCEPT ![v] = l]
    /\ UNCHANGED <<key, mine, prev, seen, cookie>>

Leave(v) ==
    /\ pc' = [pc EXCEPT ![v] = "idle"]
    /\ mine' = [mine EXCEPT ![v] = None]
    /\ prev' = [prev EXCEPT ![v] = None]
    /\ seen' = [seen EXCEPT ![v] = "pending"]
    /\ UNCHANGED key

\* The session v has, which it no longer compares with another
Hold(v, s, l) ==
    /\ mine' = [mine EXCEPT ![v] = s]
    /\ prev' = [prev EXCEPT ![v] = None]
    /\ pc' = [pc EXCEPT ![v] = l]
    /\ UNCHANGED <<key, seen, cookie>>

Issuing(s) == \E v \in Verifiers : mine[v] = s /\ pc[v] \in {"insert", "add"}

Race(s) == raced' = IF Issuing(s) THEN raced \cup {s} ELSE raced

\* UPDATE sessions SET status = 'revoked' WHERE id = s
RevokeRow(s) ==
    /\ row' = [row EXCEPT ![s] = IF @ = "active" THEN "revoked" ELSE @]
    /\ Race(s)
    /\ UNCHANGED active

\* sessionDoRevoke
RevokeInDo(s) ==
    /\ active' = active \ {s}
    /\ Race(s)
    /\ UNCHANGED row

\* An id just minted: nobody holds it
Fresh(s) ==
    /\ row[s] = "none"
    /\ s # claimSession
    /\ s \notin active
    /\ \A v \in Verifiers : s \notin {mine[v], prev[v]}
    /\ s # picked[1]

\* One proof has been mailed
Init ==
    /\ status = "pending"
    /\ over = FALSE
    /\ proofOver = FALSE
    /\ recovery = None
    /\ claimSession = None
    /\ lease = "none"
    /\ acceptedBy = "nobody"
    /\ used = 0
    /\ member = FALSE
    /\ inOrg = FALSE
    /\ row = [s \in Sessions |-> "none"]
    /\ active = {}
    /\ key \in [Verifiers -> Keys]
    /\ pc = [v \in Verifiers |-> "idle"]
    /\ mine = [v \in Verifiers |-> None]
    /\ prev = [v \in Verifiers |-> None]
    /\ seen = [v \in Verifiers |-> "pending"]
    /\ cookie = None
    /\ manager = "idle"
    /\ cron = "idle"
    /\ picked = <<None, "pending">>
    /\ raced = {}

-----------------------------------------------------------------------------
(* The proof, the account, the clock *)

\* startInvitationEmailClaim: a request that waits to consume the proof before
\* it finds another hash
Rotate ==
    /\ status = "pending"
    /\ ~over
    /\ proofOver' = FALSE
    /\ pc' = [v \in Verifiers |-> IF pc[v] = "stage" THEN "idle" ELSE pc[v]]
    /\ UNCHANGED <<status, over, recovery, reservation, acceptance, sessions,
                   key, mine, prev, seen, cookie, jobs>>

\* acceptInvitation, by an account that has verified the address
AcceptByAccount ==
    /\ status = "pending"
    /\ ~over
    /\ status' = "accepted"
    /\ acceptedBy' = "account"
    /\ used' = used + 1
    /\ UNCHANGED <<clocks, recovery, reservation, member, inOrg, sessions,
                   requests, jobs>>

\* The preview and acceptInvitation note that a pending invitation is over
ExpirePending ==
    /\ status = "pending"
    /\ over
    /\ status' = "expired"
    /\ UNCHANGED <<clocks, recovery, reservation, acceptance, sessions, requests,
                   jobs>>

TimePasses ==
    /\ \/ ~over /\ over' = TRUE /\ UNCHANGED <<proofOver, lease>>
       \/ ~proofOver /\ proofOver' = TRUE /\ UNCHANGED <<over, lease>>
       \/ lease = "fresh" /\ lease' = "over" /\ UNCHANGED clocks
    /\ UNCHANGED <<status, recovery, claimSession, acceptance, sessions, requests,
                   jobs>>

-----------------------------------------------------------------------------
(* The verify request: the proof *)

\* verifyAndConsumeInvitationEmailClaim, up to the first write
Begin(v) ==
    /\ pc[v] = "idle"
    /\ ~proofOver
    /\ \/ status \in Claimed /\ acceptedBy # "account" /\ Goto(v, "load")
       \/ status = "pending" /\ ~over /\ Goto(v, "stage")
    /\ UNCHANGED <<status, clocks, recovery, reservation, acceptance, sessions,
                   jobs>>

\* stageClaimProof, one batch.  A request that is late writes nothing, and
\* stops: the claim it loads has another consumption id.
Stage(v) ==
    /\ pc[v] = "stage"
    /\ status = "pending"
    /\ ~over /\ ~proofOver
    /\ status' = "claim_verified"
    /\ recovery' = key[v]
    /\ Goto(v, "load")
    /\ UNCHANGED <<clocks, reservation, acceptance, sessions, jobs>>

\* loadClaimState
Load(v) ==
    /\ pc[v] = "load"
    /\ status \in Claimed
    /\ recovery = key[v]
    /\ prev' = [prev EXCEPT ![v] = claimSession]
    /\ seen' = [seen EXCEPT ![v] = status]
    /\ pc' = [pc EXCEPT ![v] = "choose"]
    /\ UNCHANGED <<status, clocks, recovery, reservation, acceptance, sessions,
                   key, mine, cookie, jobs>>

-----------------------------------------------------------------------------
(* The verify request: its session *)

NextAfterSession(v) == IF seen[v] = "accepted" THEN "repair" ELSE "finalize"

\* The session of this browser, or a new one; a fresh reservation is left alone
Choose(v) ==
    /\ pc[v] = "choose"
    /\ LET s == prev[v] IN
       \/ /\ s \in active
          /\ s = cookie /\ row[s] = "active"
          /\ Hold(v, s, NextAfterSession(v))
       \/ s = None /\ Goto(v, "reserve")
       \/ /\ s # None
          /\ s = claimSession => lease = "over"
          /\ Goto(v, "dropRow")
    /\ UNCHANGED <<status, clocks, recovery, reservation, acceptance, sessions,
                   jobs>>

\* revokeSessionByIdentity of the session reserved before
DropRow(v) ==
    /\ pc[v] = "dropRow"
    /\ RevokeRow(prev[v])
    /\ Goto(v, "dropDo")
    /\ UNCHANGED <<status, clocks, recovery, reservation, acceptance, jobs>>

DropInDo(v) ==
    /\ pc[v] = "dropDo"
    /\ RevokeInDo(prev[v])
    /\ Goto(v, "reserve")
    /\ UNCHANGED <<status, clocks, recovery, reservation, acceptance, jobs>>

\* Mutant: the reservation is not compared with the one that was read
ReserveAny(v) ==
    /\ pc[v] = "reserve"
    /\ status \in Claimed
    /\ \E s \in Sessions :
           /\ Fresh(s)
           /\ claimSession' = s
           /\ Hold(v, s, "insert")
    /\ lease' = "fresh"
    /\ UNCHANGED <<status, clocks, recovery, acceptance, sessions, jobs>>

Reserve(v) ==
    /\ pc[v] = "reserve"
    /\ status \in Claimed
    /\ claimSession = prev[v]
    /\ \E s \in Sessions :
           /\ Fresh(s)
           /\ claimSession' = s
           /\ Hold(v, s, "insert")
    /\ lease' = "fresh"
    /\ UNCHANGED <<status, clocks, recovery, acceptance, sessions, jobs>>

\* issueSession: the row, then the SessionDO
Insert(v) ==
    /\ pc[v] = "insert"
    /\ \/ /\ row' = [row EXCEPT ![mine[v]] = "active"]
          /\ Goto(v, "add") \/ Goto(v, "undoRow")
       \/ UNCHANGED row /\ Goto(v, "undoRow")
    /\ UNCHANGED <<status, clocks, recovery, reservation, acceptance, active,
                   raced, jobs>>

AddInDo(v) ==
    /\ pc[v] = "add"
    /\ \/ /\ active' = active \cup {mine[v]}
          /\ Goto(v, NextAfterSession(v)) \/ Goto(v, "undoRow")
       \/ UNCHANGED active /\ Goto(v, "undoRow")
    /\ UNCHANGED <<status, clocks, recovery, reservation, acceptance, row, raced,
                   jobs>>

\* clearFailedReservation: the row, the SessionDO unless that threw, and the
\* reservation unless the row is still active
UndoRow(v) ==
    /\ pc[v] = "undoRow"
    /\ \/ RevokeRow(mine[v]) /\ (Goto(v, "undoDo") \/ Goto(v, "undoClear"))
       \/ UNCHANGED sessions /\ Goto(v, "undoClear")
    /\ UNCHANGED <<status, clocks, recovery, reservation, acceptance, jobs>>

UndoInDo(v) ==
    /\ pc[v] = "undoDo"
    /\ RevokeInDo(mine[v]) \/ UNCHANGED sessions
    /\ Goto(v, "undoClear")
    /\ UNCHANGED <<status, clocks, recovery, reservation, acceptance, jobs>>

\* Mutant: reserved_at is not cleared with the reservation
UndoHalf(v) ==
    /\ pc[v] = "undoClear"
    /\ row[mine[v]] # "active"
    /\ status \in Claimed
    /\ claimSession = mine[v]
    /\ claimSession' = None
    /\ Leave(v) /\ UNCHANGED cookie
    /\ UNCHANGED <<status, clocks, recovery, lease, acceptance, sessions, jobs>>

UndoClear(v) ==
    /\ pc[v] = "undoClear"
    /\ row[mine[v]] # "active"
    /\ status \in Claimed
    /\ claimSession = mine[v]
    /\ claimSession' = None
    /\ lease' = "none"
    /\ Leave(v) /\ UNCHANGED cookie
    /\ UNCHANGED <<status, clocks, recovery, acceptance, sessions, jobs>>

-----------------------------------------------------------------------------
(* The verify request: the acceptance *)

\* The conditions of freezeFinalization
Freezes(v) ==
    /\ status = "claim_verified"
    /\ ~over
    /\ recovery = key[v]
    /\ claimSession = mine[v]
    /\ row[mine[v]] = "active"

\* Mutant: the memberships are written whether or not the batch has won
FinalizeUnguarded(v) ==
    /\ pc[v] = "finalize"
    /\ member' = TRUE
    /\ IF Freezes(v)
       THEN /\ status' = "accepted"
            /\ acceptedBy' = "claim"
            /\ used' = used + 1
            /\ inOrg' = TRUE
            /\ Goto(v, "done")
       ELSE Goto(v, "confirm") /\ UNCHANGED <<status, acceptedBy, used, inOrg>>
    /\ UNCHANGED <<clocks, recovery, reservation, sessions, jobs>>

\* finalizeClaimAcceptance: one batch, all of it or nothing
Finalize(v) ==
    /\ pc[v] = "finalize"
    /\ \/ /\ Freezes(v)
          /\ status' = "accepted"
          /\ acceptedBy' = "claim"
          /\ used' = used + 1
          /\ member' = TRUE
          /\ inOrg' = TRUE
          /\ Goto(v, "done")
       \/ ~Freezes(v) /\ Goto(v, "confirm") /\ UNCHANGED <<status, acceptance>>
    /\ UNCHANGED <<clocks, recovery, reservation, sessions, jobs>>

Confirm(v) ==
    /\ pc[v] = "confirm"
    /\ status = "accepted" /\ acceptedBy = "claim"
    /\ Goto(v, "done")
    /\ UNCHANGED <<status, clocks, recovery, reservation, acceptance, sessions,
                   jobs>>

\* repairAcceptedClaim
Repair(v) ==
    /\ pc[v] = "repair"
    /\ member /\ acceptedBy = "claim"
    /\ row[mine[v]] = "active"
    /\ inOrg' = TRUE
    /\ Goto(v, "done")
    /\ UNCHANGED <<status, clocks, recovery, reservation, acceptedBy, used, member,
                   sessions, jobs>>

\* The answer with its cookie, set by issueSession
Answer(v) ==
    /\ pc[v] = "done"
    /\ cookie' = mine[v]
    /\ Leave(v)
    /\ UNCHANGED <<status, clocks, recovery, reservation, acceptance, sessions,
                   jobs>>

\* The request is refused, it throws, its worker stops, or its answer is lost;
\* an error is answered with the cookie of a session that was issued before
Drop(v) ==
    /\ pc[v] # "idle"
    /\ \/ pc[v] \in {"finalize", "confirm", "repair"} /\ cookie' = mine[v]
       \/ UNCHANGED cookie
    /\ Leave(v)
    /\ UNCHANGED <<status, clocks, recovery, reservation, acceptance, sessions,
                   jobs>>

-----------------------------------------------------------------------------
(* The manager and the hourly job *)

\* markInvitationRevoked
RevokeInvitation ==
    /\ status \in {"pending", "claim_verified"}
    /\ status' = "revoked"
    /\ manager' = IF claimSession = None THEN "told" ELSE "row"
    /\ UNCHANGED <<clocks, recovery, reservation, acceptance, sessions, requests,
                   cron, picked>>

\* revokeSessionByIdentity of the claim's session
RevokeClaimRow ==
    /\ manager = "row"
    /\ RevokeRow(claimSession)
    /\ manager' = "do"
    /\ UNCHANGED <<status, clocks, recovery, reservation, acceptance, requests,
                   cron, picked>>

RevokeClaimInDo ==
    /\ manager = "do"
    /\ RevokeInDo(claimSession)
    /\ manager' = "told"
    /\ UNCHANGED <<status, clocks, recovery, reservation, acceptance, requests,
                   cron, picked>>

\* The manager is answered an error, which is not repeated: the status is 409
ManagerFails ==
    /\ manager \in {"row", "do"}
    /\ manager' = "idle"
    /\ UNCHANGED <<status, clocks, recovery, reservation, acceptance, sessions,
                   requests, cron, picked>>

Due ==
    \/ status \in {"pending", "claim_verified"} /\ over
    \/ status = "claim_verified" /\ proofOver

\* expireInvitationClaims
PickClaim ==
    /\ cron = "idle"
    /\ Due \/ (status = "expired" /\ claimSession # None)
    /\ picked' = <<claimSession, status>>
    /\ cron' = "batch"
    /\ UNCHANGED <<status, clocks, recovery, reservation, acceptance, sessions,
                   requests, manager>>

\* The row read is still the one to end
StillDue ==
    IF picked[2] = "expired" THEN status = "expired" /\ claimSession = picked[1]
                             ELSE Due

\* Mutant: the session's row is left to the cleanup that follows
ExpireBatchNoRow ==
    /\ cron = "batch"
    /\ StillDue
    /\ status' = "expired"
    /\ recovery' = IF claimSession = None THEN None ELSE recovery
    /\ picked[1] # None
    /\ cron' = "do"
    /\ UNCHANGED <<clocks, reservation, acceptance, sessions, requests, manager,
                   picked>>

\* One batch: the session's row, then the invitation
ExpireBatch ==
    /\ cron = "batch"
    /\ StillDue
    /\ status' = "expired"
    /\ recovery' = IF claimSession = None THEN None ELSE recovery
    /\ IF picked[1] # None /\ picked[1] = claimSession THEN RevokeRow(claimSession)
                                                       ELSE UNCHANGED sessions
    /\ IF picked[1] # None
       THEN cron' = "do" /\ UNCHANGED picked
       ELSE cron' = "idle" /\ picked' = <<None, "pending">>
    /\ UNCHANGED <<clocks, reservation, acceptance, requests, manager>>

ExpireInDo ==
    /\ cron = "do"
    /\ RevokeInDo(picked[1])
    /\ cron' = "clear"
    /\ UNCHANGED <<status, clocks, recovery, reservation, acceptance, requests,
                   manager, picked>>

ClearExpired ==
    /\ cron = "clear"
    /\ status = "expired"
    /\ claimSession = picked[1]
    /\ claimSession' = None
    /\ lease' = "none"
    /\ recovery' = None
    /\ cron' = "idle"
    /\ picked' = <<None, "pending">>
    /\ UNCHANGED <<status, clocks, acceptance, sessions, requests, manager>>

\* The row has changed, a call throws, or the worker stops
CronEnds ==
    /\ cron # "idle"
    /\ cron' = "idle"
    /\ picked' = <<None, "pending">>
    /\ UNCHANGED <<status, clocks, recovery, reservation, acceptance, sessions,
                   requests, manager>>

Verify(v) ==
    \/ Begin(v)
    \/ Stage(v)
    \/ Load(v)
    \/ Choose(v)
    \/ DropRow(v)
    \/ DropInDo(v)
    \/ Reserve(v)
    \/ Insert(v)
    \/ AddInDo(v)
    \/ UndoRow(v)
    \/ UndoInDo(v)
    \/ UndoClear(v)
    \/ Finalize(v)
    \/ Confirm(v)
    \/ Repair(v)
    \/ Answer(v)
    \/ Drop(v)

Manage == RevokeInvitation \/ RevokeClaimRow \/ RevokeClaimInDo \/ ManagerFails

Expire == PickClaim \/ ExpireBatch \/ ExpireInDo \/ ClearExpired \/ CronEnds

Next ==
    \/ Rotate
    \/ AcceptByAccount
    \/ ExpirePending
    \/ TimePasses
    \/ \E v \in Verifiers : Verify(v)
    \/ Manage
    \/ Expire

Spec == Init /\ [][Next]_vars

-----------------------------------------------------------------------------
(* Properties *)

\* Every variable keeps its type, and a reservation has its time just while
\* there is one (invitation-claim-session.ts, one UPDATE for both columns).
TypeOK ==
    /\ status \in Statuses
    /\ over \in BOOLEAN /\ proofOver \in BOOLEAN
    /\ recovery \in Keys \cup {None}
    /\ claimSession \in Sessions \cup {None}
    /\ lease \in {"none", "fresh", "over"}
    /\ acceptedBy \in {"nobody", "claim", "account"}
    /\ used \in Nat
    /\ member \in BOOLEAN /\ inOrg \in BOOLEAN
    /\ row \in [Sessions -> {"none", "active", "revoked"}]
    /\ active \subseteq Sessions
    /\ key \in [Verifiers -> Keys]
    /\ pc \in [Verifiers -> Waits]
    /\ mine \in [Verifiers -> Sessions \cup {None}]
    /\ prev \in [Verifiers -> Sessions \cup {None}]
    /\ seen \in [Verifiers -> Statuses]
    /\ cookie \in Sessions \cup {None}
    /\ manager \in {"idle", "row", "do", "told"}
    /\ cron \in {"idle", "batch", "do", "clear"}
    /\ picked \in (Sessions \cup {None}) \X Statuses
    /\ raced \subseteq Sessions
    /\ lease = "none" <=> claimSession = None

\* An invitation is accepted once, by its claim or by an account (used_count,
\* max 1), and the claim user's membership and active organization come only
\* with the acceptance by the claim, never from a batch that lost to a
\* revocation, an expiry, an account or another request
\* (invitation-claim-finalize.ts, the guard of each statement).
OneAcceptance ==
    /\ used = IF status = "accepted" THEN 1 ELSE 0
    /\ acceptedBy # "nobody" <=> status = "accepted"
    /\ member \/ inOrg => acceptedBy = "claim"

\* A session that still counts is the one the invitation names, so that whoever
\* ends the claim finds it; all others were revoked before, unless that hit
\* them while they were being issued (invitation-claim-session.ts).
SessionIsNamed ==
    \A s \in Sessions : row[s] = "active" => s = claimSession \/ s \in raced

\* When the manager was told that the invitation is revoked, or the hourly job
\* has cleared an expired one, no session of the claim is left, with the same
\* exception (v1/invitations.ts revokeInvitation, hourly.ts expireInvitationClaims).
EndedIsClosed ==
    manager = "told" \/ (status = "expired" /\ claimSession = None)
        => \A s \in Sessions : row[s] = "active" => s \in raced

\* Sessions that a browser can use, but for those of the exception above
Usable == {s \in Sessions : row[s] = "active"} \ raced
Gone == {s \in Sessions : row[s] = "revoked"} \cup raced

\* Whoever ended the invitation has been answered, or has finished
Sealed == manager = "told" \/ (status = "expired" /\ claimSession = None)

Fate == INSTANCE InvitationFate
            WITH usable <- Usable, gone <- Gone, sealed <- Sealed

\* However requests, manager and hourly job interleave, the invitation ends
\* once, its sessions are used one after the other and none again, the claim
\* user becomes a member only after a session was issued, and once the manager
\* was told, or the job has cleared the claim, no session is or will be usable
\* (invitation-claim-session.ts, v1/invitations.ts revokeInvitation).
ImplementsFate == Fate!Spec

\* Only the browser that consumed the proof gets a session, whoever else has
\* the link and however their requests race (email_claim_recovery_hash).
OneBrowser ==
    \A v \in Verifiers : mine[v] # None => key[v] = recovery \/ status = "expired"

\* At most one session of the claim can be used (the first comment of
\* invitation-claim-session.ts).
OneSession ==
    \A s, r \in active : row[s] = "active" /\ row[r] = "active" => s = r
=============================================================================
