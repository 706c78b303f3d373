-------------------------- MODULE SessionRevocation --------------------------
(***************************************************************************)
(* The browser sessions of one user: the rows of D1 sessions, the active   *)
(* set and the generation of the user's SessionDO, and the requests that   *)
(* issue, read, complete and revoke them.                                  *)
(*                                                                         *)
(* A request is a slot of Requests.  It waits for D1 or for the object at  *)
(* every label below, and any other request may take its steps meanwhile.  *)
(* SessionDO itself awaits nothing but its storage, behind its input gate: *)
(* one call of it is one step, and its memory is a cache of its storage.   *)
(*                                                                         *)
(* pending_mfa and pending_mfa_setup are one status, "pending".  Idleness  *)
(* is a matter of time alone: any read may find its row idle and end.      *)
(***************************************************************************)
EXTENDS Naturals

CONSTANTS
    Sessions,       \* session ids, each minted once
    Requests,       \* slots for requests in progress
    NoSession,      \* no session to keep
    MaxGeneration   \* bound on the number of revoke-alls

ASSUME ConstantsOK == /\ NoSession \notin Sessions
                      /\ MaxGeneration \in Nat

VARIABLES
    row,            \* row[s]: status of the row of s in D1 sessions
    members,        \* the active set of SessionDO
    generation,     \* the generation of SessionDO
    userActive,     \* D1 users: status active and not deleted
    lapsed,         \* sessions whose expires_at has passed
    delivered,      \* sessions whose refresh-token cookie a browser was sent
    pc,             \* pc[q]: what request q waits for
    op,             \* op[q]: which handler it runs
    arg,            \* arg[q]: its session; the session to keep, in revoke-all
    stamp,          \* stamp[q]: the expectedGeneration it has read
    fate,           \* what revocations did to a session so far
    began           \* began[q]: fate of the session when q began to read it

stores == <<row, members, generation, userActive, lapsed, delivered>>
vars == <<row, members, generation, userActive, lapsed, delivered,
          pc, op, arg, stamp, fate, began>>

-----------------------------------------------------------------------------
(* Data *)

Stored == {"pending", "active", "revoked", "expired"}
Statuses == Stored \cup {"none", "deleted"}

\* fate, each overriding the ones before: "marked", revokeSessionByIdentity has
\* marked its row; "told", a handler has answered that it is revoked; "out", it
\* left the active set by a revocation that no issuance of it was overlapping
Fates == {"open", "marked", "told", "out"}

Ops == {"none", "issue", "read", "mfa", "signOut", "revoke", "revokeOwn",
        "revokeAll", "revokeCredentials"}

Sweeps == {"revokeAll", "revokeCredentials"}

Waits == {"generation", "insert", "add", "added", "refused",
          "check", "userOk", "memberOk", "accepted", "verify",
          "drop", "closeRow", "sweep", "reply"}

\* The rows a handler's UPDATE ... SET status = 'revoked' selects
Selects(o) == CASE o = "revokeOwn" -> {"active"}
                [] o = "revokeAll" -> {"active"}
                [] o = "revokeCredentials" -> {"active", "pending"}
                [] OTHER -> Stored

\* UPDATE sessions SET status = st WHERE id IN S AND status IN from
Updated(S, from, st) ==
    [s \in Sessions |-> IF s \in S /\ row[s] \in from THEN st ELSE row[s]]

\* persist() drops the entries that have lapsed
Persisted(set) == set \ lapsed

Issuing(q) == op[q] = "issue"

\* The issuance of s has its generation and may still add s
Adding(q, s) == Issuing(q) /\ arg[q] = s /\ pc[q] \in {"insert", "add", "added"}

Told(s) == [fate EXCEPT ![s] = IF fate[s] = "out" THEN "out" ELSE "told"]

\* createPersistedId: an id that no row and no request has
Fresh(s) == /\ row[s] = "none" /\ fate[s] = "open"
            /\ \A q \in Requests : arg[q] # s

-----------------------------------------------------------------------------
Init ==
    /\ row = [s \in Sessions |-> "none"]
    /\ members = {}
    /\ generation = 0
    /\ userActive = TRUE
    /\ lapsed = {}
    /\ delivered = {}
    /\ pc = [q \in Requests |-> "idle"]
    /\ op = [q \in Requests |-> "none"]
    /\ arg = [q \in Requests |-> NoSession]
    /\ stamp = [q \in Requests |-> 0]
    /\ fate = [s \in Sessions |-> "open"]
    /\ began = [q \in Requests |-> "open"]

-----------------------------------------------------------------------------
(* Control *)

Begin(q, o, s, l) ==
    /\ pc[q] = "idle"
    /\ pc' = [pc EXCEPT ![q] = l]
    /\ op' = [op EXCEPT ![q] = o]
    /\ arg' = [arg EXCEPT ![q] = s]

Goto(q, l) ==
    /\ pc' = [pc EXCEPT ![q] = l]
    /\ UNCHANGED <<op, arg>>

\* The handler answers or throws
End(q) ==
    /\ pc' = [pc EXCEPT ![q] = "idle"]
    /\ op' = [op EXCEPT ![q] = "none"]
    /\ arg' = [arg EXCEPT ![q] = NoSession]
    /\ stamp' = [stamp EXCEPT ![q] = 0]
    /\ began' = [began EXCEPT ![q] = "open"]

-----------------------------------------------------------------------------
(* Mutants: slips the properties below must notice *)

\* revokeAllExcept leaves the set with the id it was given, in it or not
FenceKeepsArgument(q, o, keep) ==
    /\ generation < MaxGeneration
    /\ Begin(q, o, keep, "sweep")
    /\ members' = {keep}
    /\ generation' = generation + 1
    /\ UNCHANGED <<row, userActive, lapsed, delivered, stamp, fate, began>>

\* addSession does not compare generations
AddUnfenced(q) ==
    /\ pc[q] = "add"
    /\ members' = Persisted(members \cup {arg[q]})
    /\ Goto(q, "added")
    /\ UNCHANGED <<row, generation, userActive, lapsed, delivered,
                   stamp, fate, began>>

\* issueSession sets the cookie before it asks SessionDO
InsertDelivers(q) ==
    /\ pc[q] = "insert"
    /\ \E st \in {"active", "pending"} : row' = [row EXCEPT ![arg[q]] = st]
    /\ delivered' = delivered \cup {arg[q]}
    /\ Goto(q, "add")
    /\ UNCHANGED <<members, generation, userActive, lapsed,
                   stamp, fate, began>>

\* doIsActive lets a session pass when the object cannot be asked
AskMemberFailsOpen(q) ==
    /\ pc[q] \in {"check", "userOk"}
    /\ Goto(q, IF pc[q] = "check" THEN "memberOk"
               ELSE IF op[q] = "mfa" THEN "verify" ELSE "accepted")
    /\ UNCHANGED <<stores, stamp, fate, began>>

-----------------------------------------------------------------------------
(* issueSession *)

IssueStart(q, s) ==
    /\ Fresh(s)
    /\ userActive
    /\ Begin(q, "issue", s, "generation")
    /\ UNCHANGED <<stores, stamp, fate, began>>

ReadGeneration(q) ==
    /\ pc[q] = "generation"
    /\ stamp' = [stamp EXCEPT ![q] = generation]
    /\ Goto(q, "insert")
    /\ UNCHANGED <<stores, fate, began>>

InsertRow(q) ==
    /\ pc[q] = "insert"
    /\ \E st \in {"active", "pending"} : row' = [row EXCEPT ![arg[q]] = st]
    /\ Goto(q, "add")
    /\ UNCHANGED <<members, generation, userActive, lapsed, delivered,
                   stamp, fate, began>>

AddMember(q) ==
    /\ pc[q] = "add"
    /\ IF stamp[q] = generation
       THEN members' = Persisted(members \cup {arg[q]}) /\ Goto(q, "added")
       ELSE members' = members /\ Goto(q, "refused")
    /\ UNCHANGED <<row, generation, userActive, lapsed, delivered,
                   stamp, fate, began>>

\* The answer is lost with a retryable error: doAddSession asks again
RetryAdd(q) ==
    /\ pc[q] = "added"
    /\ Goto(q, "add")
    /\ UNCHANGED <<stores, stamp, fate, began>>

Deliver(q) ==
    /\ pc[q] = "added"
    /\ delivered' = delivered \cup {arg[q]}
    /\ End(q)
    /\ UNCHANGED <<row, members, generation, userActive, lapsed, fate>>

Refuse(q) ==
    /\ pc[q] = "refused"
    /\ row' = Updated({arg[q]}, Stored, "revoked")
    /\ End(q)
    /\ UNCHANGED <<members, generation, userActive, lapsed, delivered, fate>>

(* readSession and its variants: the row, then the user and the object.  A *)
(* read that finds no such row, or finds it idle, ends at once.            *)

ReadRow(q, s, o) ==
    /\ s \in delivered
    /\ row[s] \in (IF o = "mfa" THEN {"active", "pending"} ELSE {"active"})
    /\ s \notin lapsed
    /\ Begin(q, o, s, "check")
    /\ began' = [began EXCEPT ![q] = fate[s]]
    /\ UNCHANGED <<stores, stamp, fate>>

Accept(q) == Goto(q, IF op[q] = "mfa" THEN "verify" ELSE "accepted")

CheckUser(q) ==
    /\ pc[q] \in {"check", "memberOk"}
    /\ IF ~userActive
       THEN End(q)
       ELSE /\ IF pc[q] = "check" THEN Goto(q, "userOk") ELSE Accept(q)
            /\ UNCHANGED <<stamp, began>>
    /\ UNCHANGED <<stores, fate>>

\* doIsActive; an object that cannot be asked counts as "no" (Fails)
AskMember(q) ==
    /\ pc[q] \in {"check", "userOk"}
    /\ IF arg[q] \notin members \ lapsed
       THEN End(q)
       ELSE /\ IF pc[q] = "check" THEN Goto(q, "memberOk") ELSE Accept(q)
            /\ UNCHANGED <<stamp, began>>
    /\ UNCHANGED <<stores, fate>>

\* The handler has used the session it was given
UseSession(q) ==
    /\ pc[q] = "accepted"
    /\ End(q)
    /\ UNCHANGED <<stores, fate>>

\* completeMfaOnSession, once the factor has been verified
CompleteMfa(q) ==
    /\ pc[q] = "verify"
    /\ row' = Updated({arg[q]}, Stored, "active")
    /\ End(q)
    /\ UNCHANGED <<members, generation, userActive, lapsed, delivered, fate>>

(* Revocation of one session *)

\* revokeSessionByIdentity writes the row first ...
MarkRow(q, s) ==
    /\ row[s] \in Stored
    /\ Begin(q, "signOut", s, "drop")
    /\ row' = Updated({s}, Stored, "revoked")
    /\ fate' = [fate EXCEPT ![s] = IF fate[s] = "open" THEN "marked" ELSE fate[s]]
    /\ UNCHANGED <<members, generation, userActive, lapsed, delivered,
                   stamp, began>>

\* ... POST /v1/sessions/:id/revoke and DELETE /v1/me/sessions/:id look it up
RevokeLookup(q, s, o) ==
    /\ row[s] \in (IF o = "revokeOwn" THEN {"active"} ELSE Stored \ {"revoked"})
    /\ Begin(q, o, s, "drop")
    /\ UNCHANGED <<stores, stamp, fate, began>>

\* A row that is revoked already is a success, SessionDO is not asked
RevokeRepeats(s) ==
    /\ row[s] = "revoked"
    /\ fate' = Told(s)
    /\ UNCHANGED <<stores, pc, op, arg, stamp, began>>

\* SessionDO revoke
DropMember(q) ==
    /\ pc[q] = "drop"
    /\ members' = Persisted(members \ {arg[q]})
    /\ fate' = IF \E r \in Requests : Adding(r, arg[q])
               THEN fate
               ELSE [fate EXCEPT ![arg[q]] = "out"]
    /\ Goto(q, IF op[q] = "signOut" THEN "reply" ELSE "closeRow")
    /\ UNCHANGED <<row, generation, userActive, lapsed, delivered,
                   stamp, began>>

CloseRow(q) ==
    /\ pc[q] = "closeRow"
    /\ row' = Updated({arg[q]}, Selects(op[q]), "revoked")
    /\ Goto(q, "reply")
    /\ UNCHANGED <<members, generation, userActive, lapsed, delivered,
                   stamp, fate, began>>

(* Revocation of all sessions but keep *)

\* The sessions revoke-all is about: those with a row, and those whose
\* issuance has read its generation
Covered(keep) ==
    {s \in Sessions \ {keep} : \/ row[s] # "none"
                               \/ \E q \in Requests : Adding(q, s)}

Fence(q, o, keep) ==
    /\ generation < MaxGeneration
    /\ Begin(q, o, keep, "sweep")
    /\ members' = Persisted(members \cap {keep})
    /\ generation' = generation + 1
    /\ fate' = [s \in Sessions |->
                  IF s \in Covered(keep) THEN "out" ELSE fate[s]]
    /\ UNCHANGED <<row, userActive, lapsed, delivered, stamp, began>>

SweepRows(q) ==
    /\ pc[q] = "sweep"
    /\ row' = Updated(Sessions \ {arg[q]}, Selects(op[q]), "revoked")
    /\ Goto(q, "reply")
    /\ UNCHANGED <<members, generation, userActive, lapsed, delivered,
                   stamp, fate, began>>

Reply(q) ==
    /\ pc[q] = "reply"
    /\ fate' = IF op[q] \in Sweeps THEN fate ELSE Told(arg[q])
    /\ End(q)
    /\ UNCHANGED stores

-----------------------------------------------------------------------------
(* Failures, background work, time *)

\* A call to D1 or to SessionDO fails, before it took effect or after it, and
\* the handler gives up
Fails(q) ==
    /\ pc[q] # "idle"
    /\ End(q)
    /\ UNCHANGED <<stores, fate>>

\* markSessionExpired: some earlier read found the session idle and left this
\* update to waitUntil; it may come at any time and knows nothing but the id
ExpireIdle(s) ==
    /\ s \in delivered
    /\ row' = Updated({s}, Stored, "expired")
    /\ UNCHANGED <<members, generation, userActive, lapsed, delivered,
                   pc, op, arg, stamp, fate, began>>

\* DELETE and restore of /v1/users/:id, before and apart from the revocation
UserChanges ==
    /\ userActive' = ~userActive
    /\ UNCHANGED <<row, members, generation, lapsed, delivered,
                   pc, op, arg, stamp, fate, began>>

Lapse(s) ==
    /\ s \notin lapsed
    /\ row[s] \in Stored
    /\ lapsed' = lapsed \cup {s}
    /\ UNCHANGED <<row, members, generation, userActive, delivered,
                   pc, op, arg, stamp, fate, began>>

\* hardDeleteExpiredSessions, hourly
HardDelete ==
    /\ row' = Updated(lapsed, Stored, "deleted")
    /\ row' # row
    /\ UNCHANGED <<members, generation, userActive, lapsed, delivered,
                   pc, op, arg, stamp, fate, began>>

-----------------------------------------------------------------------------

IssueStep(q) ==
    \/ ReadGeneration(q) \/ InsertRow(q) \/ AddMember(q) \/ RetryAdd(q)
    \/ Deliver(q) \/ Refuse(q)
    \/ \E s \in Sessions : IssueStart(q, s)

ReadStep(q) ==
    \/ CheckUser(q) \/ AskMember(q) \/ UseSession(q) \/ CompleteMfa(q)
    \/ \E s \in Sessions, o \in {"read", "mfa"} : ReadRow(q, s, o)

RevokeStep(q) ==
    \/ DropMember(q) \/ CloseRow(q) \/ SweepRows(q) \/ Reply(q)
    \/ \E s \in Sessions : MarkRow(q, s)
    \/ \E s \in Sessions, o \in {"revoke", "revokeOwn"} : RevokeLookup(q, s, o)
    \/ \E keep \in Sessions \cup {NoSession},
          o \in Sweeps : Fence(q, o, keep)

Background ==
    \/ \E s \in Sessions : ExpireIdle(s) \/ Lapse(s) \/ RevokeRepeats(s)
    \/ UserChanges
    \/ HardDelete

Next ==
    \/ \E q \in Requests : IssueStep(q) \/ ReadStep(q) \/ RevokeStep(q) \/ Fails(q)
    \/ Background

Spec == Init /\ [][Next]_vars

-----------------------------------------------------------------------------
(* Properties *)

\* The variables keep their types; generation stays within its bound (the rows
\* of D1 sessions and the state of SessionDO).
TypeOK ==
    /\ row \in [Sessions -> Statuses]
    /\ members \subseteq Sessions
    /\ generation \in 0..MaxGeneration
    /\ userActive \in BOOLEAN
    /\ lapsed \subseteq Sessions
    /\ delivered \subseteq Sessions
    /\ pc \in [Requests -> Waits \cup {"idle"}]
    /\ op \in [Requests -> Ops]
    /\ arg \in [Requests -> Sessions \cup {NoSession}]
    /\ stamp \in [Requests -> 0..MaxGeneration]
    /\ fate \in [Sessions -> Fates]
    /\ began \in [Requests -> Fates]

\* A session that revoke-all covered, or that was revoked when nobody was still
\* issuing it, is never in the active set again: no issuance under way, no
\* repeated add and no later request brings it back.
OutStaysOut == \A s \in Sessions : fate[s] = "out" => s \notin members

\* Once a browser has the cookie of a session, the session never enters the
\* active set a second time, whichever way it left it.
LeftForGood ==
    [][\A s \in delivered : s \in members' => s \in members]_vars

\* The sessions SessionDO vouches for, and the one it vouched for to request q
InForce == members \ lapsed
Verdict(q) == IF pc[q] \in {"memberOk", "accepted", "verify"}
              THEN arg[q] ELSE NoSession

Register == INSTANCE SessionRegister
    WITH Readers <- Requests,
         inForce <- InForce,
         barred <- {s \in Sessions : fate[s] = "out"},
         handed <- delivered,
         verdict <- [q \in Requests |-> Verdict(q)]

\* SessionDO's set and generation behave as one register, whatever D1, the
\* retries and the other requests do: each revocation is a single step of it, a
\* session whose cookie was sent or that is barred never enters it, and every
\* session a request is given was found in it by one look (the calls of
\* SessionDO and the order in which issueSession and readSession make them).
ImplementsRegister == Register!Spec

\* "Force sign-out takes effect immediately": a request that began to read a
\* session after SessionDO had put it out is not given that session, although
\* it asks D1, the users table and the object at three different times.
NoLateAccept ==
    \A q \in Requests : pc[q] \in {"accepted", "verify"} => began[q] # "out"

\* "Marking the durable row first therefore closes authentication even when
\* the DO call fails": no request that begins after revokeSessionByIdentity
\* wrote the row, answered or not, is given the session.
DurableRowCloses ==
    \A q \in Requests :
        pc[q] \in {"accepted", "verify"} => began[q] \notin {"marked", "told"}
=============================================================================
