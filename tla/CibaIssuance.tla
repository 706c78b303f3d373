---------------------------- MODULE CibaIssuance ----------------------------
(***************************************************************************)
(* One CIBA request: the record its CibaStore object keeps, and the token  *)
(* requests that poll it.  A poll that finds the request approved, or      *)
(* leased to a request whose lease is over, gets a reservation; its holder *)
(* signs the tokens, writes the refresh token's row to D1, finalizes the   *)
(* request with the reservation and only then answers.  When anything      *)
(* throws it deletes the row and gives the reservation back.               *)
(*                                                                         *)
(* The object runs one transaction at a time.  A holder waits for the      *)
(* object or for D1 at every value of pc, and a call that throws may have  *)
(* had its effect.  Tokens are signed without a store, so that only the    *)
(* refresh token is state.  The polling interval, and the id of the        *)
(* client, which every call must repeat, change nothing else and are left  *)
(* out.                                                                    *)
(***************************************************************************)
EXTENDS Naturals

CONSTANTS
    Reservations,   \* reservation ids, each for the poll that is given it
    RequestTtl,     \* CIBA_AUTH_REQ_TTL_SEC; the request is made at 0
    LeaseTtl,       \* CIBA_ISSUANCE_RESERVATION_TTL_SEC
    MaxLag,         \* bound on how old a token request's clock reading is
    MaxTime,        \* bound on the clock
    None

ASSUME ConstantsOK == /\ None \notin Reservations
                      /\ {RequestTtl, LeaseTtl, MaxLag, MaxTime} \subseteq Nat

VARIABLES
    status,         \* the record's status, or "gone" once it is deleted
    holder,         \* reservationId
    leaseEnd,       \* reservationExpiresAt
    finalizedBy,    \* finalizedReservationId
    now,            \* Date.now()
    pc,             \* pc[r]: what the holder of reservation r waits for
    row,            \* reservations whose refresh token's row is in D1
    inactive,       \* reservations whose user was found inactive
    winner,         \* the reservation that finalized the request
    fault           \* fault[r]: what went wrong beyond r's own recovery

record == <<status, holder, leaseEnd, finalizedBy, winner>>
vars == <<status, holder, leaseEnd, finalizedBy, now, pc, row, inactive,
          winner, fault>>

Statuses == {"pending", "approved", "issuing", "denied", "consumed", "gone"}

Waiting == {"check", "persist", "finalize", "refinalize", "confirm",
            "reply", "rollback", "abort"}

\* "free": not given out; "ended": the token request failed or was refused
Points == Waiting \cup {"free", "answered", "ended"}

\* "stop": the worker stopped, or was not told its reservation; the others:
\* that call threw
Faults == {"stop", "confirm", "rollback", "abort"}

\* isExpired, by the object's clock
Expired == now >= RequestTtl

Init ==
    /\ status = "pending"
    /\ holder = None
    /\ leaseEnd = 0
    /\ finalizedBy = None
    /\ now = 0
    /\ pc = [r \in Reservations |-> "free"]
    /\ row = {}
    /\ inactive = {}
    /\ winner = None
    /\ fault = [r \in Reservations |-> {}]

Delete ==
    /\ status' = "gone"
    /\ holder' = None
    /\ leaseEnd' = 0
    /\ finalizedBy' = None
    /\ UNCHANGED winner

HeldBy(r) == status = "issuing" /\ holder = r

Goto(r, l) == pc' = [pc EXCEPT ![r] = l]

Blame(r, f) == fault' = [fault EXCEPT ![r] = @ \cup {f}]

-----------------------------------------------------------------------------
(* Mutants: slips the properties below must notice *)

\* The abort does not compare the reservation
AbortAny(r) ==
    \/ /\ Expired
       /\ Delete
    \/ /\ ~Expired
       /\ status = "issuing"
       /\ status' = "approved"
       /\ holder' = None
       /\ leaseEnd' = 0
       /\ UNCHANGED <<finalizedBy, winner>>
    \/ /\ ~Expired
       /\ status # "issuing"
       /\ UNCHANGED record

\* The abort leaves the reservation in the record
AbortUncleared(r) ==
    /\ status' = IF HeldBy(r) THEN "approved" ELSE status
    /\ UNCHANGED <<holder, leaseEnd, finalizedBy, winner>>

\* The row is rolled back only when the insert answered
PersistUnnoted(r) ==
    /\ pc[r] = "persist"
    /\ \/ row' = row \cup {r} /\ Goto(r, "finalize")
       \/ row' = row /\ Goto(r, "finalize")
       \/ row' \in {row, row \cup {r}} /\ Goto(r, "abort")
    /\ UNCHANGED <<record, now, inactive, fault>>

\* The user is looked up before the try, so that nothing gives the
\* reservation back when that throws
CheckUserOutside(r) ==
    /\ pc[r] = "check"
    /\ \/ Goto(r, "persist") /\ UNCHANGED inactive
       \/ Goto(r, "finalize") /\ inactive' = inactive \cup {r}
       \/ Goto(r, "ended") /\ UNCHANGED inactive
    /\ UNCHANGED <<record, now, row, fault>>

\* Any consumed request confirms a finalize, whoever finalized it
FinalizedByAny(r) == status = "consumed"

\* A finalize whose answers were lost is taken to have failed
ConfirmUnread(r) ==
    /\ pc[r] = "confirm"
    /\ Goto(r, IF r \in row THEN "rollback" ELSE "abort")
    /\ UNCHANGED <<record, now, row, inactive, fault>>

-----------------------------------------------------------------------------
(* The object *)

\* handleReservationMutation(consumed): the answer is 200 just when the
\* record is then consumed by r
TakeFinalize(r) ==
    \/ /\ Expired
       /\ Delete
    \/ /\ ~Expired
       /\ HeldBy(r)
       /\ status' = "consumed"
       /\ finalizedBy' = r
       /\ holder' = None
       /\ leaseEnd' = 0
       /\ winner' = r
    \/ /\ ~Expired
       /\ ~HeldBy(r)
       /\ UNCHANGED record

Finalized(r) == status = "consumed" /\ finalizedBy = r

\* handleReservationMutation(approved)
TakeAbort(r) ==
    \/ /\ Expired
       /\ Delete
    \/ /\ ~Expired
       /\ HeldBy(r)
       /\ status' = "approved"
       /\ holder' = None
       /\ leaseEnd' = 0
       /\ UNCHANGED <<finalizedBy, winner>>
    \/ /\ ~Expired
       /\ ~HeldBy(r)
       /\ UNCHANGED record

Tick ==
    /\ now < MaxTime
    /\ now' = now + 1
    /\ UNCHANGED <<record, pc, row, inactive, fault>>

\* handleApprove and handleDeny
Decide ==
    /\ status = "pending"
    /\ ~Expired
    /\ status' \in {"approved", "denied"}
    /\ UNCHANGED <<holder, leaseEnd, finalizedBy, winner, now, pc, row,
                   inactive, fault>>

\* The alarm, or a read, a poll, an approval or a denial that comes too late
Sweep ==
    /\ status # "gone"
    /\ Expired
    /\ Delete
    /\ UNCHANGED <<now, pc, row, inactive, fault>>

-----------------------------------------------------------------------------
(* The token requests *)

LeaseOver(t) == leaseEnd <= t

\* The poll carries the reading t its token request began with; when the
\* answer is lost nobody holds the reservation
Poll(r) ==
    /\ pc[r] = "free"
    /\ status \in {"approved", "issuing"}
    /\ \E t \in {u \in 0..now : now <= u + MaxLag} :
           /\ t < RequestTtl
           /\ status = "issuing" => LeaseOver(t)
           /\ leaseEnd' = t + LeaseTtl
    /\ status' = "issuing"
    /\ holder' = r
    /\ UNCHANGED <<finalizedBy, winner, now, row, inactive>>
    /\ \/ Goto(r, "check") /\ UNCHANGED fault
       \/ Goto(r, "ended") /\ Blame(r, "stop")

\* assertActiveTokenUser: an inactive user's request is finalized unserved
CheckUser(r) ==
    /\ pc[r] = "check"
    /\ \/ Goto(r, "persist") /\ UNCHANGED inactive
       \/ Goto(r, "finalize") /\ inactive' = inactive \cup {r}
       \/ Goto(r, "abort") /\ UNCHANGED inactive
    /\ UNCHANGED <<record, now, row, fault>>

\* The refresh token is prepared before it is written, so that a write that
\* throws is rolled back whether or not it took place; a scope or a client
\* without refresh tokens writes none
Persist(r) ==
    /\ pc[r] = "persist"
    /\ \/ row' = row \cup {r} /\ Goto(r, "finalize")
       \/ row' = row /\ Goto(r, "finalize")
       \/ row' \in {row, row \cup {r}} /\ Goto(r, "rollback")
    /\ UNCHANGED <<record, now, inactive, fault>>

\* mutateCibaReservation(finalize): a second call when the first throws or
\* answers 5xx, and a read when neither told the outcome
Finalize(r) ==
    /\ pc[r] \in {"finalize", "refinalize"}
    /\ \/ /\ TakeFinalize(r)
          /\ Goto(r, IF Finalized(r)' THEN "reply" ELSE "confirm")
       \/ /\ TakeFinalize(r) \/ UNCHANGED record
          /\ Goto(r, IF pc[r] = "finalize" THEN "refinalize" ELSE "confirm")
    /\ UNCHANGED <<now, row, inactive, fault>>

\* issuedRefresh is set just when the row was written
Recovery(r) == IF r \in row THEN "rollback" ELSE "abort"

\* readCiba: an expired record is deleted and read as none
Confirm(r) ==
    /\ pc[r] = "confirm"
    /\ \/ /\ ~Expired
          /\ Goto(r, IF Finalized(r) THEN "reply" ELSE Recovery(r))
          /\ UNCHANGED <<record, fault>>
       \/ /\ Expired
          /\ Delete
          /\ Goto(r, Recovery(r))
          /\ UNCHANGED fault
       \/ /\ Goto(r, Recovery(r))
          /\ Blame(r, "confirm")
          /\ UNCHANGED record
    /\ UNCHANGED <<now, row, inactive>>

\* The tokens, or the error for the inactive user
Reply(r) ==
    /\ pc[r] = "reply"
    /\ Goto(r, IF r \in inactive THEN "ended" ELSE "answered")
    /\ UNCHANGED <<record, now, row, inactive, fault>>

\* hardDelete of the row; the abort follows even when it throws
Rollback(r) ==
    /\ pc[r] = "rollback"
    /\ Goto(r, "abort")
    /\ \/ row' = row \ {r} /\ UNCHANGED fault
       \/ row' \in {row, row \ {r}} /\ Blame(r, "rollback")
    /\ UNCHANGED <<record, now, inactive>>

Abort(r) ==
    /\ pc[r] = "abort"
    /\ Goto(r, "ended")
    /\ \/ TakeAbort(r) /\ UNCHANGED fault
       \/ (TakeAbort(r) \/ UNCHANGED record) /\ Blame(r, "abort")
    /\ UNCHANGED <<now, row, inactive>>

Stop(r) ==
    /\ pc[r] \in Waiting
    /\ Goto(r, "ended")
    /\ Blame(r, "stop")
    /\ UNCHANGED <<record, now, row, inactive>>

Step(r) ==
    \/ Poll(r)
    \/ CheckUser(r)
    \/ Persist(r)
    \/ Finalize(r)
    \/ Confirm(r)
    \/ Reply(r)
    \/ Rollback(r)
    \/ Abort(r)
    \/ Stop(r)

Next ==
    \/ Tick
    \/ Decide
    \/ Sweep
    \/ \E r \in Reservations : Step(r)

Spec == Init /\ [][Next]_vars

-----------------------------------------------------------------------------
(* Properties *)

\* Every variable keeps its type (ciba-store.ts CibaRecord), a lease is always
\* somebody's, and only a consumed request names who finalized it.
TypeOK ==
    /\ status \in Statuses
    /\ holder \in Reservations \cup {None}
    /\ leaseEnd \in Nat
    /\ finalizedBy \in Reservations \cup {None}
    /\ now \in Nat
    /\ pc \in [Reservations -> Points]
    /\ row \subseteq Reservations
    /\ inactive \subseteq Reservations
    /\ winner \in Reservations \cup {None}
    /\ fault \in [Reservations -> SUBSET Faults]
    /\ status = "issuing" <=> holder # None
    /\ status = "consumed" <=> finalizedBy # None

\* A token request that failed and could run its recovery leaves no refresh
\* token behind that its client never saw, even when the insert threw after
\* it had taken place (ciba.ts grantCiba, the catch block).
FailedLeavesNoRow ==
    \A r \in Reservations :
        pc[r] = "ended" /\ fault[r] \cap {"stop", "rollback"} = {}
            => r \notin row

\* As long as a lease runs, no other token request, however late it comes to
\* finalize, abort or poll, touches the record: only the holder's own step or
\* the end of the request does (ciba-store.ts, the reservation as a fence).
LeaseHeld ==
    [][status = "issuing" /\ record' # record
         => \/ now >= leaseEnd
            \/ Expired
            \/ pc'[holder] # pc[holder]]_vars

\* An approved request is not used up in vain: once finalized, its winner has
\* answered or still can, unless the user was inactive, its worker stopped or
\* it could not ask what had become of the finalize (ciba.ts
\* mutateCibaReservation, which repeats it and then reads it back).
NotUsedInVain ==
    \A r \in Reservations :
        status = "consumed" /\ winner = r
            => \/ pc[r] \in Waiting \cup {"answered"}
               \/ r \in inactive
               \/ fault[r] \cap {"stop", "confirm"} # {}

\* A request is leased to nobody only when a worker stopped or could not give
\* the reservation back: every other failure makes it available at once
\* (ciba.ts grantCiba, whose catch aborts).
NoStrayLease ==
    \A r \in Reservations :
        HeldBy(r) /\ pc[r] = "ended" => fault[r] \cap {"stop", "abort"} # {}

Grant == INSTANCE Redemption
    WITH Redeemers <- Reservations,
         decision <- CASE status = "pending" -> "open"
                       [] status \in {"approved", "issuing", "consumed"}
                              -> "approved"
                       [] status = "denied" -> "denied"
                       [] status = "gone" -> "lapsed",
         served <- {r \in Reservations : pc[r] = "answered"}

\* The request is a grant that is decided once and redeemed at most once, by
\* one token request, whatever leases ran out and whatever calls were repeated
\* (ciba-store.ts: finalize and abort only by the reservation's holder).
RedeemedAtMostOnce == Grant!Spec
=============================================================================
