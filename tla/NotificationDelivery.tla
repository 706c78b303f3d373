------------------------ MODULE NotificationDelivery ------------------------
(***************************************************************************)
(* One notification: its row in notification_delivery_outbox, the queue    *)
(* messages that carry its delivery id, the consumers that handle them,    *)
(* and what puts it on the queue again.                                    *)
(*                                                                         *)
(* An email's row is written with the business change, and its message is  *)
(* sent afterwards, by the producer or by the hourly job; an SMS or a      *)
(* WhatsApp message is only queued, and its row is written by the first    *)
(* consumer.  D1 runs one statement or batch at a time; a consumer waits   *)
(* for D1, the provider or the audit queue at every value of pc, and a     *)
(* call that throws may have had its effect.  A lease is "runs" and later, *)
(* at any moment, "over"; delays between deliveries are left out.  A copy  *)
(* of the message stands for one message of the queue, which goes to the   *)
(* dead letters after MaxDeliveries deliveries.                            *)
(***************************************************************************)
EXTENDS Naturals

CONSTANTS
    Copies,           \* messages that may be sent for the notification
    SendLimit,        \* PROVIDER_SEND_ATTEMPT_LIMIT
    EmailDeliveries,  \* max_retries + 1 of the email queue
    SmsDeliveries     \* the same of the SMS and WhatsApp queues

ASSUME ConstantsOK ==
    {SendLimit, EmailDeliveries, SmsDeliveries} \subseteq Nat \ {0}

VARIABLES
    email,          \* the channel is email
    row,            \* the row's status, "absent" before it is inserted
    lease,          \* lease_until
    attempts,       \* attempt_count, counted up to SendLimit
    queued,         \* queued_at is set
    failure,        \* outcome in notification_delivery_failures
    noted,          \* a row for it is in notification_failures
    msg,            \* msg[m]: where the copy m is
    deliveries,     \* deliveries[m]: message.attempts
    pc,             \* pc[m]: what the consumer of m waits for
    seen,           \* seen[m]: the status it read, or the failure it met
    enq,            \* enq[e]: what the producer and the hourly job wait for
    calls,          \* calls made to the provider
    last,           \* what is known of the latest of them
    audited         \* notification.sent is on the audit queue

store == <<row, lease, attempts, failure>>
consumers == <<msg, deliveries, pc, seen>>
ghosts == <<calls, last, audited>>
vars == <<email, store, queued, noted, consumers, enq, ghosts>>

Leased == {"sending", "auditing"}
Terminal == {"delivered", "provider_rejected", "unknown_delivery"}
Statuses == Leased \cup Terminal \cup {"absent", "pending", "provider_accepted"}

Enqueuers == {"producer", "cron"}

\* How a call to the provider fails: told or not told that it was refused, and
\* whether to try again
Failures == {"rejected", "unknown", "retryRejected", "retryUnknown"}
Retryable == {"retryRejected", "retryUnknown"}

Waits == {"idle", "render", "read", "act", "send", "calling", "accept",
          "settle", "audit", "markAudit", "unaudit"}

MaxDeliveries == IF email THEN EmailDeliveries ELSE SmsDeliveries

-----------------------------------------------------------------------------
(* Helpers *)

Goto(m, l) ==
    /\ pc' = [pc EXCEPT ![m] = l]
    /\ UNCHANGED <<msg, deliveries>>

Leave(m, to) ==
    /\ msg' = [msg EXCEPT ![m] = to]
    /\ pc' = [pc EXCEPT ![m] = "idle"]
    /\ seen' = [seen EXCEPT ![m] = "none"]
    /\ UNCHANGED deliveries

Ack(m) == Leave(m, "acked")

Retry(m) ==
    Leave(m, IF deliveries[m] < MaxDeliveries THEN "queued" ELSE "quarantined")

Counted == IF attempts < SendLimit THEN attempts + 1 ELSE attempts

\* UPDATE ... SET status = to WHERE status = from
Move(from, to, l) ==
    /\ row = from
    /\ row' = to
    /\ lease' = l
    /\ UNCHANGED <<attempts, failure>>

Outcome(f) == IF f \in {"rejected", "retryRejected"} THEN "rejected" ELSE "unknown"

\* Mutant: a lease is claimed without lease_until
ClaimUnleased(from, to) ==
    /\ row = from
    /\ row' = to
    /\ lease' = "none"
    /\ attempts' = Counted
    /\ UNCHANGED failure

\* Mutant: the failure is inserted without its WHERE EXISTS
RecordFailureLoose(from, f) ==
    /\ row' = IF row # from THEN row
              ELSE IF Outcome(f) = "rejected" THEN "provider_rejected"
              ELSE "unknown_delivery"
    /\ lease' = IF row # from THEN lease ELSE "none"
    /\ failure' = Outcome(f)
    /\ UNCHANGED attempts

\* claim
Claim(from, to) ==
    /\ row = from
    /\ row' = to
    /\ lease' = "runs"
    /\ attempts' = Counted
    /\ UNCHANGED failure

\* recordProviderFailure: one batch
RecordFailure(from, f) ==
    /\ row = from
    /\ row' = IF Outcome(f) = "rejected" THEN "provider_rejected"
              ELSE "unknown_delivery"
    /\ lease' = "none"
    /\ failure' = Outcome(f)
    /\ UNCHANGED attempts

Init ==
    /\ email \in BOOLEAN
    /\ row = IF email THEN "pending" ELSE "absent"
    /\ lease = "none"
    /\ attempts = 0
    /\ queued = FALSE
    /\ failure = "none"
    /\ noted = FALSE
    /\ \E first \in Copies :
           msg = [m \in Copies |->
                     IF ~email /\ m = first THEN "queued" ELSE "unsent"]
    /\ deliveries = [m \in Copies |-> 0]
    /\ pc = [m \in Copies |-> "idle"]
    /\ seen = [m \in Copies |-> "none"]
    /\ enq = [e \in Enqueuers |->
                 IF email /\ e = "producer" THEN "send" ELSE "idle"]
    /\ calls = 0
    /\ last = "none"
    /\ audited = FALSE

-----------------------------------------------------------------------------
(* Mutants: slips the properties below must notice *)

\* A lease that is over is taken over and the provider called again
Reclaim(m) ==
    /\ pc[m] = "act"
    /\ seen[m] = "sending"
    /\ Claim("sending", "sending")
    /\ Goto(m, "send")
    /\ UNCHANGED <<email, queued, noted, seen, enq, ghosts>>

\* Every failed call is tried again while attempts are left
SettleRetriesAll(m) ==
    /\ pc[m] = "settle"
    /\ \/ /\ attempts < SendLimit
          /\ Move("sending", "pending", "none")
          /\ Retry(m)
       \/ /\ attempts >= SendLimit
          /\ RecordFailure("sending", seen[m])
          /\ Ack(m)
       \/ UNCHANGED store /\ Retry(m)
    /\ UNCHANGED <<email, queued, noted, enq, ghosts>>

\* The limit is tested with <=
SettleOneMore(m) ==
    /\ pc[m] = "settle"
    /\ \/ /\ seen[m] \in Retryable
          /\ attempts <= SendLimit
          /\ Move("sending", "pending", "none")
          /\ Retry(m)
       \/ UNCHANGED store /\ Retry(m)
    /\ UNCHANGED <<email, queued, noted, enq, ghosts>>

\* A send that will be tried again acknowledges its message
SettleAcks(m) ==
    /\ pc[m] = "settle"
    /\ \/ /\ seen[m] \in Retryable
          /\ attempts < SendLimit
          /\ Move("sending", "pending", "none")
          /\ Ack(m)
       \/ /\ ~(seen[m] \in Retryable /\ attempts < SendLimit)
          /\ RecordFailure("sending", seen[m])
          /\ Ack(m)
       \/ UNCHANGED store /\ Retry(m)
    /\ UNCHANGED <<email, queued, noted, enq, ghosts>>

\* The hourly job takes only rows nobody has tried to send
CronSelectFresh ==
    /\ email
    /\ enq["cron"] = "idle"
    /\ row = "pending"
    /\ ~queued
    /\ attempts = 0
    /\ enq' = [enq EXCEPT !["cron"] = "send"]
    /\ UNCHANGED <<email, store, queued, noted, consumers, ghosts>>

-----------------------------------------------------------------------------
(* The outbox *)

\* redeliverPendingNotificationOutbox: the rows it will send
CronSelect ==
    /\ email
    /\ enq["cron"] = "idle"
    /\ row = "pending"
    /\ ~queued
    /\ enq' = [enq EXCEPT !["cron"] = "send"]
    /\ UNCHANGED <<email, store, queued, noted, consumers, ghosts>>

\* EMAIL_QUEUE.send, which may throw although the queue has the message
Enqueue(e, m) ==
    /\ enq[e] = "send"
    /\ msg[m] = "unsent"
    /\ msg' = [msg EXCEPT ![m] = "queued"]
    /\ \E l \in {"mark", "note"} : enq' = [enq EXCEPT ![e] = l]
    /\ UNCHANGED <<email, store, queued, noted, deliveries, pc, seen, ghosts>>

EnqueueFails(e) ==
    /\ enq[e] = "send"
    /\ enq' = [enq EXCEPT ![e] = "note"]
    /\ UNCHANGED <<email, store, queued, noted, consumers, ghosts>>

MarkQueued(e) ==
    /\ enq[e] = "mark"
    /\ enq' = [enq EXCEPT ![e] = "idle"]
    /\ queued' = TRUE \/ UNCHANGED queued
    /\ UNCHANGED <<email, store, noted, consumers, ghosts>>

NoteQueueSendFailure(e) ==
    /\ enq[e] = "note"
    /\ enq' = [enq EXCEPT ![e] = "idle"]
    /\ attempts' \in {attempts, IF row = "pending" THEN Counted ELSE attempts}
    /\ UNCHANGED <<email, row, lease, failure, queued, noted, consumers, ghosts>>

EnqueuerStops(e) ==
    /\ enq[e] # "idle"
    /\ enq' = [enq EXCEPT ![e] = "idle"]
    /\ UNCHANGED <<email, store, queued, noted, consumers, ghosts>>

-----------------------------------------------------------------------------
(* The consumers *)

Receive(m) ==
    /\ msg[m] = "queued"
    /\ msg' = [msg EXCEPT ![m] = "taken"]
    /\ deliveries' = [deliveries EXCEPT ![m] = @ + 1]
    /\ pc' = [pc EXCEPT ![m] = "render"]
    /\ UNCHANGED <<email, store, queued, noted, seen, enq, ghosts>>

\* A message without a template is noted and dropped; its row is not touched
Render(m) ==
    /\ pc[m] = "render"
    /\ \/ Goto(m, "read") /\ UNCHANGED <<seen, noted>>
       \/ noted' = TRUE /\ Ack(m)
       \/ (noted' = TRUE \/ UNCHANGED noted) /\ Retry(m)
    /\ UNCHANGED <<email, store, queued, enq, ghosts>>

\* prepareNotificationDelivery, up to findDelivery
Read(m) ==
    /\ pc[m] = "read"
    /\ \/ /\ row' = IF row = "absent" THEN "pending" ELSE row
          /\ \/ /\ row' \in Terminal
                /\ Ack(m)
             \/ /\ row' \in Leased
                /\ lease = "runs"
                /\ Retry(m)
             \/ /\ row' \notin Terminal
                /\ row' \in Leased => lease = "over"
                /\ seen' = [seen EXCEPT ![m] = row']
                /\ Goto(m, "act")
       \/ /\ row' \in {row, IF row = "absent" THEN "pending" ELSE row}
          /\ Retry(m)
    /\ UNCHANGED <<email, lease, attempts, failure, queued, noted, enq, ghosts>>

ClaimSend(m) ==
    /\ pc[m] = "act"
    /\ seen[m] = "pending"
    /\ \/ Claim("pending", "sending") /\ Goto(m, "send") /\ UNCHANGED seen
       \/ (Claim("pending", "sending") \/ UNCHANGED store) /\ Retry(m)
    /\ UNCHANGED <<email, queued, noted, enq, ghosts>>

ClaimAudit(m) ==
    /\ pc[m] = "act"
    /\ seen[m] = "provider_accepted"
    /\ \/ Claim("provider_accepted", "auditing") /\ Goto(m, "audit")
          /\ UNCHANGED seen
       \/ (Claim("provider_accepted", "auditing") \/ UNCHANGED store) /\ Retry(m)
    /\ UNCHANGED <<email, queued, noted, enq, ghosts>>

\* A lease that was over when it was read
GiveUp(m) ==
    /\ pc[m] = "act"
    /\ seen[m] \in Leased
    /\ \/ RecordFailure(seen[m], "unknown") /\ Ack(m)
       \/ (RecordFailure(seen[m], "unknown") \/ UNCHANGED store) /\ Retry(m)
    /\ UNCHANGED <<email, queued, noted, enq, ghosts>>

CallProvider(m) ==
    /\ pc[m] = "send"
    /\ Goto(m, "calling")
    /\ calls' = calls + 1
    /\ last' = "open"
    /\ UNCHANGED <<email, store, queued, noted, seen, enq, audited>>

ProviderAccepts(m) ==
    /\ pc[m] = "calling"
    /\ Goto(m, "accept")
    /\ last' = "accepted"
    /\ UNCHANGED <<email, store, queued, noted, seen, enq, calls, audited>>

\* The email binding tells no refusal apart: its errors are all indeterminate
ProviderFails(m) ==
    /\ pc[m] = "calling"
    /\ \E f \in IF email THEN {"unknown"} ELSE Failures :
           /\ seen' = [seen EXCEPT ![m] = f]
           /\ last' = IF f \in Retryable THEN "retryable" ELSE "failed"
    /\ Goto(m, "settle")
    /\ UNCHANGED <<email, store, queued, noted, enq, calls, audited>>

MarkProviderAccepted(m) ==
    /\ pc[m] = "accept"
    /\ \/ /\ Move("sending", "provider_accepted", "none")
          /\ Goto(m, "read")
          /\ UNCHANGED seen
       \/ /\ Move("sending", "provider_accepted", "none") \/ UNCHANGED store
          /\ Retry(m)
    /\ UNCHANGED <<email, queued, noted, enq, ghosts>>

Settle(m) ==
    /\ pc[m] = "settle"
    /\ \/ /\ seen[m] \in Retryable
          /\ attempts < SendLimit
          /\ Move("sending", "pending", "none")
          /\ Retry(m)
       \/ /\ ~(seen[m] \in Retryable /\ attempts < SendLimit)
          /\ RecordFailure("sending", seen[m])
          /\ Ack(m) \/ Retry(m)
       \/ UNCHANGED store /\ Retry(m)
    /\ UNCHANGED <<email, queued, noted, enq, ghosts>>

RecordAudit(m) ==
    /\ pc[m] = "audit"
    /\ \/ audited' = TRUE /\ Goto(m, "markAudit")
       \/ (audited' = TRUE \/ UNCHANGED audited) /\ Goto(m, "unaudit")
    /\ UNCHANGED <<email, store, queued, noted, seen, enq, calls, last>>

MarkAuditQueued(m) ==
    /\ pc[m] = "markAudit"
    /\ \/ Move("auditing", "delivered", "none") /\ Ack(m)
       \/ /\ Move("auditing", "delivered", "none") \/ UNCHANGED store
          /\ Goto(m, "unaudit")
          /\ UNCHANGED seen
    /\ UNCHANGED <<email, queued, noted, enq, ghosts>>

ReleaseAudit(m) ==
    /\ pc[m] = "unaudit"
    /\ Move("auditing", "provider_accepted", "none") \/ UNCHANGED store
    /\ Retry(m)
    /\ UNCHANGED <<email, queued, noted, enq, ghosts>>

ConsumerStops(m) ==
    /\ pc[m] # "idle"
    /\ Retry(m)
    /\ UNCHANGED <<email, store, queued, noted, enq, ghosts>>

LeaseEnds ==
    /\ lease = "runs"
    /\ lease' = "over"
    /\ UNCHANGED <<email, row, attempts, failure, queued, noted, consumers, enq,
                   ghosts>>

\* An operator replays a dead letter; only an email keeps its delivery id
Replay(m) ==
    /\ email
    /\ msg[m] = "quarantined"
    /\ msg' = [msg EXCEPT ![m] = "queued"]
    /\ deliveries' = [deliveries EXCEPT ![m] = 0]
    /\ UNCHANGED <<email, store, queued, noted, pc, seen, enq, ghosts>>

Handle(m) ==
    \/ Receive(m)
    \/ Render(m)
    \/ Read(m)
    \/ ClaimSend(m)
    \/ ClaimAudit(m)
    \/ GiveUp(m)
    \/ CallProvider(m)
    \/ ProviderAccepts(m)
    \/ ProviderFails(m)
    \/ MarkProviderAccepted(m)
    \/ Settle(m)
    \/ RecordAudit(m)
    \/ MarkAuditQueued(m)
    \/ ReleaseAudit(m)

Outbox(e) ==
    \/ \E m \in Copies : Enqueue(e, m)
    \/ EnqueueFails(e)
    \/ MarkQueued(e)
    \/ NoteQueueSendFailure(e)
    \/ EnqueuerStops(e)

Next ==
    \/ CronSelect
    \/ \E e \in Enqueuers : Outbox(e)
    \/ \E m \in Copies : Handle(m) \/ ConsumerStops(m) \/ Replay(m)
    \/ LeaseEnds

Spec == Init /\ [][Next]_vars

\* The queue delivers what it has and a consumer runs or stops; the hourly job
\* runs, and a send to the queue that is tried again and again succeeds
FairSpec ==
    /\ Spec
    /\ WF_vars(CronSelect)
    /\ \A e \in Enqueuers :
           /\ WF_vars(Outbox(e))
           /\ SF_vars(\E m \in Copies : Enqueue(e, m))
    /\ \A m \in Copies : WF_vars(Handle(m) \/ ConsumerStops(m))

-----------------------------------------------------------------------------
(* Properties *)

\* Every variable keeps its type, and a row has a lease just while somebody may
\* be sending or auditing (notification-delivery-store.ts lease_until).
TypeOK ==
    /\ email \in BOOLEAN
    /\ row \in Statuses
    /\ lease \in {"none", "runs", "over"}
    /\ attempts \in 0..SendLimit
    /\ queued \in BOOLEAN
    /\ failure \in {"none", "rejected", "unknown"}
    /\ noted \in BOOLEAN
    /\ msg \in [Copies -> {"unsent", "queued", "taken", "acked", "quarantined"}]
    /\ deliveries \in [Copies -> 0..MaxDeliveries]
    /\ pc \in [Copies -> Waits]
    /\ seen \in [Copies -> Statuses \cup Failures \cup {"none"}]
    /\ enq \in [Enqueuers -> {"idle", "send", "mark", "note"}]
    /\ calls \in Nat
    /\ last \in {"none", "open", "accepted", "retryable", "failed"}
    /\ audited \in BOOLEAN
    /\ row \in Leased <=> lease # "none"

\* Two consumers never call the provider at once, however many copies of the
\* message there are and however long a call outlives its lease
\* (notification-delivery-state.ts: a lease that is over ends the delivery).
OneCaller ==
    \A m, n \in Copies :
        pc[m] \in {"send", "calling"} /\ pc[n] \in {"send", "calling"} => m = n

\* The provider is called again only when it answered that the last call may
\* be repeated: not after it accepted, not after a timeout, and not after a
\* call whose consumer stopped (notification-provider-error.ts:1-2).
ResendOnlyWhenTold ==
    \A m \in Copies : pc[m] = "send" => last \in {"none", "retryable"}

\* At most PROVIDER_SEND_ATTEMPT_LIMIT calls are made, whatever else counts as
\* an attempt (notification-delivery-state.ts:3).
CallsBounded == calls <= SendLimit

FailureMatchesRow ==
    /\ failure = "rejected" <=> row = "provider_rejected"
    /\ failure = "unknown" <=> row = "unknown_delivery"

\* The row of a notification that has ended tells the truth: a delivered one
\* was accepted by the provider in its latest call and its audit event is on
\* the queue, and a failure is recorded just for the one that ended in it
\* (the order of executeNotificationDelivery; recordProviderFailure, a batch).
RowIsTrue ==
    /\ row = "delivered" => last = "accepted" /\ audited
    /\ FailureMatchesRow

InHand == \E m \in Copies : msg[m] \in {"queued", "taken", "quarantined"}

\* Until it has ended a notification is on the queue, with a consumer, among
\* the dead letters or, an email, in the hourly job's sight, unless it could
\* not be rendered (notification-outbox.ts: the row outlives every failed send;
\* a message is acknowledged only for an ended row).
Carried ==
    \/ row \in Terminal
    \/ noted
    \/ InHand
    \/ email /\ row = "pending" /\ ~queued

Settled ==
    \/ row \in Terminal
    \/ noted
    \/ \E m \in Copies : msg[m] = "quarantined"

\* The right to call is free until a consumer claims the row for sending
Turn ==
    IF row \in {"absent", "pending"} THEN "free"
    ELSE IF \E m \in Copies : pc[m] = "send" THEN "taken"
    ELSE "spent"

Fate ==
    CASE row \in {"absent", "pending", "sending"}    -> "open"
      [] row \in {"provider_accepted", "auditing"}   -> "accepted"
      [] row = "delivered"                           -> "delivered"
      [] row = "provider_rejected"                   -> "rejected"
      [] row = "unknown_delivery"                    -> "unknown"

ProviderSide == INSTANCE ProviderCalls WITH turn <- Turn, fate <- Fate

\* All the consumers, leases and redeliveries together keep up one conversation
\* with the provider: each call takes a turn, which only a "try again" gives
\* back, and the row ends once, in what the provider has said, so that no call
\* follows a delivered or a rejected notification and one at most, already on
\* its way, a notification that was given up (executeNotificationDelivery).
ImplementsProviderCalls == ProviderSide!Spec

\* Every notification ends, or waits for an operator among the dead letters:
\* failed sends to the queue, stopped workers and lost answers only delay it.
Settles == []<>Settled
=============================================================================
