--------------------------- MODULE AuditDelivery ---------------------------
(***************************************************************************)
(* How an audit event reaches the audit chain: the platform audit outbox   *)
(* in D1, the audit queue, its consumer, the dead-letter queue and the     *)
(* quarantine an operator replays it from.  The chain itself is AuditLog,  *)
(* which AuditChain implements.                                            *)
(*                                                                         *)
(* The queue delivers a message until it is acknowledged or has used up    *)
(* its retries, and wrangler.jsonc gives its consumer max_concurrency 1.   *)
(* How many attempts that takes is left out: any failed delivery may be    *)
(* the last, and any throw of append may be followed by terminalize.       *)
(* Messages are numbered in the order they are sent.                       *)
(***************************************************************************)
EXTENDS Naturals, Sequences

CONSTANTS
    Audits,         \* ids of platform audits, written to the outbox first
    Plain,          \* audit events that other code sends to the queue directly
    Workers,        \* Worker invocations that send, redeliver or replay
    MaxSends,       \* bound on the number of messages sent
    None            \* no message, no audit, no worker

Messages == 1 .. MaxSends
Events == Audits \cup Plain

ASSUME ConstantsOK == /\ MaxSends \in Nat
                      /\ None \notin Events \cup Messages \cup Workers
                      /\ Audits \cap Plain = {}
                      /\ Events \cap Messages = {}

VARIABLES
    outbox,         \* outbox[a]: status of the row of a in the outbox
    log, dead,      \* the audit chain: see AuditLog
    body,           \* body[m]: the event that message m carries
    place,          \* place[m]: the queue m is in
    consuming,      \* the message the audit consumer has in hand
    stage,          \* how far it has come with it
    quarantine,     \* quarantine[m]: status of the row of m in queue_dead_letters
    holder,         \* holder[m]: replay_requested_at, as the worker that set it
    expired,        \* messages whose replay lease is over
    pc,             \* pc[w]: what worker w waits for
    audit,          \* audit[w]: the platform audit it sends
    msg,            \* msg[w]: the dead letter it replays
    replayOf        \* replayOf[a]: the dead letter whose replay a records

logVars == <<log, dead>>
consumerVars == <<consuming, stage>>
rowVars == <<quarantine, holder, expired>>
workerVars == <<pc, audit, msg>>
vars == <<outbox, log, dead, body, place, consuming, stage, quarantine, holder,
          expired, pc, audit, msg, replayOf>>

-----------------------------------------------------------------------------
(* Data *)

OutboxStates == {"none", "pending", "queued", "delivered"}
Places == {"unsent", "queue", "dlq", "parked", "gone"}
Stages == {"none", "append", "terminalize", "complete", "ack"}
RowStates == {"none", "pending", "replaying", "replayed"}
Waits == {"idle", "send", "mark", "note", "resend", "release", "complete"}

\* Mutant: the consumer ignores payload.sourceMessageId
MessageId(m) == m

\* payload.sourceMessageId, or else the id of the message itself
Source(m) == IF body[m] \in Audits THEN body[m] ELSE m

Log == INSTANCE AuditLog WITH Sources <- Audits \cup Messages

\* The sources whose fate the chain has decided
settled == dead \cup {log[i] : i \in DOMAIN log}

\* m is the number that the next message gets
IsNext(m) == /\ place[m] = "unsent"
            /\ \A k \in Messages : k < m => place[k] # "unsent"

Init ==
    /\ outbox = [a \in Audits |-> "none"]
    /\ log = <<>>
    /\ dead = {}
    /\ body = [m \in Messages |-> None]
    /\ place = [m \in Messages |-> "unsent"]
    /\ consuming = None
    /\ stage = "none"
    /\ quarantine = [m \in Messages |-> "none"]
    /\ holder = [m \in Messages |-> None]
    /\ expired = {}
    /\ pc = [w \in Workers |-> "idle"]
    /\ audit = [w \in Workers |-> None]
    /\ msg = [w \in Workers |-> None]
    /\ replayOf = [a \in Audits |-> None]

Goto(w, l) ==
    /\ pc' = [pc EXCEPT ![w] = l]
    /\ UNCHANGED <<audit, msg>>

Begin(w, l, a, m) ==
    /\ pc' = [pc EXCEPT ![w] = l]
    /\ audit' = [audit EXCEPT ![w] = a]
    /\ msg' = [msg EXCEPT ![w] = m]

\* The invocation answers, throws, or is lost
End(w) == Begin(w, "idle", None, None)

\* The queue accepts event e as message m
Enqueue(m, e) ==
    /\ IsNext(m)
    /\ body' = [body EXCEPT ![m] = e]
    /\ place' = [place EXCEPT ![m] = "queue"]

-----------------------------------------------------------------------------
(* Mutants: slips the properties below must notice *)

\* markQueued without status IN ('pending', 'queued')
MarkAnyStatus(w) ==
    /\ pc[w] = "mark"
    /\ outbox' = [outbox EXCEPT ![audit[w]] = "queued"]
    /\ End(w)
    /\ UNCHANGED <<logVars, body, place, consumerVars, rowVars, replayOf>>

\* The dead-letter consumer acknowledges a message it could not persist
AckUnpersisted(m) ==
    /\ place[m] = "dlq"
    /\ place' = [place EXCEPT ![m] = "gone"]
    /\ UNCHANGED <<outbox, logVars, body, consumerVars, rowVars, workerVars,
                   replayOf>>

\* releaseReplayClaim without replay_requested_at = claimedAt
ReleaseAnyClaim(w) ==
    /\ pc[w] = "release"
    /\ quarantine' = [quarantine EXCEPT ![msg[w]] =
                         IF @ = "replaying" THEN "pending" ELSE @]
    /\ End(w)
    /\ UNCHANGED <<outbox, logVars, body, place, consumerVars, holder, expired,
                   replayOf>>

\* The audit of a replay is inserted without looking at the claim
AuditAnyClaim(w, a) ==
    /\ pc[w] = "complete"
    /\ outbox[a] = "none"
    /\ outbox' = [outbox EXCEPT ![a] = "pending"]
    /\ replayOf' = [replayOf EXCEPT ![a] = msg[w]]
    /\ quarantine' = [quarantine EXCEPT ![msg[w]] =
                         IF @ = "replaying" /\ holder[msg[w]] = w THEN "replayed" ELSE @]
    /\ Begin(w, "send", a, None)
    /\ UNCHANGED <<logVars, body, place, consumerVars, holder, expired>>

\* An expired lease is released only when it was never stamped
RecoverUnstamped(m) ==
    /\ quarantine[m] = "replaying"
    /\ holder[m] = None
    /\ quarantine' = [quarantine EXCEPT ![m] = "pending"]
    /\ UNCHANGED <<outbox, logVars, body, place, consumerVars, holder, expired,
                   workerVars, replayOf>>

-----------------------------------------------------------------------------
(* Producers *)

\* recordPlatformAudit: the outbox row first
Insert(w, a) ==
    /\ pc[w] = "idle"
    /\ outbox[a] = "none"
    /\ outbox' = [outbox EXCEPT ![a] = "pending"]
    /\ Begin(w, "send", a, None)
    /\ UNCHANGED <<logVars, body, place, consumerVars, rowVars, replayOf>>

\* redeliverPendingPlatformAudits selects a row that is due
Redeliver(w, a) ==
    /\ pc[w] = "idle"
    /\ outbox[a] = "pending"
    /\ Begin(w, "send", a, None)
    /\ UNCHANGED <<outbox, logVars, body, place, consumerVars, rowVars, replayOf>>

\* enqueuePersistedPlatformAudit; a send that fails may have been accepted
Send(w, m) ==
    /\ pc[w] = "send"
    /\ Enqueue(m, audit[w])
    /\ \E l \in {"mark", "note"} : Goto(w, l)
    /\ UNCHANGED <<outbox, logVars, consumerVars, rowVars, replayOf>>

SendFails(w) ==
    /\ pc[w] = "send"
    /\ Goto(w, "note")
    /\ UNCHANGED <<outbox, logVars, body, place, consumerVars, rowVars, replayOf>>

\* markQueued
Mark(w) ==
    /\ pc[w] = "mark"
    /\ outbox' = [outbox EXCEPT ![audit[w]] =
                     IF @ = "delivered" THEN @ ELSE "queued"]
    /\ End(w)
    /\ UNCHANGED <<logVars, body, place, consumerVars, rowVars, replayOf>>

\* noteQueueFailure
Note(w) ==
    /\ pc[w] = "note"
    /\ outbox' = [outbox EXCEPT ![audit[w]] =
                     IF @ = "delivered" THEN @ ELSE "pending"]
    /\ End(w)
    /\ UNCHANGED <<logVars, body, place, consumerVars, rowVars, replayOf>>

\* AUDIT_QUEUE.send of an event that has no outbox row
SendPlain(e, m) ==
    /\ \A k \in Messages : body[k] # e
    /\ Enqueue(m, e)
    /\ UNCHANGED <<outbox, logVars, consumerVars, rowVars, workerVars, replayOf>>

-----------------------------------------------------------------------------
(* The audit consumer *)

Receive(m) ==
    /\ consuming = None
    /\ place[m] = "queue"
    /\ consuming' = m
    /\ stage' = "append"
    /\ UNCHANGED <<outbox, logVars, body, place, rowVars, workerVars, replayOf>>

\* append: recorded now, recorded before, or found given up
AppendEvent ==
    /\ stage = "append"
    /\ IF Source(consuming) \in settled
       THEN UNCHANGED logVars
       ELSE Log!Record(Source(consuming))
    /\ stage' = "complete"
    /\ UNCHANGED <<outbox, body, place, consuming, rowVars, workerVars, replayOf>>

\* append throws in the last attempts
AppendThrows ==
    /\ stage = "append"
    /\ stage' = "terminalize"
    /\ UNCHANGED <<outbox, logVars, body, place, consuming, rowVars, workerVars,
                   replayOf>>

Terminalize ==
    /\ stage = "terminalize"
    /\ IF Source(consuming) \in settled
       THEN UNCHANGED logVars
       ELSE Log!GiveUp(Source(consuming))
    /\ stage' = "complete"
    /\ UNCHANGED <<outbox, body, place, consuming, rowVars, workerVars, replayOf>>

\* The object gives up the event that has blocked it for too long
ExpirePending(m) ==
    /\ place[m] # "unsent"
    /\ Log!GiveUp(Source(m))
    /\ UNCHANGED <<outbox, body, place, consumerVars, rowVars, workerVars, replayOf>>

\* completePlatformAuditOutbox; it ignores other sources
Complete ==
    /\ stage = "complete"
    /\ outbox' = [a \in Audits |->
                     IF a = body[consuming] /\ outbox[a] \in {"pending", "queued"}
                     THEN "delivered" ELSE outbox[a]]
    /\ stage' = "ack"
    /\ UNCHANGED <<logVars, body, place, consuming, rowVars, workerVars, replayOf>>

Ack ==
    /\ stage = "ack"
    /\ place' = [place EXCEPT ![consuming] = "gone"]
    /\ consuming' = None
    /\ stage' = "none"
    /\ UNCHANGED <<outbox, logVars, body, rowVars, workerVars, replayOf>>

\* Blocked, failed, or lost wherever it is: delivered again, or out of retries
Retry ==
    /\ consuming # None
    /\ \E p \in {"queue", "dlq"} : place' = [place EXCEPT ![consuming] = p]
    /\ consuming' = None
    /\ stage' = "none"
    /\ UNCHANGED <<outbox, logVars, body, rowVars, workerVars, replayOf>>

-----------------------------------------------------------------------------
(* Dead letters *)

\* persistDeadLetter: INSERT OR IGNORE
Persist(m) ==
    /\ place[m] = "dlq"
    /\ quarantine[m] = "none"
    /\ quarantine' = [quarantine EXCEPT ![m] = "pending"]
    /\ UNCHANGED <<outbox, logVars, body, place, consumerVars, holder, expired,
                   workerVars, replayOf>>

\* Acknowledged once the row was seen; until then the queue delivers it again
AckDeadLetter(m) ==
    /\ place[m] = "dlq"
    /\ quarantine[m] # "none"
    /\ place' = [place EXCEPT ![m] = "gone"]
    /\ UNCHANGED <<outbox, logVars, body, consumerVars, rowVars, workerVars,
                   replayOf>>

\* 100 failed attempts to persist it: the next queue has no consumer
Park(m) ==
    /\ place[m] = "dlq"
    /\ place' = [place EXCEPT ![m] = "parked"]
    /\ UNCHANGED <<outbox, logVars, body, consumerVars, rowVars, workerVars,
                   replayOf>>

\* replayDeadLetter claims a pending row, or one whose lease is over
Claim(w, m) ==
    /\ pc[w] = "idle"
    /\ \/ quarantine[m] = "pending"
       \/ quarantine[m] = "replaying" /\ m \in expired
    /\ quarantine' = [quarantine EXCEPT ![m] = "replaying"]
    /\ holder' = [holder EXCEPT ![m] = w]
    /\ expired' = expired \ {m}
    /\ Begin(w, "resend", None, m)
    /\ UNCHANGED <<outbox, logVars, body, place, consumerVars, replayOf>>

\* sendOriginalMessage; a send that fails may have been accepted
Resend(w, m) ==
    /\ pc[w] = "resend"
    /\ Enqueue(m, body[msg[w]])
    /\ \E l \in {"complete", "release"} : Goto(w, l)
    /\ UNCHANGED <<outbox, logVars, consumerVars, rowVars, replayOf>>

ResendFails(w) ==
    /\ pc[w] = "resend"
    /\ Goto(w, "release")
    /\ UNCHANGED <<outbox, logVars, body, place, consumerVars, rowVars, replayOf>>

\* The claim is still the one that w made
Claimed(w) == quarantine[msg[w]] = "replaying" /\ holder[msg[w]] = w

\* releaseReplayClaim
Release(w) ==
    /\ pc[w] = "release"
    /\ quarantine' = IF Claimed(w)
                     THEN [quarantine EXCEPT ![msg[w]] = "pending"]
                     ELSE quarantine
    /\ End(w)
    /\ UNCHANGED <<outbox, logVars, body, place, consumerVars, holder, expired,
                   replayOf>>

\* One batch: the audit of the replay and the replayed state, or neither
CompleteReplay(w, a) ==
    /\ pc[w] = "complete"
    /\ Claimed(w)
    /\ outbox[a] = "none"
    /\ outbox' = [outbox EXCEPT ![a] = "pending"]
    /\ replayOf' = [replayOf EXCEPT ![a] = msg[w]]
    /\ quarantine' = [quarantine EXCEPT ![msg[w]] = "replayed"]
    /\ Begin(w, "send", a, None)
    /\ UNCHANGED <<logVars, body, place, consumerVars, holder, expired>>

LeaseExpires(m) ==
    /\ quarantine[m] = "replaying"
    /\ m \notin expired
    /\ expired' = expired \cup {m}
    /\ UNCHANGED <<outbox, logVars, body, place, consumerVars, quarantine, holder,
                   workerVars, replayOf>>

\* recoverStaleDeadLetterReplays
Recover(m) ==
    /\ quarantine[m] = "replaying"
    /\ m \in expired
    /\ quarantine' = [quarantine EXCEPT ![m] = "pending"]
    /\ UNCHANGED <<outbox, logVars, body, place, consumerVars, holder, expired,
                   workerVars, replayOf>>

\* An invocation throws or is lost, wherever it is
Fails(w) ==
    /\ pc[w] # "idle"
    /\ End(w)
    /\ UNCHANGED <<outbox, logVars, body, place, consumerVars, rowVars, replayOf>>

-----------------------------------------------------------------------------

ProducerStep ==
    \/ \E w \in Workers :
        \/ \E a \in Audits : Insert(w, a) \/ Redeliver(w, a)
        \/ \E m \in Messages : Send(w, m)
        \/ SendFails(w) \/ Mark(w) \/ Note(w)
    \/ \E e \in Plain, m \in Messages : SendPlain(e, m)

ConsumerStep ==
    \/ \E m \in Messages : Receive(m) \/ ExpirePending(m)
    \/ AppendEvent \/ AppendThrows \/ Terminalize \/ Complete \/ Ack \/ Retry

DeadLetterStep ==
    \/ \E m \in Messages :
        \/ Persist(m) \/ AckDeadLetter(m) \/ Park(m)
        \/ LeaseExpires(m) \/ Recover(m)
    \/ \E w \in Workers :
        \/ \E m \in Messages : Claim(w, m) \/ Resend(w, m)
        \/ \E a \in Audits : CompleteReplay(w, a)
        \/ ResendFails(w) \/ Release(w) \/ Fails(w)

Next == ProducerStep \/ ConsumerStep \/ DeadLetterStep

Spec == Init /\ [][Next]_vars

\* Time passes, the hourly cron runs, and operators do not take an expired
\* lease over just before every run of it
FairSpec == /\ Spec
            /\ \A m \in Messages : WF_vars(LeaseExpires(m)) /\ SF_vars(Recover(m))

-----------------------------------------------------------------------------
(* Properties *)

\* The variables have their types; a message has a body once it is sent, and
\* only the id of a message without a sourceMessageId is a source
\* (sourceMessageId).
TypeOK ==
    /\ outbox \in [Audits -> OutboxStates]
    /\ log \in Seq(Audits \cup Messages) /\ dead \subseteq Audits \cup Messages
    /\ body \in [Messages -> Events \cup {None}]
    /\ place \in [Messages -> Places]
    /\ consuming \in Messages \cup {None} /\ stage \in Stages
    /\ quarantine \in [Messages -> RowStates]
    /\ holder \in [Messages -> Workers \cup {None}]
    /\ expired \subseteq Messages
    /\ pc \in [Workers -> Waits]
    /\ audit \in [Workers -> Audits \cup {None}]
    /\ msg \in [Workers -> Messages \cup {None}]
    /\ replayOf \in [Audits -> Messages \cup {None}]
    /\ \A m \in Messages : body[m] = None <=> place[m] = "unsent"
    /\ \A m \in Messages : m \in settled => body[m] \in Plain

\* Some queue will deliver m, or an operator can replay it
Held(m) == \/ place[m] \in {"queue", "dlq", "parked"}
           \/ quarantine[m] \in {"pending", "replaying"}

\* An event that some queue has accepted is never lost: it is in the audit
\* chain or given up on record, or a message that carries it is still held,
\* whatever crashes, retries, dead letters and replays came over it (the order
\* of append and ack, persistDeadLetter and ack, send and completion).
NothingLost ==
    \A m \in Messages :
        body[m] # None =>
            \E k \in Messages : /\ body[k] = body[m]
                                /\ Source(k) \in settled \/ Held(k)

\* An outbox row tells the truth: a delivered one is settled in the chain, a
\* queued one, which the cron does not redeliver, still has a message that is
\* held (markQueued, noteQueueFailure and completePlatformAuditOutbox race).
OutboxHonest ==
    \A a \in Audits :
        /\ outbox[a] = "delivered" => a \in settled
        /\ outbox[a] = "queued" => \E m \in Messages : body[m] = a /\ Held(m)

\* While its lease runs nobody else takes a claimed replay away or frees it,
\* requests that lost their own claim of the same row included
\* (replay_requested_at = claimedAt in releaseReplayClaim and the completion).
LeaseHeld ==
    \A w \in Workers :
        /\ pc[w] \in {"resend", "complete", "release"}
        /\ holder[msg[w]] = w
        /\ msg[w] \notin expired
        => quarantine[msg[w]] = "replaying"

\* A dead letter is replayed exactly when one audit says so, however many
\* requests replay it: "never an unaudited completed replay"
\* (replayDeadLetter's last batch).
ReplayAudited ==
    \A m \in Messages :
        /\ quarantine[m] = "replayed" <=> \E a \in Audits : replayOf[a] = m
        /\ \A a, b \in Audits : replayOf[a] = m /\ replayOf[b] = m => a = b

\* A crashed replay does not keep its dead letter for ever (the hourly cron,
\* recoverStaleDeadLetterReplays).
ReplayEnds ==
    \A m \in Messages :
        quarantine[m] = "replaying" ~> quarantine[m] # "replaying"

=============================================================================
