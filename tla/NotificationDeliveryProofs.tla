--------------------- MODULE NotificationDeliveryProofs ---------------------
(***************************************************************************)
(* Theorems about NotificationDelivery for every set of messages and all   *)
(* limits.  The invariant says where a consumer may stand for each status  *)
(* of the row, and what is then known of the calls to the provider.        *)
(***************************************************************************)
EXTENDS NotificationDelivery, TLAPS

\* A consumer at work has its message
QueueInv ==
    \A m \in Copies :
        /\ pc[m] # "idle" => msg[m] = "taken"
        /\ msg[m] \in {"unsent", "queued"} => deliveries[m] < MaxDeliveries

SendStages == {"send", "calling", "accept", "settle"}

\* One consumer is between its claim and the end of its send, and meanwhile
\* the row can only become unknown
SenderInv ==
    \A m \in Copies : pc[m] \in SendStages =>
        /\ row \in {"sending", "unknown_delivery"}
        /\ \A n \in Copies : pc[n] \in SendStages => m = n

\* What is known of the latest call, by the row and by its consumer
LastInv ==
    /\ row \in {"absent", "pending"} => last \in {"none", "retryable"}
    /\ row \in {"provider_accepted", "auditing", "delivered"} => last = "accepted"
    /\ \A m \in Copies :
           /\ pc[m] = "send" => last \in {"none", "retryable"}
           /\ pc[m] = "calling" => last = "open"
           /\ pc[m] = "accept" => last = "accepted"
           /\ pc[m] = "settle" =>
                  /\ seen[m] \in Failures
                  /\ last = IF seen[m] \in Retryable THEN "retryable" ELSE "failed"

\* Every call was counted when the row was claimed for it
CountInv ==
    /\ calls <= attempts
    /\ row \in {"absent", "pending"} => calls < SendLimit
    /\ \A m \in Copies : pc[m] = "send" => calls < attempts

AuditInv ==
    /\ row = "delivered" => audited
    /\ \A m \in Copies : pc[m] = "markAudit" => audited

AuditStages == {"audit", "markAudit", "unaudit"}

\* Who audits does so after the provider has accepted, when nobody sends
AuditorInv ==
    \A m \in Copies : pc[m] \in AuditStages =>
        /\ row \notin {"absent", "pending", "sending", "provider_rejected"}
        /\ last = "accepted"
        /\ \A n \in Copies : pc[n] \notin SendStages

Held == InHand \/ noted \/ row \in Terminal

\* Once a message was sent the notification is held until it has ended
HeldInv ==
    /\ ~email => Held
    /\ queued \/ row # "pending" => Held
    /\ \A e \in Enqueuers : enq[e] = "mark" => Held

IInv == /\ TypeOK
        /\ QueueInv
        /\ SenderInv
        /\ LastInv
        /\ CountInv
        /\ AuditInv
        /\ AuditorInv
        /\ FailureMatchesRow
        /\ HeldInv

\* The types, and the lease just of a leased row
LEMMA TypeStep ==
  ASSUME IInv, [Next]_vars
  PROVE  TypeOK'
  <1> USE ConstantsOK DEF IInv, TypeOK, Statuses, Leased, Terminal, Failures,
     Retryable, Waits, Enqueuers, MaxDeliveries, QueueInv, Goto, Leave, Ack,
     Retry, store, consumers, ghosts
  <1>1. CASE UNCHANGED vars \/ CronSelect \/ LeaseEnds
    BY <1>1 DEF vars, CronSelect, LeaseEnds
  <1>2. ASSUME NEW e \in Enqueuers, NEW m \in Copies, Enqueue(e, m)
       PROVE  TypeOK'
    BY <1>2 DEF Enqueue
  <1>3. ASSUME NEW e \in Enqueuers, EnqueueFails(e) \/ EnqueuerStops(e)
       PROVE  TypeOK'
    BY <1>3 DEF EnqueueFails, EnqueuerStops
  <1>4. ASSUME NEW e \in Enqueuers, MarkQueued(e) PROVE TypeOK'
    <2>1. queued' \in BOOLEAN
      BY <1>4, Zenon DEF MarkQueued
    <2> QED BY <1>4, <2>1 DEF MarkQueued
  <1>5. ASSUME NEW e \in Enqueuers, NoteQueueSendFailure(e) PROVE TypeOK'
    BY <1>5 DEF NoteQueueSendFailure, Counted
  <1>6. ASSUME NEW m \in Copies, Receive(m) PROVE TypeOK'
    BY <1>6 DEF Receive
  <1>7. ASSUME NEW m \in Copies, Render(m) PROVE TypeOK'
    <2>1. noted' \in BOOLEAN
      BY <1>7, Zenon DEF Render
    <2> QED BY <1>7, <2>1 DEF Render
  <1>8. ASSUME NEW m \in Copies, Read(m) PROVE TypeOK'
    BY <1>8 DEF Read
  <1>9. ASSUME NEW m \in Copies, ClaimSend(m) PROVE TypeOK'
    BY <1>9 DEF ClaimSend, Claim, Counted
  <1>10. ASSUME NEW m \in Copies, ClaimAudit(m) PROVE TypeOK'
    BY <1>10 DEF ClaimAudit, Claim, Counted
  <1>11. ASSUME NEW m \in Copies, GiveUp(m) PROVE TypeOK'
    BY <1>11 DEF GiveUp, RecordFailure, Outcome
  <1>12. ASSUME NEW m \in Copies, CallProvider(m) PROVE TypeOK'
    BY <1>12 DEF CallProvider
  <1>13. ASSUME NEW m \in Copies, ProviderAccepts(m) PROVE TypeOK'
    BY <1>13 DEF ProviderAccepts
  <1>14. ASSUME NEW m \in Copies, ProviderFails(m) PROVE TypeOK'
    BY <1>14 DEF ProviderFails
  <1>15. ASSUME NEW m \in Copies, MarkProviderAccepted(m) PROVE TypeOK'
    BY <1>15 DEF MarkProviderAccepted, Move
  <1>16. ASSUME NEW m \in Copies, Settle(m) PROVE TypeOK'
    BY <1>16 DEF Settle, Move, RecordFailure, Outcome
  <1>17. ASSUME NEW m \in Copies, RecordAudit(m) PROVE TypeOK'
    <2>1. audited' \in BOOLEAN
      BY <1>17, Zenon DEF RecordAudit
    <2> QED BY <1>17, <2>1 DEF RecordAudit
  <1>18. ASSUME NEW m \in Copies, MarkAuditQueued(m) PROVE TypeOK'
    BY <1>18 DEF MarkAuditQueued, Move
  <1>19. ASSUME NEW m \in Copies, ReleaseAudit(m) PROVE TypeOK'
    BY <1>19 DEF ReleaseAudit, Move
  <1>20. ASSUME NEW m \in Copies, ConsumerStops(m) PROVE TypeOK'
    BY <1>20 DEF ConsumerStops
  <1>21. ASSUME NEW m \in Copies, Replay(m) PROVE TypeOK'
    BY <1>21 DEF Replay
  <1> QED BY <1>1, <1>2, <1>3, <1>4, <1>5, <1>6, <1>7, <1>8, <1>9, <1>10, <1>11,
             <1>12, <1>13, <1>14, <1>15, <1>16, <1>17, <1>18, <1>19, <1>20, <1>21
          DEF Next, Outbox, Handle

\* The queue: a message taken is not taken by another
LEMMA QueueStep ==
  ASSUME IInv, [Next]_vars
  PROVE  QueueInv'
  <1> USE ConstantsOK DEF IInv, TypeOK, Statuses, Leased, Terminal, Failures,
     Retryable, MaxDeliveries, QueueInv, Goto, Leave, Ack, Retry, store,
     consumers, ghosts
  <1>1. CASE UNCHANGED vars \/ CronSelect \/ LeaseEnds
    BY <1>1 DEF vars, CronSelect, LeaseEnds
  <1>2. ASSUME NEW e \in Enqueuers, NEW m \in Copies, Enqueue(e, m)
       PROVE  QueueInv'
    BY <1>2 DEF Enqueue
  <1>3. ASSUME NEW e \in Enqueuers, EnqueueFails(e) \/ EnqueuerStops(e)
       PROVE  QueueInv'
    BY <1>3 DEF EnqueueFails, EnqueuerStops
  <1>4. ASSUME NEW e \in Enqueuers, MarkQueued(e) PROVE QueueInv'
    BY <1>4 DEF MarkQueued
  <1>5. ASSUME NEW e \in Enqueuers, NoteQueueSendFailure(e) PROVE QueueInv'
    BY <1>5 DEF NoteQueueSendFailure, Counted
  <1>6. ASSUME NEW m \in Copies, Receive(m) PROVE QueueInv'
    BY <1>6 DEF Receive
  <1>7. ASSUME NEW m \in Copies, Render(m) PROVE QueueInv'
    BY <1>7 DEF Render
  <1>8. ASSUME NEW m \in Copies, Read(m) PROVE QueueInv'
    BY <1>8 DEF Read
  <1>9. ASSUME NEW m \in Copies, ClaimSend(m) PROVE QueueInv'
    BY <1>9 DEF ClaimSend, Claim, Counted
  <1>10. ASSUME NEW m \in Copies, ClaimAudit(m) PROVE QueueInv'
    BY <1>10 DEF ClaimAudit, Claim, Counted
  <1>11. ASSUME NEW m \in Copies, GiveUp(m) PROVE QueueInv'
    BY <1>11 DEF GiveUp, RecordFailure, Outcome
  <1>12. ASSUME NEW m \in Copies, CallProvider(m) PROVE QueueInv'
    BY <1>12 DEF CallProvider
  <1>13. ASSUME NEW m \in Copies, ProviderAccepts(m) PROVE QueueInv'
    BY <1>13 DEF ProviderAccepts
  <1>14. ASSUME NEW m \in Copies, ProviderFails(m) PROVE QueueInv'
    BY <1>14 DEF ProviderFails
  <1>15. ASSUME NEW m \in Copies, MarkProviderAccepted(m) PROVE QueueInv'
    BY <1>15 DEF MarkProviderAccepted, Move
  <1>16. ASSUME NEW m \in Copies, Settle(m) PROVE QueueInv'
    BY <1>16 DEF Settle, Move, RecordFailure, Outcome
  <1>17. ASSUME NEW m \in Copies, RecordAudit(m) PROVE QueueInv'
    BY <1>17 DEF RecordAudit
  <1>18. ASSUME NEW m \in Copies, MarkAuditQueued(m) PROVE QueueInv'
    BY <1>18 DEF MarkAuditQueued, Move
  <1>19. ASSUME NEW m \in Copies, ReleaseAudit(m) PROVE QueueInv'
    BY <1>19 DEF ReleaseAudit, Move
  <1>20. ASSUME NEW m \in Copies, ConsumerStops(m) PROVE QueueInv'
    BY <1>20 DEF ConsumerStops
  <1>21. ASSUME NEW m \in Copies, Replay(m) PROVE QueueInv'
    BY <1>21 DEF Replay
  <1> QED BY <1>1, <1>2, <1>3, <1>4, <1>5, <1>6, <1>7, <1>8, <1>9, <1>10, <1>11,
             <1>12, <1>13, <1>14, <1>15, <1>16, <1>17, <1>18, <1>19, <1>20, <1>21
          DEF Next, Outbox, Handle

\* One sender: a claim needs a pending row, which no sender leaves
LEMMA SenderStep ==
  ASSUME IInv, [Next]_vars
  PROVE  SenderInv'
  <1> USE DEF IInv, TypeOK, Statuses, Leased, Terminal, Failures, Retryable,
     SenderInv, SendStages, Goto, Leave, Ack, Retry, store, consumers, ghosts
  <1>1. CASE UNCHANGED vars \/ CronSelect \/ LeaseEnds
    BY <1>1 DEF vars, CronSelect, LeaseEnds
  <1>2. ASSUME NEW e \in Enqueuers, NEW m \in Copies, Enqueue(e, m)
       PROVE  SenderInv'
    BY <1>2 DEF Enqueue
  <1>3. ASSUME NEW e \in Enqueuers, EnqueueFails(e) \/ EnqueuerStops(e)
       PROVE  SenderInv'
    BY <1>3 DEF EnqueueFails, EnqueuerStops
  <1>4. ASSUME NEW e \in Enqueuers, MarkQueued(e) PROVE SenderInv'
    BY <1>4 DEF MarkQueued
  <1>5. ASSUME NEW e \in Enqueuers, NoteQueueSendFailure(e) PROVE SenderInv'
    BY <1>5 DEF NoteQueueSendFailure, Counted
  <1>6. ASSUME NEW m \in Copies, Receive(m) PROVE SenderInv'
    BY <1>6 DEF Receive
  <1>7. ASSUME NEW m \in Copies, Render(m) PROVE SenderInv'
    BY <1>7 DEF Render
  <1>8. ASSUME NEW m \in Copies, Read(m) PROVE SenderInv'
    BY <1>8 DEF Read
  <1>9. ASSUME NEW m \in Copies, ClaimSend(m) PROVE SenderInv'
    BY <1>9 DEF ClaimSend, Claim, Counted
  <1>10. ASSUME NEW m \in Copies, ClaimAudit(m) PROVE SenderInv'
    BY <1>10 DEF ClaimAudit, Claim, Counted
  <1>11. ASSUME NEW m \in Copies, GiveUp(m) PROVE SenderInv'
    BY <1>11 DEF GiveUp, RecordFailure, Outcome
  <1>12. ASSUME NEW m \in Copies, CallProvider(m) PROVE SenderInv'
    BY <1>12 DEF CallProvider
  <1>13. ASSUME NEW m \in Copies, ProviderAccepts(m) PROVE SenderInv'
    BY <1>13 DEF ProviderAccepts
  <1>14. ASSUME NEW m \in Copies, ProviderFails(m) PROVE SenderInv'
    BY <1>14 DEF ProviderFails
  <1>15. ASSUME NEW m \in Copies, MarkProviderAccepted(m) PROVE SenderInv'
    BY <1>15 DEF MarkProviderAccepted, Move
  <1>16. ASSUME NEW m \in Copies, Settle(m) PROVE SenderInv'
    BY <1>16 DEF Settle, Move, RecordFailure, Outcome
  <1>17. ASSUME NEW m \in Copies, RecordAudit(m) PROVE SenderInv'
    BY <1>17 DEF RecordAudit
  <1>18. ASSUME NEW m \in Copies, MarkAuditQueued(m) PROVE SenderInv'
    BY <1>18 DEF MarkAuditQueued, Move
  <1>19. ASSUME NEW m \in Copies, ReleaseAudit(m) PROVE SenderInv'
    BY <1>19 DEF ReleaseAudit, Move
  <1>20. ASSUME NEW m \in Copies, ConsumerStops(m) PROVE SenderInv'
    BY <1>20 DEF ConsumerStops
  <1>21. ASSUME NEW m \in Copies, Replay(m) PROVE SenderInv'
    BY <1>21 DEF Replay
  <1> QED BY <1>1, <1>2, <1>3, <1>4, <1>5, <1>6, <1>7, <1>8, <1>9, <1>10, <1>11,
             <1>12, <1>13, <1>14, <1>15, <1>16, <1>17, <1>18, <1>19, <1>20, <1>21
          DEF Next, Outbox, Handle

\* What is known of the latest call
LEMMA LastStep ==
  ASSUME IInv, [Next]_vars
  PROVE  LastInv'
  <1> USE DEF IInv, TypeOK, Statuses, Leased, Terminal, Failures, Retryable,
     LastInv, SenderInv, SendStages, Goto, Leave, Ack, Retry, store,
     consumers, ghosts
  <1>1. CASE UNCHANGED vars \/ CronSelect \/ LeaseEnds
    BY <1>1 DEF vars, CronSelect, LeaseEnds
  <1>2. ASSUME NEW e \in Enqueuers, NEW m \in Copies, Enqueue(e, m)
       PROVE  LastInv'
    BY <1>2 DEF Enqueue
  <1>3. ASSUME NEW e \in Enqueuers, EnqueueFails(e) \/ EnqueuerStops(e)
       PROVE  LastInv'
    BY <1>3 DEF EnqueueFails, EnqueuerStops
  <1>4. ASSUME NEW e \in Enqueuers, MarkQueued(e) PROVE LastInv'
    BY <1>4 DEF MarkQueued
  <1>5. ASSUME NEW e \in Enqueuers, NoteQueueSendFailure(e) PROVE LastInv'
    BY <1>5 DEF NoteQueueSendFailure, Counted
  <1>6. ASSUME NEW m \in Copies, Receive(m) PROVE LastInv'
    BY <1>6 DEF Receive
  <1>7. ASSUME NEW m \in Copies, Render(m) PROVE LastInv'
    BY <1>7 DEF Render
  <1>8. ASSUME NEW m \in Copies, Read(m) PROVE LastInv'
    BY <1>8 DEF Read
  <1>9. ASSUME NEW m \in Copies, ClaimSend(m) PROVE LastInv'
    BY <1>9 DEF ClaimSend, Claim, Counted
  <1>10. ASSUME NEW m \in Copies, ClaimAudit(m) PROVE LastInv'
    BY <1>10 DEF ClaimAudit, Claim, Counted
  <1>11. ASSUME NEW m \in Copies, GiveUp(m) PROVE LastInv'
    BY <1>11 DEF GiveUp, RecordFailure, Outcome
  <1>12. ASSUME NEW m \in Copies, CallProvider(m) PROVE LastInv'
    BY <1>12 DEF CallProvider
  <1>13. ASSUME NEW m \in Copies, ProviderAccepts(m) PROVE LastInv'
    BY <1>13 DEF ProviderAccepts
  <1>14. ASSUME NEW m \in Copies, ProviderFails(m) PROVE LastInv'
    BY <1>14 DEF ProviderFails
  <1>15. ASSUME NEW m \in Copies, MarkProviderAccepted(m) PROVE LastInv'
    BY <1>15 DEF MarkProviderAccepted, Move
  <1>16. ASSUME NEW m \in Copies, Settle(m) PROVE LastInv'
    BY <1>16 DEF Settle, Move, RecordFailure, Outcome
  <1>17. ASSUME NEW m \in Copies, RecordAudit(m) PROVE LastInv'
    BY <1>17 DEF RecordAudit
  <1>18. ASSUME NEW m \in Copies, MarkAuditQueued(m) PROVE LastInv'
    BY <1>18 DEF MarkAuditQueued, Move
  <1>19. ASSUME NEW m \in Copies, ReleaseAudit(m) PROVE LastInv'
    BY <1>19 DEF ReleaseAudit, Move
  <1>20. ASSUME NEW m \in Copies, ConsumerStops(m) PROVE LastInv'
    BY <1>20 DEF ConsumerStops
  <1>21. ASSUME NEW m \in Copies, Replay(m) PROVE LastInv'
    BY <1>21 DEF Replay
  <1> QED BY <1>1, <1>2, <1>3, <1>4, <1>5, <1>6, <1>7, <1>8, <1>9, <1>10, <1>11,
             <1>12, <1>13, <1>14, <1>15, <1>16, <1>17, <1>18, <1>19, <1>20, <1>21
          DEF Next, Outbox, Handle

\* The calls: a claim counts before its call is made
LEMMA CountStep ==
  ASSUME IInv, [Next]_vars
  PROVE  CountInv'
  <1> USE ConstantsOK DEF IInv, TypeOK, Statuses, Leased, Terminal, Failures,
     Retryable, CountInv, SenderInv, SendStages, Goto, Leave, Ack, Retry,
     store, consumers, ghosts
  <1>1. CASE UNCHANGED vars \/ CronSelect \/ LeaseEnds
    BY <1>1 DEF vars, CronSelect, LeaseEnds
  <1>2. ASSUME NEW e \in Enqueuers, NEW m \in Copies, Enqueue(e, m)
       PROVE  CountInv'
    BY <1>2 DEF Enqueue
  <1>3. ASSUME NEW e \in Enqueuers, EnqueueFails(e) \/ EnqueuerStops(e)
       PROVE  CountInv'
    BY <1>3 DEF EnqueueFails, EnqueuerStops
  <1>4. ASSUME NEW e \in Enqueuers, MarkQueued(e) PROVE CountInv'
    BY <1>4 DEF MarkQueued
  <1>5. ASSUME NEW e \in Enqueuers, NoteQueueSendFailure(e) PROVE CountInv'
    BY <1>5 DEF NoteQueueSendFailure, Counted
  <1>6. ASSUME NEW m \in Copies, Receive(m) PROVE CountInv'
    BY <1>6 DEF Receive
  <1>7. ASSUME NEW m \in Copies, Render(m) PROVE CountInv'
    BY <1>7 DEF Render
  <1>8. ASSUME NEW m \in Copies, Read(m) PROVE CountInv'
    BY <1>8 DEF Read
  <1>9. ASSUME NEW m \in Copies, ClaimSend(m) PROVE CountInv'
    BY <1>9 DEF ClaimSend, Claim, Counted
  <1>10. ASSUME NEW m \in Copies, ClaimAudit(m) PROVE CountInv'
    BY <1>10 DEF ClaimAudit, Claim, Counted
  <1>11. ASSUME NEW m \in Copies, GiveUp(m) PROVE CountInv'
    BY <1>11 DEF GiveUp, RecordFailure, Outcome
  <1>12. ASSUME NEW m \in Copies, CallProvider(m) PROVE CountInv'
    BY <1>12 DEF CallProvider
  <1>13. ASSUME NEW m \in Copies, ProviderAccepts(m) PROVE CountInv'
    BY <1>13 DEF ProviderAccepts
  <1>14. ASSUME NEW m \in Copies, ProviderFails(m) PROVE CountInv'
    BY <1>14 DEF ProviderFails
  <1>15. ASSUME NEW m \in Copies, MarkProviderAccepted(m) PROVE CountInv'
    BY <1>15 DEF MarkProviderAccepted, Move
  <1>16. ASSUME NEW m \in Copies, Settle(m) PROVE CountInv'
    BY <1>16 DEF Settle, Move, RecordFailure, Outcome
  <1>17. ASSUME NEW m \in Copies, RecordAudit(m) PROVE CountInv'
    BY <1>17 DEF RecordAudit
  <1>18. ASSUME NEW m \in Copies, MarkAuditQueued(m) PROVE CountInv'
    BY <1>18 DEF MarkAuditQueued, Move
  <1>19. ASSUME NEW m \in Copies, ReleaseAudit(m) PROVE CountInv'
    BY <1>19 DEF ReleaseAudit, Move
  <1>20. ASSUME NEW m \in Copies, ConsumerStops(m) PROVE CountInv'
    BY <1>20 DEF ConsumerStops
  <1>21. ASSUME NEW m \in Copies, Replay(m) PROVE CountInv'
    BY <1>21 DEF Replay
  <1> QED BY <1>1, <1>2, <1>3, <1>4, <1>5, <1>6, <1>7, <1>8, <1>9, <1>10, <1>11,
             <1>12, <1>13, <1>14, <1>15, <1>16, <1>17, <1>18, <1>19, <1>20, <1>21
          DEF Next, Outbox, Handle

\* The audit event, which is sent before the row is delivered
LEMMA AuditStep ==
  ASSUME IInv, [Next]_vars
  PROVE  AuditInv'
  <1> USE DEF IInv, TypeOK, Statuses, Leased, Terminal, Failures, Retryable,
     AuditInv, Goto, Leave, Ack, Retry, store, consumers, ghosts
  <1>1. CASE UNCHANGED vars \/ CronSelect \/ LeaseEnds
    BY <1>1 DEF vars, CronSelect, LeaseEnds
  <1>2. ASSUME NEW e \in Enqueuers, NEW m \in Copies, Enqueue(e, m)
       PROVE  AuditInv'
    BY <1>2 DEF Enqueue
  <1>3. ASSUME NEW e \in Enqueuers, EnqueueFails(e) \/ EnqueuerStops(e)
       PROVE  AuditInv'
    BY <1>3 DEF EnqueueFails, EnqueuerStops
  <1>4. ASSUME NEW e \in Enqueuers, MarkQueued(e) PROVE AuditInv'
    BY <1>4 DEF MarkQueued
  <1>5. ASSUME NEW e \in Enqueuers, NoteQueueSendFailure(e) PROVE AuditInv'
    BY <1>5 DEF NoteQueueSendFailure, Counted
  <1>6. ASSUME NEW m \in Copies, Receive(m) PROVE AuditInv'
    BY <1>6 DEF Receive
  <1>7. ASSUME NEW m \in Copies, Render(m) PROVE AuditInv'
    BY <1>7 DEF Render
  <1>8. ASSUME NEW m \in Copies, Read(m) PROVE AuditInv'
    BY <1>8 DEF Read
  <1>9. ASSUME NEW m \in Copies, ClaimSend(m) PROVE AuditInv'
    BY <1>9 DEF ClaimSend, Claim, Counted
  <1>10. ASSUME NEW m \in Copies, ClaimAudit(m) PROVE AuditInv'
    BY <1>10 DEF ClaimAudit, Claim, Counted
  <1>11. ASSUME NEW m \in Copies, GiveUp(m) PROVE AuditInv'
    BY <1>11 DEF GiveUp, RecordFailure, Outcome
  <1>12. ASSUME NEW m \in Copies, CallProvider(m) PROVE AuditInv'
    BY <1>12 DEF CallProvider
  <1>13. ASSUME NEW m \in Copies, ProviderAccepts(m) PROVE AuditInv'
    BY <1>13 DEF ProviderAccepts
  <1>14. ASSUME NEW m \in Copies, ProviderFails(m) PROVE AuditInv'
    BY <1>14 DEF ProviderFails
  <1>15. ASSUME NEW m \in Copies, MarkProviderAccepted(m) PROVE AuditInv'
    BY <1>15 DEF MarkProviderAccepted, Move
  <1>16. ASSUME NEW m \in Copies, Settle(m) PROVE AuditInv'
    BY <1>16 DEF Settle, Move, RecordFailure, Outcome
  <1>17. ASSUME NEW m \in Copies, RecordAudit(m) PROVE AuditInv'
    BY <1>17 DEF RecordAudit
  <1>18. ASSUME NEW m \in Copies, MarkAuditQueued(m) PROVE AuditInv'
    BY <1>18 DEF MarkAuditQueued, Move
  <1>19. ASSUME NEW m \in Copies, ReleaseAudit(m) PROVE AuditInv'
    BY <1>19 DEF ReleaseAudit, Move
  <1>20. ASSUME NEW m \in Copies, ConsumerStops(m) PROVE AuditInv'
    BY <1>20 DEF ConsumerStops
  <1>21. ASSUME NEW m \in Copies, Replay(m) PROVE AuditInv'
    BY <1>21 DEF Replay
  <1> QED BY <1>1, <1>2, <1>3, <1>4, <1>5, <1>6, <1>7, <1>8, <1>9, <1>10, <1>11,
             <1>12, <1>13, <1>14, <1>15, <1>16, <1>17, <1>18, <1>19, <1>20, <1>21
          DEF Next, Outbox, Handle

\* Who audits
LEMMA AuditorStep ==
  ASSUME IInv, [Next]_vars
  PROVE  AuditorInv'
  <1> USE DEF IInv, TypeOK, Statuses, Leased, Terminal, Failures, Retryable,
     LastInv, SenderInv, AuditorInv, SendStages, AuditStages, Goto, Leave, Ack, Retry, store,
     consumers, ghosts
  <1>1. CASE UNCHANGED vars \/ CronSelect \/ LeaseEnds
    BY <1>1 DEF vars, CronSelect, LeaseEnds
  <1>2. ASSUME NEW e \in Enqueuers, NEW m \in Copies, Enqueue(e, m)
       PROVE  AuditorInv'
    BY <1>2 DEF Enqueue
  <1>3. ASSUME NEW e \in Enqueuers, EnqueueFails(e) \/ EnqueuerStops(e)
       PROVE  AuditorInv'
    BY <1>3 DEF EnqueueFails, EnqueuerStops
  <1>4. ASSUME NEW e \in Enqueuers, MarkQueued(e) PROVE AuditorInv'
    BY <1>4 DEF MarkQueued
  <1>5. ASSUME NEW e \in Enqueuers, NoteQueueSendFailure(e) PROVE AuditorInv'
    BY <1>5 DEF NoteQueueSendFailure, Counted
  <1>6. ASSUME NEW m \in Copies, Receive(m) PROVE AuditorInv'
    BY <1>6 DEF Receive
  <1>7. ASSUME NEW m \in Copies, Render(m) PROVE AuditorInv'
    BY <1>7 DEF Render
  <1>8. ASSUME NEW m \in Copies, Read(m) PROVE AuditorInv'
    BY <1>8 DEF Read
  <1>9. ASSUME NEW m \in Copies, ClaimSend(m) PROVE AuditorInv'
    BY <1>9 DEF ClaimSend, Claim, Counted
  <1>10. ASSUME NEW m \in Copies, ClaimAudit(m) PROVE AuditorInv'
    BY <1>10 DEF ClaimAudit, Claim, Counted
  <1>11. ASSUME NEW m \in Copies, GiveUp(m) PROVE AuditorInv'
    BY <1>11 DEF GiveUp, RecordFailure, Outcome
  <1>12. ASSUME NEW m \in Copies, CallProvider(m) PROVE AuditorInv'
    BY <1>12 DEF CallProvider
  <1>13. ASSUME NEW m \in Copies, ProviderAccepts(m) PROVE AuditorInv'
    BY <1>13 DEF ProviderAccepts
  <1>14. ASSUME NEW m \in Copies, ProviderFails(m) PROVE AuditorInv'
    BY <1>14 DEF ProviderFails
  <1>15. ASSUME NEW m \in Copies, MarkProviderAccepted(m) PROVE AuditorInv'
    BY <1>15 DEF MarkProviderAccepted, Move
  <1>16. ASSUME NEW m \in Copies, Settle(m) PROVE AuditorInv'
    BY <1>16 DEF Settle, Move, RecordFailure, Outcome
  <1>17. ASSUME NEW m \in Copies, RecordAudit(m) PROVE AuditorInv'
    BY <1>17 DEF RecordAudit
  <1>18. ASSUME NEW m \in Copies, MarkAuditQueued(m) PROVE AuditorInv'
    BY <1>18 DEF MarkAuditQueued, Move
  <1>19. ASSUME NEW m \in Copies, ReleaseAudit(m) PROVE AuditorInv'
    BY <1>19 DEF ReleaseAudit, Move
  <1>20. ASSUME NEW m \in Copies, ConsumerStops(m) PROVE AuditorInv'
    BY <1>20 DEF ConsumerStops
  <1>21. ASSUME NEW m \in Copies, Replay(m) PROVE AuditorInv'
    BY <1>21 DEF Replay
  <1> QED BY <1>1, <1>2, <1>3, <1>4, <1>5, <1>6, <1>7, <1>8, <1>9, <1>10, <1>11,
             <1>12, <1>13, <1>14, <1>15, <1>16, <1>17, <1>18, <1>19, <1>20, <1>21
          DEF Next, Outbox, Handle

\* The failures table and the row change together
LEMMA FailureStep ==
  ASSUME IInv, [Next]_vars
  PROVE  FailureMatchesRow'
  <1> USE DEF IInv, TypeOK, Statuses, Leased, Terminal, Failures, Retryable,
     FailureMatchesRow, LastInv, Goto, Leave, Ack, Retry, store, consumers,
     ghosts
  <1>1. CASE UNCHANGED vars \/ CronSelect \/ LeaseEnds
    BY <1>1 DEF vars, CronSelect, LeaseEnds
  <1>2. ASSUME NEW e \in Enqueuers, NEW m \in Copies, Enqueue(e, m)
       PROVE  FailureMatchesRow'
    BY <1>2 DEF Enqueue
  <1>3. ASSUME NEW e \in Enqueuers, EnqueueFails(e) \/ EnqueuerStops(e)
       PROVE  FailureMatchesRow'
    BY <1>3 DEF EnqueueFails, EnqueuerStops
  <1>4. ASSUME NEW e \in Enqueuers, MarkQueued(e) PROVE FailureMatchesRow'
    BY <1>4 DEF MarkQueued
  <1>5. ASSUME NEW e \in Enqueuers, NoteQueueSendFailure(e) PROVE FailureMatchesRow'
    BY <1>5 DEF NoteQueueSendFailure, Counted
  <1>6. ASSUME NEW m \in Copies, Receive(m) PROVE FailureMatchesRow'
    BY <1>6 DEF Receive
  <1>7. ASSUME NEW m \in Copies, Render(m) PROVE FailureMatchesRow'
    BY <1>7 DEF Render
  <1>8. ASSUME NEW m \in Copies, Read(m) PROVE FailureMatchesRow'
    BY <1>8 DEF Read
  <1>9. ASSUME NEW m \in Copies, ClaimSend(m) PROVE FailureMatchesRow'
    BY <1>9 DEF ClaimSend, Claim, Counted
  <1>10. ASSUME NEW m \in Copies, ClaimAudit(m) PROVE FailureMatchesRow'
    BY <1>10 DEF ClaimAudit, Claim, Counted
  <1>11. ASSUME NEW m \in Copies, GiveUp(m) PROVE FailureMatchesRow'
    BY <1>11 DEF GiveUp, RecordFailure, Outcome
  <1>12. ASSUME NEW m \in Copies, CallProvider(m) PROVE FailureMatchesRow'
    BY <1>12 DEF CallProvider
  <1>13. ASSUME NEW m \in Copies, ProviderAccepts(m) PROVE FailureMatchesRow'
    BY <1>13 DEF ProviderAccepts
  <1>14. ASSUME NEW m \in Copies, ProviderFails(m) PROVE FailureMatchesRow'
    BY <1>14 DEF ProviderFails
  <1>15. ASSUME NEW m \in Copies, MarkProviderAccepted(m) PROVE FailureMatchesRow'
    BY <1>15 DEF MarkProviderAccepted, Move
  <1>16. ASSUME NEW m \in Copies, Settle(m) PROVE FailureMatchesRow'
    BY <1>16 DEF Settle, Move, RecordFailure, Outcome
  <1>17. ASSUME NEW m \in Copies, RecordAudit(m) PROVE FailureMatchesRow'
    BY <1>17 DEF RecordAudit
  <1>18. ASSUME NEW m \in Copies, MarkAuditQueued(m) PROVE FailureMatchesRow'
    BY <1>18 DEF MarkAuditQueued, Move
  <1>19. ASSUME NEW m \in Copies, ReleaseAudit(m) PROVE FailureMatchesRow'
    BY <1>19 DEF ReleaseAudit, Move
  <1>20. ASSUME NEW m \in Copies, ConsumerStops(m) PROVE FailureMatchesRow'
    BY <1>20 DEF ConsumerStops
  <1>21. ASSUME NEW m \in Copies, Replay(m) PROVE FailureMatchesRow'
    BY <1>21 DEF Replay
  <1> QED BY <1>1, <1>2, <1>3, <1>4, <1>5, <1>6, <1>7, <1>8, <1>9, <1>10, <1>11,
             <1>12, <1>13, <1>14, <1>15, <1>16, <1>17, <1>18, <1>19, <1>20, <1>21
          DEF Next, Outbox, Handle

\* A message is given back, or its row has ended
LEMMA HeldStep ==
  ASSUME IInv, [Next]_vars
  PROVE  HeldInv'
  <1> USE DEF IInv, TypeOK, Statuses, Leased, Terminal, Failures, Retryable,
     HeldInv, Held, InHand, QueueInv, Goto, Leave, Ack, Retry, store,
     consumers, ghosts
  <1>1. CASE UNCHANGED vars \/ CronSelect \/ LeaseEnds
    BY <1>1 DEF vars, CronSelect, LeaseEnds
  <1>2. ASSUME NEW e \in Enqueuers, NEW m \in Copies, Enqueue(e, m)
       PROVE  HeldInv'
    BY <1>2 DEF Enqueue
  <1>3. ASSUME NEW e \in Enqueuers, EnqueueFails(e) \/ EnqueuerStops(e)
       PROVE  HeldInv'
    BY <1>3 DEF EnqueueFails, EnqueuerStops
  <1>4. ASSUME NEW e \in Enqueuers, MarkQueued(e) PROVE HeldInv'
    BY <1>4 DEF MarkQueued
  <1>5. ASSUME NEW e \in Enqueuers, NoteQueueSendFailure(e) PROVE HeldInv'
    BY <1>5 DEF NoteQueueSendFailure, Counted
  <1>6. ASSUME NEW m \in Copies, Receive(m) PROVE HeldInv'
    BY <1>6 DEF Receive
  <1>7. ASSUME NEW m \in Copies, Render(m) PROVE HeldInv'
    BY <1>7 DEF Render
  <1>8. ASSUME NEW m \in Copies, Read(m) PROVE HeldInv'
    BY <1>8 DEF Read
  <1>9. ASSUME NEW m \in Copies, ClaimSend(m) PROVE HeldInv'
    BY <1>9 DEF ClaimSend, Claim, Counted
  <1>10. ASSUME NEW m \in Copies, ClaimAudit(m) PROVE HeldInv'
    BY <1>10 DEF ClaimAudit, Claim, Counted
  <1>11. ASSUME NEW m \in Copies, GiveUp(m) PROVE HeldInv'
    BY <1>11 DEF GiveUp, RecordFailure, Outcome
  <1>12. ASSUME NEW m \in Copies, CallProvider(m) PROVE HeldInv'
    BY <1>12 DEF CallProvider
  <1>13. ASSUME NEW m \in Copies, ProviderAccepts(m) PROVE HeldInv'
    BY <1>13 DEF ProviderAccepts
  <1>14. ASSUME NEW m \in Copies, ProviderFails(m) PROVE HeldInv'
    BY <1>14 DEF ProviderFails
  <1>15. ASSUME NEW m \in Copies, MarkProviderAccepted(m) PROVE HeldInv'
    BY <1>15 DEF MarkProviderAccepted, Move
  <1>16. ASSUME NEW m \in Copies, Settle(m) PROVE HeldInv'
    BY <1>16 DEF Settle, Move, RecordFailure, Outcome
  <1>17. ASSUME NEW m \in Copies, RecordAudit(m) PROVE HeldInv'
    BY <1>17 DEF RecordAudit
  <1>18. ASSUME NEW m \in Copies, MarkAuditQueued(m) PROVE HeldInv'
    BY <1>18 DEF MarkAuditQueued, Move
  <1>19. ASSUME NEW m \in Copies, ReleaseAudit(m) PROVE HeldInv'
    BY <1>19 DEF ReleaseAudit, Move
  <1>20. ASSUME NEW m \in Copies, ConsumerStops(m) PROVE HeldInv'
    BY <1>20 DEF ConsumerStops
  <1>21. ASSUME NEW m \in Copies, Replay(m) PROVE HeldInv'
    BY <1>21 DEF Replay
  <1> QED BY <1>1, <1>2, <1>3, <1>4, <1>5, <1>6, <1>7, <1>8, <1>9, <1>10, <1>11,
             <1>12, <1>13, <1>14, <1>15, <1>16, <1>17, <1>18, <1>19, <1>20, <1>21
          DEF Next, Outbox, Handle

-----------------------------------------------------------------------------
\* Every part of the invariant holds in every state
THEOREM Safety == Spec => []IInv
  <1>1. Init => IInv
    <2> SUFFICES ASSUME Init PROVE IInv
      OBVIOUS
    <2>0. {queued, noted, audited} \subseteq BOOLEAN
      BY Zenon DEF Init
    <2>1. TypeOK
      BY <2>0, ConstantsOK DEF Init, TypeOK, Statuses, Leased, Terminal,
         Enqueuers, Failures, Waits, MaxDeliveries
    <2>2. QueueInv /\ SenderInv /\ LastInv /\ CountInv /\ AuditInv
           /\ AuditorInv
      BY ConstantsOK DEF Init, QueueInv, SenderInv, SendStages, LastInv, CountInv,
         AuditInv, AuditorInv, AuditStages, MaxDeliveries, Retryable
    <2>3. FailureMatchesRow
      BY DEF Init, FailureMatchesRow
    <2>4. ~email => InHand
      BY DEF Init, InHand
    <2>5. HeldInv
      BY <2>4 DEF Init, HeldInv, Held, Enqueuers
    <2> QED BY <2>1, <2>2, <2>3, <2>5 DEF IInv
  <1>2. IInv /\ [Next]_vars => IInv'
    BY TypeStep, QueueStep, SenderStep, LastStep, CountStep, AuditStep,
       AuditorStep, FailureStep, HeldStep DEF IInv
  <1> QED BY <1>1, <1>2, PTL DEF Spec

\* The types, for every set of messages and all limits
THEOREM TypeCorrect == Spec => []TypeOK
  BY Safety, PTL DEF IInv

\* Two consumers never call the provider at once, even when a call outlives
\* its lease: the other one ends the delivery instead of claiming it.
THEOREM OneCallerHolds == Spec => []OneCaller
  <1>1. IInv => OneCaller
    BY DEF IInv, SenderInv, SendStages, OneCaller
  <1> QED BY <1>1, Safety, PTL

\* A call is repeated only after an answer that allows it
THEOREM ResendOnlyWhenToldHolds == Spec => []ResendOnlyWhenTold
  <1>1. IInv => ResendOnlyWhenTold
    BY DEF IInv, LastInv, ResendOnlyWhenTold
  <1> QED BY <1>1, Safety, PTL

\* At most SendLimit calls are made, whatever its value
THEOREM CallsBoundedHolds == Spec => []CallsBounded
  <1>1. IInv => CallsBounded
    BY ConstantsOK DEF IInv, TypeOK, CountInv, CallsBounded
  <1> QED BY <1>1, Safety, PTL

\* A row that has ended tells the truth about the provider, the audit event and
\* the failures table
THEOREM RowIsTrueHolds == Spec => []RowIsTrue
  <1>1. IInv => RowIsTrue
    BY DEF IInv, LastInv, AuditInv, RowIsTrue
  <1> QED BY <1>1, Safety, PTL

\* No notification is lost between the outbox, the queue and its consumers
THEOREM CarriedHolds == Spec => []Carried
  <1>1. IInv => Carried
    BY DEF IInv, HeldInv, Held, Carried
  <1> QED BY <1>1, Safety, PTL

-----------------------------------------------------------------------------
\* The conversation with the provider.  Every step is a step of ProviderCalls
\* or none that it can see.

Conversation == <<Turn, calls, last, audited, Fate>>

LEMMA ConversationStays ==
  ASSUME UNCHANGED <<row, calls, last, audited>>,
         \A m \in Copies : pc'[m] = "send" <=> pc[m] = "send"
  PROVE  UNCHANGED Conversation
  BY DEF Conversation, Turn, Fate

\* Of the consumers only the one that was between its claim and its call
\* changes the turn while the row stays
LEMMA TurnKept ==
  ASSUME UNCHANGED row, \A m \in Copies : pc'[m] = "send" <=> pc[m] = "send"
  PROVE  Turn' = Turn /\ Fate' = Fate
  BY DEF Turn, Fate

\* Claiming the row for a send takes the turn, even when the answer is lost
LEMMA ClaimTakes ==
  ASSUME IInv, NEW m \in Copies, ClaimSend(m)
  PROVE  [ProviderSide!Next]_Conversation
  <1> USE DEF IInv, TypeOK, Statuses, Leased, Terminal, Waits, SenderInv,
     SendStages, store, ghosts, Goto, Leave, Retry
  <1>1. UNCHANGED <<calls, last, audited>> /\ pc[m] = "act"
    BY DEF ClaimSend
  <1>2. CASE UNCHANGED store
    <2>1. \A n \in Copies : pc'[n] = "send" <=> pc[n] = "send"
      BY <1>1, <1>2 DEF ClaimSend, Claim
    <2> QED BY <1>1, <1>2, <2>1, ConversationStays
  <1>3. CASE Claim("pending", "sending")
    <2>1. row = "pending" /\ row' = "sending"
      BY <1>3 DEF Claim
    <2>2. Turn = "free" /\ Fate = "open" /\ Fate' = "open"
      BY <2>1 DEF Turn, Fate
    <2>3. Turn' \in {"taken", "spent"}
      BY <2>1 DEF Turn
    <2> QED BY <1>1, <2>2, <2>3
            DEF Conversation, ProviderSide!Next, ProviderSide!Take
  <1> QED BY <1>2, <1>3 DEF ClaimSend

\* The call itself: nobody else holds a turn, and the row may have been ended
LEMMA CallTakesTurn ==
  ASSUME IInv, NEW m \in Copies, CallProvider(m)
  PROVE  ProviderSide!Call
  <1>1. /\ pc[m] = "send" /\ pc' = [pc EXCEPT ![m] = "calling"]
        /\ calls' = calls + 1 /\ last' = "open"
        /\ UNCHANGED <<row, audited>>
    BY DEF CallProvider, Goto, store
  <1>2. /\ row \in {"sending", "unknown_delivery"}
        /\ \A n \in Copies : pc[n] = "send" => n = m
        /\ last \in {"none", "retryable"} /\ calls < attempts
        /\ attempts \in 0..SendLimit /\ calls \in Nat
        /\ pc \in [Copies -> Waits]
    BY <1>1 DEF IInv, TypeOK, SenderInv, SendStages, LastInv, CountInv
  <1>3. calls < SendLimit
    BY <1>2, ConstantsOK
  <1>4. Turn = "taken" /\ Turn' = "spent"
    BY <1>1, <1>2 DEF Turn
  <1>5. Fate \in {"open", "unknown"} /\ Fate' = Fate
    BY <1>1, <1>2 DEF Fate
  <1> QED BY <1>1, <1>2, <1>3, <1>4, <1>5 DEF ProviderSide!Call

\* A failed call: its turn comes back, or the row ends
LEMMA SettleFinishes ==
  ASSUME IInv, NEW m \in Copies, Settle(m)
  PROVE  [ProviderSide!Next]_Conversation
  <1>1. /\ pc[m] = "settle" /\ UNCHANGED <<calls, last, audited>>
        /\ \A n \in Copies : pc'[n] = "send" <=> pc[n] = "send"
    BY DEF Settle, Ack, Retry, Leave, ghosts, IInv, TypeOK
  <1>2. /\ row \in {"sending", "unknown_delivery"}
        /\ \A n \in Copies : pc[n] # "send"
        /\ seen[m] \in Failures
        /\ seen[m] \in Retryable => last = "retryable"
    BY <1>1 DEF IInv, SenderInv, SendStages, LastInv
  <1>3. CASE UNCHANGED store
    BY <1>1, <1>3, ConversationStays DEF store
  <1>4. ASSUME seen[m] \in Retryable, attempts < SendLimit,
               Move("sending", "pending", "none")
        PROVE  ProviderSide!GiveBack
    <2>1. row = "sending" /\ row' = "pending"
      BY <1>4 DEF Move
    <2>2. calls < SendLimit
      BY <1>4, ConstantsOK DEF IInv, TypeOK, CountInv
    <2>3. Turn = "spent" /\ Turn' = "free" /\ Fate = "open" /\ Fate' = "open"
      BY <1>2, <2>1 DEF Turn, Fate
    <2> QED BY <1>1, <1>2, <1>4, <2>2, <2>3 DEF ProviderSide!GiveBack
  <1>5. ASSUME RecordFailure("sending", seen[m])
        PROVE  ProviderSide!Finish
    <2>1. /\ row = "sending"
          /\ row' \in {"provider_rejected", "unknown_delivery"}
      BY <1>5 DEF RecordFailure
    <2>2. Turn = "spent" /\ Turn' = "spent" /\ Fate = "open"
      BY <1>1, <1>2, <2>1 DEF Turn, Fate
    <2>3. CASE row' = "unknown_delivery"
      <3>1. Fate' = "unknown"
        BY <2>3 DEF Fate
      <3> QED BY <1>1, <2>2, <3>1 DEF ProviderSide!Finish
    <2>4. CASE row' = "provider_rejected"
      <3>1. Fate' = "rejected"
        BY <2>4 DEF Fate
      <3>2. last \in {"failed", "retryable"}
        BY <1>1, <1>2 DEF IInv, LastInv
      <3> QED BY <1>1, <2>2, <3>1, <3>2 DEF ProviderSide!Finish
    <2> QED BY <2>1, <2>3, <2>4
  <1> QED BY <1>3, <1>4, <1>5 DEF Settle, ProviderSide!Next

\* A lease that was over when it was read: the notification is given up
LEMMA GiveUpFinishes ==
  ASSUME IInv, NEW m \in Copies, GiveUp(m)
  PROVE  [ProviderSide!Next]_Conversation
  <1>1. /\ UNCHANGED <<calls, last, audited>>
        /\ \A n \in Copies : pc'[n] = "send" <=> pc[n] = "send"
    BY DEF GiveUp, Ack, Retry, Leave, ghosts, IInv, TypeOK
  <1>2. CASE UNCHANGED store
    BY <1>1, <1>2, ConversationStays DEF store
  <1>3. CASE RecordFailure(seen[m], "unknown")
    <2>1. row \in {"sending", "auditing"} /\ row' = "unknown_delivery"
      BY <1>3 DEF GiveUp, RecordFailure, Outcome, Leased
    <2>2. /\ Turn # "free" /\ Turn' = Turn
          /\ Fate \in {"open", "accepted"} /\ Fate' = "unknown"
      BY <1>1, <2>1 DEF Turn, Fate
    <2> QED BY <1>1, <2>2 DEF ProviderSide!Next, ProviderSide!Finish
  <1> QED BY <1>2, <1>3 DEF GiveUp

\* The acceptance and the announcement, each once the provider has accepted
LEMMA AcceptanceSteps ==
  ASSUME IInv, NEW m \in Copies,
         MarkProviderAccepted(m) \/ MarkAuditQueued(m) \/ ReleaseAudit(m)
           \/ ClaimAudit(m) \/ RecordAudit(m)
  PROVE  [ProviderSide!Next]_Conversation
  <1>1. /\ UNCHANGED <<calls, last>>
        /\ \A n \in Copies : pc'[n] = "send" <=> pc[n] = "send"
    BY DEF MarkProviderAccepted, MarkAuditQueued, ReleaseAudit, ClaimAudit,
           RecordAudit, Goto, Ack, Retry, Leave, ghosts, IInv, TypeOK
  <1>2. CASE MarkProviderAccepted(m)
    <2>1. pc[m] = "accept" /\ UNCHANGED audited
      BY <1>2 DEF MarkProviderAccepted, ghosts
    <2>2. /\ last = "accepted" /\ \A n \in Copies : pc[n] # "send"
      BY <2>1 DEF IInv, LastInv, SenderInv, SendStages
    <2>3. CASE UNCHANGED store
      BY <1>1, <2>1, <2>3, ConversationStays DEF store
    <2>4. CASE Move("sending", "provider_accepted", "none")
      <3>1. row = "sending" /\ row' = "provider_accepted"
        BY <2>4 DEF Move
      <3>2. Turn' = Turn /\ Fate = "open" /\ Fate' = "accepted"
        BY <1>1, <3>1 DEF Turn, Fate
      <3> QED BY <1>1, <2>1, <2>2, <3>2 DEF ProviderSide!Next, ProviderSide!Accept
    <2> QED BY <1>2, <2>3, <2>4 DEF MarkProviderAccepted
  <1>3. CASE MarkAuditQueued(m)
    <2>1. audited /\ UNCHANGED audited
      BY <1>3 DEF MarkAuditQueued, ghosts, IInv, AuditInv
    <2>2. CASE UNCHANGED store
      BY <1>1, <2>1, <2>2, ConversationStays DEF store
    <2>3. CASE Move("auditing", "delivered", "none")
      <3>1. row = "auditing" /\ row' = "delivered"
        BY <2>3 DEF Move
      <3>2. Turn' = Turn /\ Fate = "accepted" /\ Fate' = "delivered"
        BY <1>1, <3>1 DEF Turn, Fate
      <3> QED BY <1>1, <2>1, <3>2 DEF ProviderSide!Next, ProviderSide!Finish
    <2> QED BY <1>3, <2>2, <2>3 DEF MarkAuditQueued
  <1>4. CASE ReleaseAudit(m) \/ ClaimAudit(m)
    <2>1. /\ UNCHANGED audited
          /\ \/ UNCHANGED row
             \/ /\ row \in {"provider_accepted", "auditing"}
                /\ row' \in {"provider_accepted", "auditing"}
      BY <1>4 DEF ReleaseAudit, ClaimAudit, Claim, Move, store, ghosts
    <2>2. Turn' = Turn /\ Fate' = Fate
      BY <1>1, <2>1 DEF Turn, Fate
    <2> QED BY <1>1, <2>1, <2>2 DEF Conversation
  <1>5. CASE RecordAudit(m)
    <2>1. /\ pc[m] = "audit" /\ UNCHANGED row
          /\ audited' = TRUE \/ UNCHANGED audited
      BY <1>5 DEF RecordAudit, store
    <2>2. last = "accepted"
      BY <2>1 DEF IInv, AuditorInv, AuditStages
    <2>3. Turn' = Turn /\ Fate' = Fate
      BY <1>1, <2>1, TurnKept
    <2>4. CASE audited' = TRUE
      BY <1>1, <2>2, <2>3, <2>4 DEF ProviderSide!Next, ProviderSide!Announce
    <2>5. CASE UNCHANGED audited
      BY <1>1, <2>3, <2>5 DEF Conversation
    <2> QED BY <2>1, <2>4, <2>5
  <1> QED BY <1>2, <1>3, <1>4, <1>5

\* A consumer that stops before its call loses its turn
LEMMA StopLoses ==
  ASSUME IInv, NEW m \in Copies, ConsumerStops(m)
  PROVE  [ProviderSide!Next]_Conversation
  <1>1. /\ UNCHANGED <<row, calls, last, audited>>
        /\ pc' = [pc EXCEPT ![m] = "idle"] /\ pc \in [Copies -> Waits]
    BY DEF ConsumerStops, Retry, Leave, store, ghosts, IInv, TypeOK
  <1>2. CASE pc[m] = "send"
    <2>1. /\ row \in {"sending", "unknown_delivery"}
          /\ \A n \in Copies : pc[n] = "send" => n = m
      BY <1>2 DEF IInv, SenderInv, SendStages
    <2>2. Turn = "taken" /\ Turn' = "spent" /\ Fate' = Fate
      BY <1>1, <1>2, <2>1 DEF Turn, Fate
    <2> QED BY <1>1, <2>2 DEF ProviderSide!Next, ProviderSide!Lose
  <1>3. CASE pc[m] # "send"
    BY <1>1, <1>3, ConversationStays
  <1> QED BY <1>2, <1>3

LEMMA ConversationStep ==
  IInv /\ [Next]_vars => [ProviderSide!Next]_Conversation
  <1> SUFFICES ASSUME IInv, [Next]_vars
               PROVE  [ProviderSide!Next]_Conversation
    OBVIOUS
  <1>1. ASSUME UNCHANGED <<store, pc, ghosts>> PROVE UNCHANGED Conversation
    BY <1>1, ConversationStays DEF store, ghosts
  <1>2. CASE UNCHANGED vars \/ CronSelect
    BY <1>1, <1>2 DEF vars, CronSelect, consumers
  <1>3. CASE LeaseEnds
    BY <1>3, ConversationStays DEF LeaseEnds, consumers, ghosts
  <1>4. ASSUME NEW e \in Enqueuers, Outbox(e)
        PROVE  UNCHANGED Conversation
    <2>1. UNCHANGED <<row, pc, ghosts>>
      BY <1>4 DEF Outbox, Enqueue, EnqueueFails, MarkQueued,
         NoteQueueSendFailure, EnqueuerStops, store, consumers
    <2> QED BY <2>1, ConversationStays DEF ghosts
  <1>5. ASSUME NEW m \in Copies, Receive(m) \/ Render(m) \/ Replay(m)
        PROVE  UNCHANGED Conversation
    <2>1. /\ UNCHANGED <<row, calls, last, audited>>
          /\ \A n \in Copies : pc'[n] = "send" <=> pc[n] = "send"
      BY <1>5 DEF Receive, Render, Replay, Goto, Ack, Retry, Leave, store,
         ghosts, IInv, TypeOK, QueueInv
    <2> QED BY <2>1, ConversationStays
  <1>6. ASSUME NEW m \in Copies, Read(m)
        PROVE  UNCHANGED Conversation
    <2>1. /\ UNCHANGED <<calls, last, audited>>
          /\ \A n \in Copies : pc'[n] = "send" <=> pc[n] = "send"
          /\ row' = row \/ (row = "absent" /\ row' = "pending")
      BY <1>6 DEF Read, Goto, Ack, Retry, Leave, ghosts, IInv, TypeOK
    <2>2. Turn' = Turn /\ Fate' = Fate
      BY <2>1 DEF Turn, Fate
    <2> QED BY <2>1, <2>2 DEF Conversation
  <1>7. ASSUME NEW m \in Copies, ProviderAccepts(m) \/ ProviderFails(m)
        PROVE  ProviderSide!Answer
    <2>1. /\ pc[m] = "calling" /\ UNCHANGED <<row, calls, audited>>
          /\ last' \in {"accepted", "retryable", "failed"}
          /\ \A n \in Copies : pc'[n] = "send" <=> pc[n] = "send"
      BY <1>7 DEF ProviderAccepts, ProviderFails, Goto, store, IInv, TypeOK
    <2>2. last = "open"
      BY <2>1 DEF IInv, LastInv
    <2> QED BY <2>1, <2>2, TurnKept DEF ProviderSide!Answer
  <1> QED BY <1>2, <1>3, <1>4, <1>5, <1>6, <1>7, ClaimTakes, CallTakesTurn,
             SettleFinishes, GiveUpFinishes, AcceptanceSteps, StopLoses
          DEF Next, Handle, ProviderSide!Next

\* For every set of messages and all limits: whatever the queue, the leases and
\* the hourly job do, the provider sees one conversation (ProviderCalls).
THEOREM ImplementsProviderCallsHolds == Spec => ImplementsProviderCalls
  <1>1. Init => ProviderSide!Init
    BY DEF Init, ProviderSide!Init, Turn, Fate
  <1> QED BY <1>1, Safety, ConversationStep, PTL
          DEF Spec, ImplementsProviderCalls, ProviderSide!Spec, Conversation

\* What the row has ended in, it stays in
EndStays == Fate \in {"delivered", "rejected", "unknown"} => Fate' = Fate

\* No call once the provider has accepted, or the notification was rejected;
\* when it was given up with no consumer about to call, none either
CallsOver ==
    /\ \/ last = "accepted"
       \/ Fate \in {"accepted", "delivered", "rejected"}
       \/ Fate = "unknown" /\ Turn = "spent"
           => calls' = calls
    /\ Fate = "unknown" /\ Turn = "spent" => Turn' = "spent"

EndsForGood == [][EndStays /\ CallsOver]_vars

LEMMA ConversationNotUndone ==
  ASSUME [ProviderSide!Next]_Conversation
  PROVE  EndStays /\ CallsOver
  <1>1. CASE UNCHANGED Conversation
    BY <1>1 DEF Conversation, EndStays, CallsOver
  <1>2. CASE ProviderSide!Take \/ ProviderSide!Lose \/ ProviderSide!GiveBack
    BY <1>2 DEF ProviderSide!Take, ProviderSide!Lose, ProviderSide!GiveBack,
       EndStays, CallsOver
  <1>3. CASE ProviderSide!Call
    BY <1>3 DEF ProviderSide!Call, EndStays, CallsOver
  <1>4. CASE ProviderSide!Answer \/ ProviderSide!Accept \/ ProviderSide!Announce
    BY <1>4 DEF ProviderSide!Answer, ProviderSide!Accept, ProviderSide!Announce,
       EndStays, CallsOver
  <1>5. CASE ProviderSide!Finish
    BY <1>5 DEF ProviderSide!Finish, EndStays, CallsOver
  <1> QED BY <1>1, <1>2, <1>3, <1>4, <1>5 DEF ProviderSide!Next

\* Redelivered messages, late consumers and the hourly job never reopen what
\* has ended, and never call the provider for it again.
THEOREM EndsForGoodHolds == Spec => EndsForGood
  <1>1. IInv /\ [Next]_vars => [EndStays /\ CallsOver]_vars
    BY ConversationStep, ConversationNotUndone
  <1> QED BY <1>1, Safety, PTL DEF Spec, EndsForGood
=============================================================================
