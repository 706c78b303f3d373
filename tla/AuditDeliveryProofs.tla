------------------------- MODULE AuditDeliveryProofs -------------------------
(***************************************************************************)
(* What TLAPS proves of AuditDelivery, for any sets of audits, events and  *)
(* workers and any bound on the messages.                                  *)
(*                                                                         *)
(* The argument for NothingLost: a message stops being held in two ways.   *)
(* The consumer acknowledges it, after the chain settled its source and    *)
(* the outbox knows (Consumed); or a replay completes, after a later       *)
(* message with the same body was sent.  Messages are numbered as they are *)
(* sent, so the latest kept message of an event (Carried) cannot be        *)
(* replaced by itself or by an earlier one.                                *)
(***************************************************************************)
EXTENDS AuditDelivery, TLAPS

(* The messages that will come back, or need not *)
kept ==
    {m \in Messages : \/ Held(m)
                      \/ body[m] \in Audits /\ outbox[body[m]] = "delivered"
                      \/ body[m] \in Plain /\ m \in settled}

(* Messages are sent in their order, and rows stand for messages sent *)
Sent ==
    /\ \A k, m \in Messages :
          k < m /\ place[k] = "unsent" => place[m] = "unsent"
    /\ \A m \in Messages : quarantine[m] # "none" => place[m] # "unsent"
    /\ \A a \in Audits :
          /\ outbox[a] = "none" => replayOf[a] = None
          /\ outbox[a] = "queued" => \E m \in Messages : body[m] = a
          /\ outbox[a] = "delivered" => a \in settled
    /\ \A m \in Messages : body[m] \in Audits => outbox[body[m]] # "none"

(* Where a worker stands tells what it carries *)
Placed ==
    \A w \in Workers :
        /\ pc[w] \in {"send", "mark", "note"}
              => audit[w] \in Audits /\ outbox[audit[w]] # "none"
        /\ pc[w] = "mark" => \E m \in Messages : body[m] = audit[w]
        /\ pc[w] \in {"resend", "release", "complete"}
              => msg[w] \in Messages /\ quarantine[msg[w]] # "none"

(* How far the consumer has come is visible in the chain and the outbox *)
Consumed ==
    /\ stage = "none" <=> consuming = None
    /\ consuming \in Messages =>
          /\ place[consuming] = "queue"
          /\ stage \in {"complete", "ack"} => Source(consuming) \in settled
          /\ stage = "ack" /\ body[consuming] \in Audits
                => outbox[body[consuming]] = "delivered"

(* An event that was sent has a kept message, and a later one after a replay *)
Carried ==
    /\ \A m \in Messages :
          body[m] # None =>
              \E k \in Messages : m <= k /\ body[k] = body[m] /\ k \in kept
    /\ \A m \in Messages :
          \/ quarantine[m] = "replayed"
          \/ \E w \in Workers : pc[w] = "complete" /\ msg[w] = m
          => \E k \in Messages : m < k /\ body[k] = body[m] /\ k \in kept

IInv == TypeOK /\ Sent /\ Placed /\ Consumed /\ Carried
            /\ LeaseHeld /\ ReplayAudited

-----------------------------------------------------------------------------

USE ConstantsOK DEF Messages, Events, OutboxStates, Places, Stages, RowStates,
                    Waits

(* Recording or giving up a source settles that one *)
LEMMA Settles ==
    ASSUME TypeOK, NEW s \in Audits \cup Messages
    PROVE  /\ Log!Record(s) => /\ settled' = settled \cup {s}
                               /\ log' \in Seq(Audits \cup Messages)
                               /\ dead' \subseteq Audits \cup Messages
           /\ Log!GiveUp(s) => /\ settled' = settled \cup {s}
                               /\ log' \in Seq(Audits \cup Messages)
                               /\ dead' \subseteq Audits \cup Messages
<1>1. log \in Seq(Audits \cup Messages) /\ dead \subseteq Audits \cup Messages
  BY DEF TypeOK
<1>2. ASSUME Log!Record(s)
      PROVE  /\ settled' = settled \cup {s}
             /\ log' \in Seq(Audits \cup Messages)
             /\ dead' \subseteq Audits \cup Messages
  <2>1. log' = Append(log, s) /\ dead' = dead
    BY <1>2 DEF Log!Record
  <2>2. /\ log' \in Seq(Audits \cup Messages)
        /\ DOMAIN log' = DOMAIN log \cup {Len(log) + 1}
        /\ \A i \in DOMAIN log : log'[i] = log[i]
        /\ log'[Len(log) + 1] = s
    BY <1>1, <2>1
  <2> QED  BY <1>1, <2>1, <2>2 DEF settled
<1>3. ASSUME Log!GiveUp(s)
      PROVE  /\ settled' = settled \cup {s}
             /\ log' \in Seq(Audits \cup Messages)
             /\ dead' \subseteq Audits \cup Messages
  BY <1>1, <1>3 DEF Log!GiveUp, settled
<1> QED  BY <1>2, <1>3

LEMMA Unsettled == UNCHANGED logVars => settled' = settled
BY DEF logVars, settled

LEMMA InitHolds == Init => IInv
<1> SUFFICES ASSUME Init PROVE IInv
  OBVIOUS
<1>1. settled = {} /\ <<>> \in Seq(Audits \cup Messages)
  BY DEF Init, settled
<1>2. TypeOK
  BY <1>1 DEF Init, TypeOK
<1>3. Sent /\ Placed /\ Consumed /\ Carried /\ LeaseHeld /\ ReplayAudited
  BY <1>1 DEF Init, Sent, Placed, Consumed, Carried, LeaseHeld, ReplayAudited
<1> QED  BY <1>2, <1>3 DEF IInv

-----------------------------------------------------------------------------

(* A step that sends nothing, unkeeps nothing and completes no replay *)
LEMMA CarriedStays ==
    ASSUME IInv, UNCHANGED body, kept \subseteq kept',
           \A m \in Messages :
              quarantine'[m] = "replayed" => quarantine[m] = "replayed",
           \A w \in Workers :
              pc'[w] = "complete" => pc[w] = "complete" /\ msg'[w] = msg[w]
    PROVE  Carried'
BY DEF IInv, Carried

(* A step that sends a message *)
LEMMA SendHolds ==
    ASSUME IInv, NEW m \in Messages, NEW e \in Events, Enqueue(m, e),
           e \in Audits => outbox[e] # "none",
           UNCHANGED <<outbox, logVars, consumerVars, rowVars, replayOf>>
    PROVE  /\ \A k \in Messages : body[k] # None => k < m
           /\ body'[m] = e /\ m \in kept'
           /\ \A k \in Messages : k # m => body'[k] = body[k]
           /\ kept \subseteq kept' /\ settled' = settled
           /\ Sent' /\ Consumed' /\ ReplayAudited'
           /\ body' \in [Messages -> Events \cup {None}]
           /\ place' \in [Messages -> Places]
           /\ \A k \in Messages : body'[k] = None <=> place'[k] = "unsent"
           /\ \A k \in Messages : k \in settled' => body'[k] \in Plain
<1>1. /\ place[m] = "unsent" /\ body[m] = None
      /\ \A k \in Messages : k < m => place[k] # "unsent"
      /\ body' = [body EXCEPT ![m] = e]
      /\ place' = [place EXCEPT ![m] = "queue"]
  BY DEF IInv, TypeOK, Enqueue, IsNext
<1>2. settled' = settled
  BY Unsettled
<1>3. /\ body' \in [Messages -> Events \cup {None}]
      /\ place' \in [Messages -> Places]
      /\ \A k \in Messages : body'[k] = None <=> place'[k] = "unsent"
      /\ \A k \in Messages : k \in settled' => body'[k] \in Plain
  BY <1>1, <1>2 DEF IInv, TypeOK
<1>4. \A k \in Messages : body[k] # None => k < m
  BY <1>1 DEF IInv, TypeOK, Sent
<1>5. m \in kept' /\ kept \subseteq kept'
  BY <1>1, <1>2 DEF IInv, TypeOK, kept, Held, rowVars
<1>6. Sent'
  BY <1>1, <1>2, <1>4 DEF IInv, TypeOK, Sent, rowVars
<1>7. Consumed'
  BY <1>1, <1>2 DEF IInv, TypeOK, Consumed, Source, consumerVars
<1>8. ReplayAudited'
  BY DEF IInv, ReplayAudited, rowVars
<1> QED  BY <1>1, <1>2, <1>3, <1>4, <1>5, <1>6, <1>7, <1>8 DEF IInv, TypeOK

(* A step of an outbox row that is begun and not delivered *)
LEMMA OutboxHolds ==
    ASSUME IInv, NEW w \in Workers, pc[w] \in {"mark", "note"}, End(w),
           NEW st \in {"queued", "pending"}, st = "queued" => pc[w] = "mark",
           outbox' = [outbox EXCEPT ![audit[w]] =
                         IF @ = "delivered" THEN @ ELSE st],
           UNCHANGED <<logVars, body, place, consumerVars, rowVars, replayOf>>
    PROVE  IInv'
<1>1. /\ audit[w] \in Audits /\ outbox[audit[w]] # "none"
      /\ pc' = [pc EXCEPT ![w] = "idle"]
      /\ audit' = [audit EXCEPT ![w] = None]
      /\ msg' = [msg EXCEPT ![w] = None]
  BY DEF IInv, TypeOK, Placed, End, Begin
<1>2. settled' = settled
  BY Unsettled
<1>a. \A a \in Audits :
         outbox'[a] = IF a = audit[w] /\ outbox[a] # "delivered"
                      THEN st ELSE outbox[a]
  BY <1>1 DEF IInv, TypeOK
<1>b. st # "none" /\ st # "delivered"
  OBVIOUS
<1>3. \A a \in Audits :
         /\ outbox'[a] = "none" <=> outbox[a] = "none"
         /\ outbox'[a] = "delivered" <=> outbox[a] = "delivered"
  BY <1>1, <1>a, <1>b
<1>4. TypeOK'
  BY <1>1, <1>2 DEF IInv, TypeOK, logVars, consumerVars, rowVars
<1>5. Sent' /\ Placed'
  BY <1>1, <1>2, <1>3 DEF IInv, TypeOK, Sent, Placed, rowVars
<1>6. Consumed'
  BY <1>1, <1>2, <1>3 DEF IInv, TypeOK, Consumed, Source, consumerVars
<1>7. Carried'
  <2>1. kept \subseteq kept'
    BY <1>1, <1>2, <1>3 DEF kept, Held, rowVars
  <2> QED  BY <1>1, <2>1, CarriedStays DEF IInv, TypeOK, rowVars
<1>8. LeaseHeld' /\ ReplayAudited'
  BY <1>1 DEF IInv, TypeOK, LeaseHeld, ReplayAudited, rowVars
<1> QED  BY <1>4, <1>5, <1>6, <1>7, <1>8 DEF IInv

(* A step that only moves workers, and starts no replay *)
LEMMA WorkerHolds ==
    ASSUME IInv, TypeOK', Placed',
           \A w \in Workers :
              \/ pc'[w] \notin {"resend", "release", "complete"}
              \/ /\ pc[w] \in {"resend", "release", "complete"}
                 /\ msg'[w] = msg[w]
                 /\ pc'[w] = "complete" => pc[w] = "complete",
           UNCHANGED <<logVars, body, place, consumerVars, rowVars, replayOf>>,
           UNCHANGED outbox
    PROVE  IInv'
<1>1. settled' = settled
  BY Unsettled
<1>2. Sent' /\ Consumed'
  BY <1>1 DEF IInv, TypeOK, Sent, Consumed, Source, consumerVars, rowVars
<1>3. Carried'
  <2>1. kept \subseteq kept'
    BY <1>1 DEF kept, Held, rowVars
  <2> QED  BY <2>1, CarriedStays DEF rowVars
<1>4. LeaseHeld' /\ ReplayAudited'
  BY DEF IInv, TypeOK, LeaseHeld, ReplayAudited, rowVars
<1> QED  BY <1>2, <1>3, <1>4 DEF IInv

LEMMA ProducerHolds ==
    ASSUME IInv, ProducerStep
    PROVE  IInv'
<1>1. ASSUME NEW w \in Workers, NEW a \in Audits, Insert(w, a) PROVE IInv'
  <2>1. /\ outbox[a] = "none"
        /\ outbox' = [outbox EXCEPT ![a] = "pending"]
        /\ pc' = [pc EXCEPT ![w] = "send"]
        /\ audit' = [audit EXCEPT ![w] = a]
        /\ msg' = [msg EXCEPT ![w] = None]
        /\ UNCHANGED <<logVars, body, place, consumerVars, rowVars, replayOf>>
    BY <1>1 DEF Insert, Begin
  <2>2. settled' = settled
    BY <2>1, Unsettled
  <2>3. TypeOK'
    BY <2>1, <2>2 DEF IInv, TypeOK, logVars, consumerVars, rowVars
  <2>4. Sent' /\ Placed'
    BY <2>1, <2>2 DEF IInv, TypeOK, Sent, Placed, rowVars
  <2>5. Consumed'
    BY <2>1, <2>2 DEF IInv, TypeOK, Consumed, Source, consumerVars
  <2>6. Carried'
    <3>1. kept \subseteq kept'
      BY <2>1, <2>2 DEF IInv, TypeOK, kept, Held, rowVars
    <3> QED  BY <2>1, <3>1, CarriedStays DEF IInv, TypeOK, rowVars
  <2>7. LeaseHeld' /\ ReplayAudited'
    BY <2>1 DEF IInv, TypeOK, LeaseHeld, ReplayAudited, rowVars
  <2> QED  BY <2>3, <2>4, <2>5, <2>6, <2>7 DEF IInv
<1>2. ASSUME NEW w \in Workers, NEW a \in Audits, Redeliver(w, a) PROVE IInv'
  <2>1. /\ outbox[a] = "pending"
        /\ pc' = [pc EXCEPT ![w] = "send"]
        /\ audit' = [audit EXCEPT ![w] = a]
        /\ msg' = [msg EXCEPT ![w] = None]
        /\ UNCHANGED outbox
        /\ UNCHANGED <<logVars, body, place, consumerVars, rowVars, replayOf>>
    BY <1>2 DEF Redeliver, Begin
  <2>2. settled' = settled
    BY <2>1, Unsettled
  <2>3. TypeOK' /\ Placed'
    BY <2>1, <2>2 DEF IInv, TypeOK, Placed, logVars, consumerVars, rowVars
  <2> QED  BY <2>1, <2>3, WorkerHolds DEF IInv, TypeOK
<1>3. ASSUME NEW w \in Workers, NEW m \in Messages, Send(w, m) PROVE IInv'
  <2>1. /\ pc[w] = "send" /\ audit[w] \in Audits /\ outbox[audit[w]] # "none"
        /\ Enqueue(m, audit[w])
        /\ \E l \in {"mark", "note"} : pc' = [pc EXCEPT ![w] = l]
        /\ UNCHANGED <<outbox, logVars, consumerVars, rowVars, replayOf>>
        /\ UNCHANGED <<audit, msg>>
    <3>1. pc[w] = "send" /\ audit[w] \in Audits /\ outbox[audit[w]] # "none"
      BY <1>3 DEF Send, IInv, Placed
    <3> QED  BY <1>3, <3>1 DEF Send, Goto
  <2>2. /\ body'[m] = audit[w] /\ m \in kept'
        /\ \A k \in Messages : body[k] # None => k < m
        /\ \A k \in Messages : k # m => body'[k] = body[k]
        /\ kept \subseteq kept' /\ settled' = settled
        /\ Sent' /\ Consumed' /\ ReplayAudited'
        /\ body' \in [Messages -> Events \cup {None}]
        /\ place' \in [Messages -> Places]
        /\ \A k \in Messages : body'[k] = None <=> place'[k] = "unsent"
        /\ \A k \in Messages : k \in settled' => body'[k] \in Plain
    BY <2>1, SendHolds
  <2>3. TypeOK'
    BY <2>1, <2>2 DEF IInv, TypeOK, logVars, consumerVars, rowVars
  <2>4. Placed'
    BY <2>1, <2>2 DEF IInv, TypeOK, Placed, rowVars
  <2>5. Carried'
    <3>1. \A k \in Messages : body[k] # None => k # m /\ body'[k] = body[k]
      BY <2>2
    <3>2. \A k \in Messages : quarantine[k] # "none" => body[k] # None
      BY DEF IInv, TypeOK, Sent
    <3>3. \A v \in Workers :
             pc'[v] = "complete" => pc[v] = "complete" /\ msg'[v] = msg[v]
      BY <2>1 DEF IInv, TypeOK
    <3>4. \A v \in Workers : pc[v] = "complete" => body[msg[v]] # None
      BY <3>2 DEF IInv, Placed
    <3> QED  BY <2>1, <2>2, <3>1, <3>2, <3>3, <3>4 DEF IInv, Carried, rowVars
  <2>6. LeaseHeld'
    BY <2>1 DEF IInv, TypeOK, LeaseHeld, rowVars
  <2> QED  BY <2>2, <2>3, <2>4, <2>5, <2>6 DEF IInv
<1>4. ASSUME NEW w \in Workers, SendFails(w) PROVE IInv'
  <2>1. /\ pc[w] = "send"
        /\ pc' = [pc EXCEPT ![w] = "note"]
        /\ UNCHANGED <<audit, msg, outbox>>
        /\ UNCHANGED <<logVars, body, place, consumerVars, rowVars, replayOf>>
    BY <1>4 DEF SendFails, Goto
  <2>2. settled' = settled
    BY <2>1, Unsettled
  <2>3. TypeOK' /\ Placed'
    BY <2>1, <2>2 DEF IInv, TypeOK, Placed, logVars, consumerVars, rowVars
  <2> QED  BY <2>1, <2>3, WorkerHolds DEF IInv, TypeOK
<1>5. ASSUME NEW w \in Workers, Mark(w) PROVE IInv'
  BY <1>5, OutboxHolds DEF Mark
<1>6. ASSUME NEW w \in Workers, Note(w) PROVE IInv'
  BY <1>6, OutboxHolds DEF Note
<1>7. ASSUME NEW e \in Plain, NEW m \in Messages, SendPlain(e, m) PROVE IInv'
  <2>1. /\ Enqueue(m, e)
        /\ UNCHANGED <<outbox, logVars, consumerVars, rowVars, replayOf>>
        /\ UNCHANGED <<pc, audit, msg>>
    BY <1>7 DEF SendPlain, workerVars
  <2>2. /\ body'[m] = e /\ m \in kept'
        /\ \A k \in Messages : body[k] # None => k < m
        /\ \A k \in Messages : k # m => body'[k] = body[k]
        /\ kept \subseteq kept' /\ settled' = settled
        /\ Sent' /\ Consumed' /\ ReplayAudited'
        /\ body' \in [Messages -> Events \cup {None}]
        /\ place' \in [Messages -> Places]
        /\ \A k \in Messages : body'[k] = None <=> place'[k] = "unsent"
        /\ \A k \in Messages : k \in settled' => body'[k] \in Plain
    BY <2>1, SendHolds
  <2>3. TypeOK'
    BY <2>1, <2>2 DEF IInv, TypeOK, logVars, consumerVars, rowVars
  <2>4. Placed'
    BY <2>1, <2>2 DEF IInv, TypeOK, Placed, rowVars
  <2>5. Carried'
    <3>1. \A k \in Messages : body[k] # None => k # m /\ body'[k] = body[k]
      BY <2>2
    <3>2. \A k \in Messages : quarantine[k] # "none" => body[k] # None
      BY DEF IInv, TypeOK, Sent
    <3>3. \A v \in Workers :
             pc'[v] = "complete" => pc[v] = "complete" /\ msg'[v] = msg[v]
      BY <2>1 DEF IInv, TypeOK
    <3>4. \A v \in Workers : pc[v] = "complete" => body[msg[v]] # None
      BY <3>2 DEF IInv, Placed
    <3> QED  BY <2>1, <2>2, <3>1, <3>2, <3>3, <3>4 DEF IInv, Carried, rowVars
  <2>6. LeaseHeld'
    BY <2>1 DEF IInv, TypeOK, LeaseHeld, rowVars
  <2> QED  BY <2>2, <2>3, <2>4, <2>5, <2>6 DEF IInv
<1> QED
  BY <1>1, <1>2, <1>3, <1>4, <1>5, <1>6, <1>7 DEF ProducerStep

-----------------------------------------------------------------------------

(* A step that settles the source of message m, or finds it settled *)
LEMMA SettleHolds ==
    ASSUME IInv, NEW m \in Messages, place[m] # "unsent",
           \/ Log!Record(Source(m)) \/ Log!GiveUp(Source(m))
           \/ UNCHANGED logVars /\ Source(m) \in settled,
           UNCHANGED <<outbox, body, place, rowVars, workerVars, replayOf>>,
           \/ UNCHANGED consumerVars
           \/ /\ consuming = m /\ consuming' = m
              /\ stage # "none" /\ stage' = "complete"
    PROVE  IInv'
<1>1. /\ body[m] \in Events
      /\ Source(m) \in Audits \cup Messages
      /\ Source(m) \in Messages => Source(m) = m /\ body[m] \in Plain
  BY DEF IInv, TypeOK, Source
<1>2. /\ settled' = settled \cup {Source(m)}
      /\ log' \in Seq(Audits \cup Messages)
      /\ dead' \subseteq Audits \cup Messages
  <2>1. CASE UNCHANGED logVars /\ Source(m) \in settled
    BY <2>1, Unsettled DEF IInv, TypeOK, logVars
  <2>2. CASE Log!Record(Source(m)) \/ Log!GiveUp(Source(m))
    BY <1>1, <2>2, Settles DEF IInv
  <2> QED  BY <2>1, <2>2
<1>3. TypeOK'
  BY <1>1, <1>2 DEF IInv, TypeOK, rowVars, workerVars, consumerVars
<1>4. Sent' /\ Placed'
  BY <1>2 DEF IInv, TypeOK, Sent, Placed, rowVars, workerVars
<1>5. Consumed'
  BY <1>2 DEF IInv, TypeOK, Consumed, Source, consumerVars
<1>6. Carried'
  <2>1. kept \subseteq kept'
    BY <1>2 DEF kept, Held, rowVars
  <2> QED  BY <2>1, CarriedStays DEF rowVars, workerVars
<1>7. LeaseHeld' /\ ReplayAudited'
  BY DEF IInv, TypeOK, LeaseHeld, ReplayAudited, rowVars, workerVars
<1> QED  BY <1>3, <1>4, <1>5, <1>6, <1>7 DEF IInv

(* A step of the queues that decides nothing and keeps what was kept *)
LEMMA QueueHolds ==
    ASSUME IInv, place' \in [Messages -> Places],
           \A m \in Messages : place'[m] = "unsent" <=> place[m] = "unsent",
           kept \subseteq kept', consuming' \in Messages \cup {None},
           stage' \in Stages, Consumed',
           UNCHANGED <<outbox, logVars, body, rowVars, workerVars, replayOf>>
    PROVE  IInv'
<1>1. settled' = settled
  BY Unsettled
<1>2. TypeOK'
  BY <1>1 DEF IInv, TypeOK, logVars, rowVars, workerVars
<1>3. Sent' /\ Placed'
  BY <1>1 DEF IInv, TypeOK, Sent, Placed, rowVars, workerVars
<1>4. Carried'
  BY CarriedStays DEF rowVars, workerVars
<1>5. LeaseHeld' /\ ReplayAudited'
  BY DEF IInv, TypeOK, LeaseHeld, ReplayAudited, rowVars, workerVars
<1> QED  BY <1>2, <1>3, <1>4, <1>5 DEF IInv

LEMMA ConsumerHolds ==
    ASSUME IInv, ConsumerStep
    PROVE  IInv'
<1>1. ASSUME NEW m \in Messages, Receive(m) PROVE IInv'
  <2>1. settled' = settled
    BY <1>1, Unsettled DEF Receive
  <2>2. kept \subseteq kept' /\ Consumed'
    BY <1>1, <2>1 DEF Receive, IInv, TypeOK, kept, Held, Consumed, rowVars
  <2> QED  BY <1>1, <2>2, QueueHolds DEF Receive, IInv, TypeOK
<1>2. CASE AppendEvent
  <2>1. consuming \in Messages /\ place[consuming] # "unsent"
    BY <1>2 DEF AppendEvent, IInv, TypeOK, Consumed
  <2> QED  BY <1>2, <2>1, SettleHolds DEF AppendEvent
<1>3. CASE AppendThrows
  <2>1. settled' = settled
    BY <1>3, Unsettled DEF AppendThrows
  <2>2. kept \subseteq kept' /\ Consumed'
    BY <1>3, <2>1
       DEF AppendThrows, IInv, TypeOK, kept, Held, Consumed, rowVars
  <2> QED  BY <1>3, <2>2, QueueHolds DEF AppendThrows, IInv, TypeOK
<1>4. CASE Terminalize
  <2>1. consuming \in Messages /\ place[consuming] # "unsent"
    BY <1>4 DEF Terminalize, IInv, TypeOK, Consumed
  <2> QED  BY <1>4, <2>1, SettleHolds DEF Terminalize
<1>5. ASSUME NEW m \in Messages, ExpirePending(m) PROVE IInv'
  BY <1>5, SettleHolds DEF ExpirePending
<1>6. CASE Complete
  <2>1. /\ consuming \in Messages /\ stage = "complete"
        /\ place[consuming] = "queue" /\ Source(consuming) \in settled
        /\ body[consuming] \in Audits => outbox[body[consuming]] # "none"
    BY <1>6 DEF Complete, IInv, TypeOK, Sent, Consumed
  <2>2. /\ stage' = "ack"
        /\ outbox' = [a \in Audits |->
                        IF a = body[consuming] /\ outbox[a] \in {"pending", "queued"}
                        THEN "delivered" ELSE outbox[a]]
        /\ UNCHANGED <<logVars, body, place, consuming, rowVars, workerVars>>
        /\ UNCHANGED replayOf
    BY <1>6 DEF Complete
  <2>3. settled' = settled
    BY <2>2, Unsettled
  <2>4. TypeOK'
    BY <2>1, <2>2, <2>3 DEF IInv, TypeOK, logVars, rowVars, workerVars
  <2>5. Sent' /\ Placed'
    BY <2>1, <2>2, <2>3
       DEF IInv, TypeOK, Sent, Placed, Source, rowVars, workerVars
  <2>6. Consumed'
    BY <2>1, <2>2, <2>3 DEF IInv, TypeOK, Consumed, Source
  <2>7. Carried'
    <3>1. kept \subseteq kept'
      BY <2>2, <2>3 DEF IInv, TypeOK, kept, Held, rowVars
    <3> QED  BY <2>2, <3>1, CarriedStays DEF rowVars, workerVars
  <2>8. LeaseHeld' /\ ReplayAudited'
    BY <2>2 DEF IInv, TypeOK, LeaseHeld, ReplayAudited, rowVars, workerVars
  <2> QED  BY <2>4, <2>5, <2>6, <2>7, <2>8 DEF IInv
<1>7. CASE Ack
  <2>1. /\ consuming \in Messages /\ place[consuming] = "queue"
        /\ Source(consuming) \in settled
        /\ body[consuming] \in Audits => outbox[body[consuming]] = "delivered"
        /\ body[consuming] \in Events
    BY <1>7 DEF Ack, IInv, TypeOK, Consumed
  <2>2. settled' = settled
    BY <1>7, Unsettled DEF Ack
  <2>3. kept \subseteq kept'
    BY <1>7, <2>1, <2>2 DEF Ack, IInv, TypeOK, kept, Held, Source, rowVars
  <2>4. Consumed'
    BY <1>7 DEF Ack, Consumed
  <2>5. /\ place' \in [Messages -> Places]
        /\ \A m \in Messages : place'[m] = "unsent" <=> place[m] = "unsent"
    BY <1>7, <2>1 DEF Ack, IInv, TypeOK
  <2> QED  BY <1>7, <2>3, <2>4, <2>5, QueueHolds DEF Ack
<1>8. CASE Retry
  <2>1. consuming \in Messages /\ place[consuming] = "queue"
    BY <1>8 DEF Retry, IInv, TypeOK, Consumed
  <2>2. settled' = settled
    BY <1>8, Unsettled DEF Retry
  <2>3. kept \subseteq kept'
    BY <1>8, <2>1, <2>2 DEF Retry, IInv, TypeOK, kept, Held, rowVars
  <2>4. Consumed'
    BY <1>8 DEF Retry, Consumed
  <2>5. /\ place' \in [Messages -> Places]
        /\ \A m \in Messages : place'[m] = "unsent" <=> place[m] = "unsent"
    BY <1>8, <2>1 DEF Retry, IInv, TypeOK
  <2> QED  BY <1>8, <2>3, <2>4, <2>5, QueueHolds DEF Retry
<1> QED
  BY <1>1, <1>2, <1>3, <1>4, <1>5, <1>6, <1>7, <1>8 DEF ConsumerStep

-----------------------------------------------------------------------------

(* A step of the rows of dead letters that replays none *)
LEMMA RowHolds ==
    ASSUME IInv, NEW m \in Messages, NEW st \in {"pending", "replaying"},
           quarantine[m] # "replayed", place[m] # "unsent",
           quarantine' = [quarantine EXCEPT ![m] = st],
           holder' \in [Messages -> Workers \cup {None}],
           expired' \subseteq Messages,
           pc' \in [Workers -> Waits], audit' \in [Workers -> Audits \cup {None}],
           msg' \in [Workers -> Messages \cup {None}], Placed', LeaseHeld',
           \A w \in Workers :
              pc'[w] = "complete" => pc[w] = "complete" /\ msg'[w] = msg[w],
           UNCHANGED <<outbox, logVars, body, place, consumerVars, replayOf>>
    PROVE  IInv'
<1>1. settled' = settled
  BY Unsettled
<1>2. /\ \A k \in Messages : quarantine'[k] = "replayed"
                                <=> quarantine[k] = "replayed"
      /\ \A k \in Messages : k # m => quarantine'[k] = quarantine[k]
      /\ quarantine'[m] = st
  BY DEF IInv, TypeOK
<1>3. TypeOK'
  BY <1>1, <1>2 DEF IInv, TypeOK, logVars, consumerVars
<1>4. Sent' /\ Consumed'
  BY <1>1, <1>2 DEF IInv, TypeOK, Sent, Consumed, Source, consumerVars
<1>5. Carried'
  <2>1. kept \subseteq kept'
    BY <1>1, <1>2 DEF kept, Held
  <2> QED  BY <1>2, <2>1, CarriedStays
<1>6. ReplayAudited'
  BY <1>2 DEF IInv, ReplayAudited
<1> QED  BY <1>3, <1>4, <1>5, <1>6 DEF IInv

LEMMA QuarantineHolds ==
    ASSUME IInv, NEW m \in Messages,
           \/ Persist(m) \/ AckDeadLetter(m) \/ Park(m)
           \/ LeaseExpires(m) \/ Recover(m)
    PROVE  IInv'
<1>1. CASE Persist(m)
  <2>1. /\ place[m] # "unsent" /\ quarantine[m] = "none"
        /\ quarantine' = [quarantine EXCEPT ![m] = "pending"]
        /\ UNCHANGED <<outbox, logVars, body, place, consumerVars, replayOf>>
        /\ UNCHANGED <<holder, expired, pc, audit, msg>>
    BY <1>1 DEF Persist, workerVars
  <2>2. Placed' /\ LeaseHeld'
    BY <2>1 DEF IInv, TypeOK, Placed, LeaseHeld
  <2> QED  BY <2>1, <2>2, RowHolds DEF IInv, TypeOK
<1>2. CASE AckDeadLetter(m)
  <2>1. /\ place[m] = "dlq" /\ quarantine[m] # "none"
        /\ place' = [place EXCEPT ![m] = "gone"]
        /\ UNCHANGED <<outbox, logVars, body, rowVars, workerVars, replayOf>>
        /\ UNCHANGED consumerVars
    BY <1>2 DEF AckDeadLetter
  <2>2. settled' = settled
    BY <2>1, Unsettled
  <2>3. TypeOK' /\ Sent' /\ Placed'
    BY <2>1, <2>2 DEF IInv, TypeOK, Sent, Placed, logVars, rowVars, workerVars,
                      consumerVars
  <2>4. Consumed'
    BY <2>1, <2>2 DEF IInv, TypeOK, Consumed, Source, consumerVars
  <2>5. Carried'
    <3>1. \A k \in kept : k = m \/ k \in kept'
      BY <2>1, <2>2 DEF IInv, TypeOK, kept, Held, rowVars
    <3>2. CASE quarantine[m] = "replayed"
      <4>1. PICK n \in Messages : m < n /\ body[n] = body[m] /\ n \in kept
        BY <3>2 DEF IInv, Carried
      <4>2. n \in kept'
        BY <3>1, <4>1
      <4>3. \A k \in Messages : k <= m => k < n
        BY <4>1
      <4> QED
        BY <2>1, <3>1, <4>1, <4>2, <4>3 DEF IInv, Carried, rowVars, workerVars
    <3>3. CASE quarantine[m] # "replayed"
      <4>1. m \in kept'
        BY <2>1, <3>3 DEF IInv, TypeOK, kept, Held, rowVars
      <4> QED  BY <2>1, <3>1, <4>1, CarriedStays DEF rowVars, workerVars
    <3> QED  BY <3>2, <3>3
  <2>6. LeaseHeld' /\ ReplayAudited'
    BY <2>1 DEF IInv, TypeOK, LeaseHeld, ReplayAudited, rowVars, workerVars
  <2> QED  BY <2>3, <2>4, <2>5, <2>6 DEF IInv
<1>3. CASE Park(m)
  <2>1. settled' = settled
    BY <1>3, Unsettled DEF Park
  <2>2. kept \subseteq kept'
    BY <1>3, <2>1 DEF Park, IInv, TypeOK, kept, Held, rowVars
  <2>3. Consumed'
    BY <1>3, <2>1 DEF Park, IInv, TypeOK, Consumed, Source, consumerVars
  <2>4. /\ place' \in [Messages -> Places]
        /\ \A k \in Messages : place'[k] = "unsent" <=> place[k] = "unsent"
        /\ consuming' \in Messages \cup {None} /\ stage' \in Stages
    BY <1>3 DEF Park, IInv, TypeOK, consumerVars
  <2> QED  BY <1>3, <2>2, <2>3, <2>4, QueueHolds DEF Park
<1>4. CASE LeaseExpires(m)
  <2>1. /\ quarantine[m] = "replaying" /\ quarantine' = quarantine
        /\ expired' = expired \cup {m}
        /\ UNCHANGED <<outbox, logVars, body, place, consumerVars, replayOf>>
        /\ UNCHANGED <<holder, pc, audit, msg>>
    BY <1>4 DEF LeaseExpires, workerVars
  <2>2. /\ place[m] # "unsent" /\ quarantine \in [Messages -> RowStates]
        /\ quarantine' = [quarantine EXCEPT ![m] = "replaying"]
    BY <2>1 DEF IInv, TypeOK, Sent
  <2>3. Placed' /\ LeaseHeld'
    BY <2>1 DEF IInv, TypeOK, Placed, LeaseHeld
  <2>4. /\ holder' \in [Messages -> Workers \cup {None}] /\ expired' \subseteq Messages
        /\ pc' \in [Workers -> Waits] /\ audit' \in [Workers -> Audits \cup {None}]
        /\ msg' \in [Workers -> Messages \cup {None}]
    BY <2>1 DEF IInv, TypeOK
  <2> QED  BY <2>1, <2>2, <2>3, <2>4, RowHolds
<1>5. CASE Recover(m)
  <2>1. /\ quarantine[m] = "replaying" /\ m \in expired
        /\ quarantine' = [quarantine EXCEPT ![m] = "pending"]
        /\ UNCHANGED <<outbox, logVars, body, place, consumerVars, replayOf>>
        /\ UNCHANGED <<holder, expired, pc, audit, msg>>
    BY <1>5 DEF Recover, workerVars
  <2>2. place[m] # "unsent"
    BY <2>1 DEF IInv, Sent
  <2>3. Placed' /\ LeaseHeld'
    BY <2>1 DEF IInv, TypeOK, Placed, LeaseHeld
  <2>4. /\ holder' \in [Messages -> Workers \cup {None}] /\ expired' \subseteq Messages
        /\ pc' \in [Workers -> Waits] /\ audit' \in [Workers -> Audits \cup {None}]
        /\ msg' \in [Workers -> Messages \cup {None}]
    BY <2>1 DEF IInv, TypeOK
  <2> QED  BY <2>1, <2>2, <2>3, <2>4, RowHolds
<1> QED  BY <1>1, <1>2, <1>3, <1>4, <1>5

LEMMA ReplayHolds ==
    ASSUME IInv, NEW w \in Workers,
           \/ \E m \in Messages : Claim(w, m) \/ Resend(w, m)
           \/ \E a \in Audits : CompleteReplay(w, a)
           \/ ResendFails(w) \/ Release(w) \/ Fails(w)
    PROVE  IInv'
<1>1. ASSUME NEW m \in Messages, Claim(w, m) PROVE IInv'
  <2>1. /\ quarantine[m] \in {"pending", "replaying"}
        /\ quarantine' = [quarantine EXCEPT ![m] = "replaying"]
        /\ holder' = [holder EXCEPT ![m] = w]
        /\ expired' = expired \ {m}
        /\ pc' = [pc EXCEPT ![w] = "resend"]
        /\ audit' = [audit EXCEPT ![w] = None]
        /\ msg' = [msg EXCEPT ![w] = m]
        /\ UNCHANGED <<outbox, logVars, body, place, consumerVars, replayOf>>
    BY <1>1 DEF Claim, Begin
  <2>2. place[m] # "unsent"
    BY <2>1 DEF IInv, Sent
  <2>3. Placed'
    BY <2>1 DEF IInv, TypeOK, Placed
  <2>4. LeaseHeld'
    BY <2>1 DEF IInv, TypeOK, LeaseHeld
  <2>5. /\ holder' \in [Messages -> Workers \cup {None}] /\ expired' \subseteq Messages
        /\ pc' \in [Workers -> Waits] /\ audit' \in [Workers -> Audits \cup {None}]
        /\ msg' \in [Workers -> Messages \cup {None}]
        /\ \A v \in Workers :
              pc'[v] = "complete" => pc[v] = "complete" /\ msg'[v] = msg[v]
    BY <2>1 DEF IInv, TypeOK
  <2> QED  BY <2>1, <2>2, <2>3, <2>4, <2>5, RowHolds
<1>2. ASSUME NEW m \in Messages, Resend(w, m) PROVE IInv'
  <2> DEFINE e == body[msg[w]]
  <2>1. /\ pc[w] = "resend" /\ msg[w] \in Messages
        /\ e \in Events /\ (e \in Audits => outbox[e] # "none")
    BY <1>2 DEF Resend, IInv, TypeOK, Sent, Placed
  <2>2. /\ Enqueue(m, e)
        /\ \E l \in {"complete", "release"} : pc' = [pc EXCEPT ![w] = l]
        /\ UNCHANGED <<outbox, logVars, consumerVars, rowVars, replayOf>>
        /\ UNCHANGED <<audit, msg>>
    BY <1>2 DEF Resend, Goto
  <2>3. /\ body'[m] = e /\ m \in kept'
        /\ \A k \in Messages : body[k] # None => k < m
        /\ \A k \in Messages : k # m => body'[k] = body[k]
        /\ kept \subseteq kept' /\ settled' = settled
        /\ Sent' /\ Consumed' /\ ReplayAudited'
        /\ body' \in [Messages -> Events \cup {None}]
        /\ place' \in [Messages -> Places]
        /\ \A k \in Messages : body'[k] = None <=> place'[k] = "unsent"
        /\ \A k \in Messages : k \in settled' => body'[k] \in Plain
    BY <2>1, <2>2, SendHolds
  <2>4. TypeOK'
    BY <2>2, <2>3 DEF IInv, TypeOK, logVars, consumerVars, rowVars
  <2>5. Placed'
    BY <2>1, <2>2, <2>3 DEF IInv, TypeOK, Placed, rowVars
  <2>6. Carried'
    <3>1. \A k \in Messages : body[k] # None => k # m /\ body'[k] = body[k]
      BY <2>3
    <3>2. \A k \in Messages : quarantine[k] # "none" => body[k] # None
      BY DEF IInv, TypeOK, Sent
    <3>3. \A v \in Workers :
             pc'[v] = "complete" =>
                msg'[v] = msg[v] /\ (v = w \/ pc[v] = "complete")
      BY <2>2 DEF IInv, TypeOK
    <3>4. \A v \in Workers : pc[v] = "complete" => body[msg[v]] # None
      BY <3>2 DEF IInv, Placed
    <3>5. msg[w] < m /\ body'[msg[w]] = body'[m]
      BY <2>1, <2>3, <3>1
    <3>6. \A k \in Messages :
             body'[k] # None =>
                \E n \in Messages : k <= n /\ body'[n] = body'[k] /\ n \in kept'
      BY <2>3, <3>1 DEF IInv, Carried
    <3>7. \A k \in Messages :
             \/ quarantine[k] = "replayed"
             \/ \E v \in Workers : pc[v] = "complete" /\ msg[v] = k
             => \E n \in Messages : k < n /\ body'[n] = body'[k] /\ n \in kept'
      BY <2>3, <3>1, <3>2, <3>4 DEF IInv, Carried
    <3>8. quarantine' = quarantine
      BY <2>2 DEF rowVars
    <3>9. ASSUME NEW k \in Messages,
                 \/ quarantine'[k] = "replayed"
                 \/ \E v \in Workers : pc'[v] = "complete" /\ msg'[v] = k
          PROVE  \E n \in Messages : k < n /\ body'[n] = body'[k] /\ n \in kept'
      <4>1. CASE k = msg[w]
        BY <2>3, <3>5, <4>1
      <4>2. CASE k # msg[w]
        BY <3>3, <3>7, <3>8, <3>9, <4>2
      <4> QED  BY <4>1, <4>2
    <3> QED  BY <3>6, <3>9 DEF Carried
  <2>7. LeaseHeld'
    <3>1. \A v \in Workers :
             pc'[v] \in {"resend", "complete", "release"} =>
                pc[v] \in {"resend", "complete", "release"}
      BY <2>1, <2>2 DEF IInv, TypeOK
    <3>2. msg' = msg /\ UNCHANGED <<quarantine, holder, expired>>
      BY <2>2 DEF rowVars
    <3> QED  BY <3>1, <3>2 DEF IInv, LeaseHeld
  <2> QED  BY <2>3, <2>4, <2>5, <2>6, <2>7 DEF IInv
<1>3. ASSUME NEW a \in Audits, CompleteReplay(w, a) PROVE IInv'
  <2> DEFINE m == msg[w]
  <2>1. /\ pc[w] = "complete" /\ m \in Messages
        /\ quarantine[m] = "replaying" /\ holder[m] = w /\ outbox[a] = "none"
        /\ outbox' = [outbox EXCEPT ![a] = "pending"]
        /\ replayOf' = [replayOf EXCEPT ![a] = m]
        /\ quarantine' = [quarantine EXCEPT ![m] = "replayed"]
        /\ pc' = [pc EXCEPT ![w] = "send"]
        /\ audit' = [audit EXCEPT ![w] = a]
        /\ msg' = [msg EXCEPT ![w] = None]
        /\ UNCHANGED <<logVars, body, place, consumerVars, holder, expired>>
    BY <1>3 DEF CompleteReplay, Claimed, Begin, IInv, Placed
  <2>2. settled' = settled
    BY <2>1, Unsettled
  <2>3. replayOf[a] = None /\ \A b \in Audits : replayOf[b] # m
    BY <2>1 DEF IInv, Sent, ReplayAudited
  <2>4. TypeOK'
    BY <2>1, <2>2 DEF IInv, TypeOK, logVars, consumerVars
  <2>5. Sent'
    BY <2>1, <2>2 DEF IInv, TypeOK, Sent
  <2>6. Placed'
    BY <2>1 DEF IInv, TypeOK, Placed
  <2>7. Consumed'
    BY <2>1, <2>2 DEF IInv, TypeOK, Consumed, Source, consumerVars
  <2>8. Carried'
    <3>1. \A k \in kept : k = m \/ k \in kept'
      BY <2>1, <2>2 DEF IInv, TypeOK, kept, Held
    <3>2. PICK n \in Messages : m < n /\ body[n] = body[m] /\ n \in kept
      BY <2>1 DEF IInv, Carried
    <3>3. n \in kept'
      BY <3>1, <3>2
    <3>4. \A k \in Messages : k <= m => k < n
      BY <2>1, <3>2
    <3>5. \A k \in Messages :
             quarantine'[k] = "replayed" => k = m \/ quarantine[k] = "replayed"
      BY <2>1 DEF IInv, TypeOK
    <3>6. \A v \in Workers :
             pc'[v] = "complete" => pc[v] = "complete" /\ msg'[v] = msg[v]
      BY <2>1 DEF IInv, TypeOK
    <3>7. body' = body
      BY <2>1
    <3>8. \A k \in Messages :
             body[k] # None =>
                \E j \in Messages : k <= j /\ body[j] = body[k] /\ j \in kept'
      BY <3>1, <3>2, <3>3, <3>4 DEF IInv, Carried
    <3>9. \A k \in Messages :
             \/ quarantine[k] = "replayed"
             \/ \E v \in Workers : pc[v] = "complete" /\ msg[v] = k
             => \E j \in Messages : k < j /\ body[j] = body[k] /\ j \in kept'
      BY <3>1, <3>2, <3>3, <3>4 DEF IInv, Carried
    <3> QED  BY <2>1, <3>5, <3>6, <3>7, <3>8, <3>9 DEF Carried
  <2>9. LeaseHeld'
    BY <2>1 DEF IInv, TypeOK, LeaseHeld
  <2>10. ReplayAudited'
    BY <2>1, <2>3 DEF IInv, TypeOK, ReplayAudited
  <2> QED  BY <2>4, <2>5, <2>6, <2>7, <2>8, <2>9, <2>10 DEF IInv
<1>4. CASE ResendFails(w)
  <2>1. /\ pc[w] = "resend"
        /\ pc' = [pc EXCEPT ![w] = "release"]
        /\ UNCHANGED <<audit, msg, outbox>>
        /\ UNCHANGED <<logVars, body, place, consumerVars, rowVars, replayOf>>
    BY <1>4 DEF ResendFails, Goto
  <2>2. settled' = settled
    BY <2>1, Unsettled
  <2>3. TypeOK' /\ Placed'
    BY <2>1, <2>2 DEF IInv, TypeOK, Placed, logVars, consumerVars, rowVars
  <2> QED  BY <2>1, <2>3, WorkerHolds DEF IInv, TypeOK
<1>5. CASE Release(w)
  <2>1. /\ pc[w] = "release" /\ msg[w] \in Messages
        /\ pc' = [pc EXCEPT ![w] = "idle"]
        /\ audit' = [audit EXCEPT ![w] = None]
        /\ msg' = [msg EXCEPT ![w] = None]
        /\ quarantine' = IF Claimed(w)
                         THEN [quarantine EXCEPT ![msg[w]] = "pending"]
                         ELSE quarantine
        /\ UNCHANGED <<outbox, logVars, body, place, consumerVars, replayOf>>
        /\ UNCHANGED <<holder, expired>>
    BY <1>5 DEF Release, End, Begin, IInv, Placed
  <2>2. settled' = settled
    BY <2>1, Unsettled
  <2>3. /\ pc' \in [Workers -> Waits] /\ audit' \in [Workers -> Audits \cup {None}]
        /\ msg' \in [Workers -> Messages \cup {None}]
        /\ holder' \in [Messages -> Workers \cup {None}] /\ expired' \subseteq Messages
        /\ \A v \in Workers : pc'[v] # "idle" => pc'[v] = pc[v] /\ msg'[v] = msg[v]
    BY <2>1 DEF IInv, TypeOK
  <2>4. CASE Claimed(w)
    <3>1. /\ quarantine[msg[w]] = "replaying" /\ holder[msg[w]] = w
          /\ quarantine' = [quarantine EXCEPT ![msg[w]] = "pending"]
      BY <2>1, <2>4 DEF Claimed
    <3>2. place[msg[w]] # "unsent"
      BY <2>1, <3>1 DEF IInv, Sent
    <3>3. Placed'
      BY <2>1, <3>1 DEF IInv, TypeOK, Placed
    <3>4. LeaseHeld'
      BY <2>1, <3>1 DEF IInv, TypeOK, LeaseHeld
    <3> QED  BY <2>1, <2>3, <3>1, <3>2, <3>3, <3>4, RowHolds
  <2>5. CASE ~Claimed(w)
    <3>1. UNCHANGED rowVars
      BY <2>1, <2>5 DEF rowVars
    <3>2. TypeOK' /\ Placed'
      BY <2>1, <2>2, <3>1
         DEF IInv, TypeOK, Placed, logVars, consumerVars, rowVars
    <3> QED  BY <2>1, <2>3, <3>1, <3>2, WorkerHolds
  <2> QED  BY <2>4, <2>5
<1>6. CASE Fails(w)
  <2>1. /\ pc' = [pc EXCEPT ![w] = "idle"]
        /\ audit' = [audit EXCEPT ![w] = None]
        /\ msg' = [msg EXCEPT ![w] = None]
        /\ UNCHANGED outbox
        /\ UNCHANGED <<logVars, body, place, consumerVars, rowVars, replayOf>>
    BY <1>6 DEF Fails, End, Begin
  <2>2. settled' = settled
    BY <2>1, Unsettled
  <2>3. TypeOK' /\ Placed'
    BY <2>1, <2>2 DEF IInv, TypeOK, Placed, logVars, consumerVars, rowVars
  <2> QED  BY <2>1, <2>3, WorkerHolds DEF IInv, TypeOK
<1> QED  BY <1>1, <1>2, <1>3, <1>4, <1>5, <1>6

-----------------------------------------------------------------------------

LEMMA StutterHolds == IInv /\ UNCHANGED vars => IInv'
<1> SUFFICES ASSUME IInv, UNCHANGED vars PROVE IInv'
  OBVIOUS
<1>1. settled' = settled /\ kept' = kept
  BY DEF vars, settled, kept, Held
<1> QED
  BY <1>1 DEF vars, IInv, TypeOK, Sent, Placed, Consumed, Carried, LeaseHeld,
              ReplayAudited, Source

LEMMA StepHolds == IInv /\ [Next]_vars => IInv'
BY ProducerHolds, ConsumerHolds, QuarantineHolds, ReplayHolds, StutterHolds
   DEF Next, DeadLetterStep

LEMMA IInvHolds == Spec => []IInv
BY InitHolds, StepHolds, PTL DEF Spec

-----------------------------------------------------------------------------

(* The variables keep their types, and sources are ids of their events *)
THEOREM TypeCorrect == Spec => []TypeOK
BY IInvHolds, PTL DEF IInv

(* No crash, retry, dead letter or replay loses an event that a queue has    *)
(* accepted                                                                *)
THEOREM NothingLostHolds == Spec => []NothingLost
<1>1. IInv => NothingLost
  <2> SUFFICES ASSUME IInv, NEW m \in Messages, body[m] # None
               PROVE  \E k \in Messages : /\ body[k] = body[m]
                                          /\ Source(k) \in settled \/ Held(k)
    BY DEF NothingLost
  <2>1. PICK k \in Messages : body[k] = body[m] /\ k \in kept
    BY DEF IInv, Carried
  <2>2. Source(k) \in settled \/ Held(k)
    BY <2>1 DEF IInv, Sent, kept, Source
  <2> QED  BY <2>1, <2>2
<1> QED  BY <1>1, IInvHolds, PTL

(* Outbox rows tell the truth about the chain and the queues *)
THEOREM OutboxHonestHolds == Spec => []OutboxHonest
<1>1. IInv => OutboxHonest
  <2> SUFFICES ASSUME IInv, NEW a \in Audits
               PROVE  /\ outbox[a] = "delivered" => a \in settled
                      /\ outbox[a] = "queued" =>
                            \E m \in Messages : body[m] = a /\ Held(m)
    BY DEF OutboxHonest
  <2>1. outbox[a] = "delivered" => a \in settled
    BY DEF IInv, Sent
  <2>2. ASSUME outbox[a] = "queued"
        PROVE  \E m \in Messages : body[m] = a /\ Held(m)
    <3>1. PICK k \in Messages : body[k] = a /\ k \in kept
      BY <2>2 DEF IInv, TypeOK, Sent, Carried
    <3> QED  BY <2>2, <3>1 DEF kept
  <2> QED  BY <2>1, <2>2
<1> QED  BY <1>1, IInvHolds, PTL

(* A replay keeps its claim for as long as the lease runs *)
THEOREM LeaseHeldHolds == Spec => []LeaseHeld
BY IInvHolds, PTL DEF IInv

(* A completed replay has one audit, and only a completed one has any *)
THEOREM ReplayAuditedHolds == Spec => []ReplayAudited
BY IInvHolds, PTL DEF IInv

-----------------------------------------------------------------------------
(* The chain as its users see it.  The consumer writes to it only through  *)
(* the steps of AuditLog, which AuditChain implements, with the source of  *)
(* a message that was sent.                                                *)

LEMMA SourceOfSent ==
    ASSUME IInv, NEW m \in Messages, place[m] # "unsent"
    PROVE  Source(m) \in Audits \cup Messages
BY DEF IInv, TypeOK, Source

LEMMA LogSteps ==
    IInv /\ [Next]_vars => [Log!AbstractNext]_<<log, dead>>
<1> SUFFICES ASSUME IInv, [Next]_vars
             PROVE  Log!AbstractNext \/ UNCHANGED logVars
  BY DEF logVars
<1>1. ASSUME NEW m \in Messages, place[m] # "unsent",
             Log!Record(Source(m)) \/ Log!GiveUp(Source(m))
      PROVE  Log!AbstractNext
  BY <1>1, SourceOfSent DEF Log!AbstractNext
<1>2. ASSUME stage # "none"
      PROVE  consuming \in Messages /\ place[consuming] # "unsent"
  BY <1>2 DEF IInv, TypeOK, Consumed
<1>3. CASE AppendEvent
  BY <1>1, <1>2, <1>3 DEF AppendEvent
<1>4. CASE Terminalize
  BY <1>1, <1>2, <1>4 DEF Terminalize
<1>5. ASSUME NEW m \in Messages, ExpirePending(m)
      PROVE  Log!AbstractNext
  BY <1>1, <1>5 DEF ExpirePending
<1>6. CASE ProducerStep
  BY <1>6 DEF ProducerStep, Insert, Redeliver, Send, SendFails, Mark, Note,
              SendPlain
<1>7. ASSUME ConsumerStep, ~AppendEvent, ~Terminalize,
             \A m \in Messages : ~ExpirePending(m)
      PROVE  UNCHANGED logVars
  BY <1>7 DEF ConsumerStep, Receive, AppendThrows, Complete, Ack, Retry
<1>8. CASE DeadLetterStep
  BY <1>8 DEF DeadLetterStep, Persist, AckDeadLetter, Park, LeaseExpires,
              Recover, Claim, Resend, CompleteReplay, ResendFails, Release, Fails
<1>9. CASE UNCHANGED vars
  BY <1>9 DEF vars, logVars
<1> QED  BY <1>3, <1>4, <1>5, <1>6, <1>7, <1>8, <1>9 DEF Next

(* Whatever the outbox, the queues and the replays do, the chain only ever *)
(* sees the steps of an append-only log: AuditChain, which implements the  *)
(* same AuditLog, can stand in its place (append and terminalize are the   *)
(* consumer's only calls).                                                 *)
THEOREM UsesLogHolds == Spec => Log!Spec
<1>1. Init => Log!AbstractInit
  BY DEF Init, Log!AbstractInit
<1> QED  BY <1>1, IInvHolds, LogSteps, PTL DEF Spec, Log!Spec

(* A source has one place, or none, and one fate *)
OnePlace ==
    /\ \A i, j \in DOMAIN log : log[i] = log[j] => i = j
    /\ \A i \in DOMAIN log : log[i] \notin dead

LEMMA OnePlaceStep ==
    TypeOK /\ OnePlace /\ [Log!AbstractNext]_<<log, dead>> => OnePlace'
<1> SUFFICES ASSUME TypeOK, OnePlace, [Log!AbstractNext]_<<log, dead>>
             PROVE  OnePlace'
  OBVIOUS
<1>1. log \in Seq(Audits \cup Messages)
  BY DEF TypeOK
<1>2. ASSUME NEW s \in Audits \cup Messages, Log!Record(s)
      PROVE  OnePlace'
  <2>1. /\ s \notin dead /\ \A i \in DOMAIN log : log[i] # s
        /\ log' = Append(log, s) /\ dead' = dead
    BY <1>2 DEF Log!Record, Log!Fresh
  <2>2. /\ DOMAIN log' = DOMAIN log \cup {Len(log) + 1}
        /\ \A i \in DOMAIN log : log'[i] = log[i]
        /\ log'[Len(log) + 1] = s
    BY <1>1, <2>1
  <2> QED  BY <2>1, <2>2 DEF OnePlace
<1>3. ASSUME NEW s \in Audits \cup Messages, Log!GiveUp(s)
      PROVE  OnePlace'
  BY <1>3 DEF Log!GiveUp, Log!Fresh, OnePlace
<1>4. CASE UNCHANGED <<log, dead>>
  BY <1>4 DEF OnePlace
<1> QED  BY <1>2, <1>3, <1>4 DEF Log!AbstractNext

(* A platform audit, however often the outbox sends it and operators       *)
(* replay it, has at most one place in the audit chain, and none once it is *)
(* given up (payload.sourceMessageId is the identity of all its messages). *)
THEOREM OnePlaceHolds == Spec => []OnePlace
<1>1. Init => OnePlace
  BY DEF Init, OnePlace
<1>2. IInv /\ OnePlace /\ [Next]_vars => OnePlace'
  BY LogSteps, OnePlaceStep DEF IInv
<1> QED  BY <1>1, <1>2, IInvHolds, PTL DEF Spec

-----------------------------------------------------------------------------
(* What no step takes back *)

(* Settled stays settled, delivered stays delivered, replayed stays        *)
(* replayed with its audit, and an event keeps its message                 *)
NothingTakenBack ==
    [][ /\ settled \subseteq settled'
        /\ \A a \in Audits :
              /\ outbox[a] = "delivered" => outbox'[a] = "delivered"
              /\ outbox[a] # "none" => outbox'[a] # "none"
              /\ replayOf[a] # None => replayOf'[a] = replayOf[a]
        /\ \A m \in Messages :
              /\ quarantine[m] = "replayed" => quarantine'[m] = "replayed"
              /\ body[m] # None => body'[m] = body[m] ]_vars

(* The queue numbers a message that had no body *)
LEMMA EnqueueKeepsBodies ==
    ASSUME TypeOK, NEW k \in Messages, NEW e, Enqueue(k, e)
    PROVE  \A m \in Messages : body[m] # None => body'[m] = body[m]
BY DEF TypeOK, Enqueue, IsNext

(* Late answers are harmless: a markQueued or noteQueueFailure that comes  *)
(* after the consumer delivered the row, a release or a completion of a    *)
(* replay that another request has completed, a Recover of the cron.       *)
THEOREM NothingTakenBackHolds == Spec => NothingTakenBack
<1> DEFINE P == /\ settled \subseteq settled'
                /\ \A a \in Audits :
                      /\ outbox[a] = "delivered" => outbox'[a] = "delivered"
                      /\ outbox[a] # "none" => outbox'[a] # "none"
                      /\ replayOf[a] # None => replayOf'[a] = replayOf[a]
                /\ \A m \in Messages :
                      /\ quarantine[m] = "replayed"
                            => quarantine'[m] = "replayed"
                      /\ body[m] # None => body'[m] = body[m]
<1>1. IInv /\ [Next]_vars => [P]_vars
  <2> SUFFICES ASSUME IInv, Next PROVE P
    OBVIOUS
  <2>1. settled \subseteq settled'
    <3>1. [Log!AbstractNext]_<<log, dead>> /\ TypeOK
      BY LogSteps DEF IInv
    <3>2. CASE UNCHANGED logVars
      BY <3>2, Unsettled
    <3>3. CASE Log!AbstractNext
      BY <3>1, <3>3, Settles DEF Log!AbstractNext
    <3> QED  BY <3>1, <3>2, <3>3 DEF logVars
  <2> HIDE DEF P
  <2>2. CASE ProducerStep
    <3>1. UNCHANGED <<rowVars, replayOf>> /\ TypeOK
      BY <2>2 DEF ProducerStep, Insert, Redeliver, Send, SendFails, Mark, Note,
                  SendPlain, IInv
    <3>2. \A m \in Messages : body[m] # None => body'[m] = body[m]
      BY <2>2, <3>1, EnqueueKeepsBodies
         DEF ProducerStep, Insert, Redeliver, Send, SendFails, Mark, Note,
             SendPlain
    <3>3. \A a \in Audits :
             /\ outbox[a] = "delivered" => outbox'[a] = "delivered"
             /\ outbox[a] # "none" => outbox'[a] # "none"
      BY <2>2 DEF ProducerStep, Insert, Redeliver, Send, SendFails, Mark, Note,
                  SendPlain, IInv, TypeOK
    <3> QED  BY <2>1, <3>1, <3>2, <3>3 DEF P, rowVars
  <2>3. CASE ConsumerStep
    <3>1. UNCHANGED <<body, rowVars, replayOf>>
      BY <2>3 DEF ConsumerStep, Receive, ExpirePending, AppendEvent,
                  AppendThrows, Terminalize, Complete, Ack, Retry
    <3>2. \A a \in Audits :
             /\ outbox[a] = "delivered" => outbox'[a] = "delivered"
             /\ outbox[a] # "none" => outbox'[a] # "none"
      BY <2>3 DEF ConsumerStep, Receive, ExpirePending, AppendEvent,
                  AppendThrows, Terminalize, Complete, Ack, Retry
    <3> QED  BY <2>1, <3>1, <3>2 DEF P, rowVars
  <2>4. CASE DeadLetterStep
    <3>1. /\ TypeOK /\ Sent
          /\ \A w \in Workers : pc[w] \in {"resend", "release", "complete"}
                                    => msg[w] \in Messages
      BY DEF IInv, Placed
    <3>2. \A m \in Messages : body[m] # None => body'[m] = body[m]
      BY <2>4, <3>1, EnqueueKeepsBodies
         DEF DeadLetterStep, Persist, AckDeadLetter, Park, LeaseExpires,
             Recover, Claim, Resend, CompleteReplay, ResendFails, Release,
             Fails
    <3>3. \A m \in Messages : quarantine[m] = "replayed"
                                 => quarantine'[m] = "replayed"
      BY <2>4, <3>1
         DEF DeadLetterStep, Persist, AckDeadLetter, Park, LeaseExpires,
             Recover, Claim, Claimed, Resend, CompleteReplay, ResendFails,
             Release, Fails, rowVars, TypeOK
    <3>4. \A a \in Audits :
             /\ outbox[a] # "none" => outbox'[a] = outbox[a]
             /\ replayOf[a] # None => replayOf'[a] = replayOf[a]
      BY <2>4, <3>1
         DEF DeadLetterStep, Persist, AckDeadLetter, Park, LeaseExpires,
             Recover, Claim, Resend, CompleteReplay, ResendFails, Release,
             Fails, Sent, TypeOK
    <3> QED  BY <2>1, <3>2, <3>3, <3>4 DEF P
  <2> QED  BY <2>2, <2>3, <2>4 DEF Next
<1> QED  BY <1>1, IInvHolds, PTL DEF Spec, NothingTakenBack

=============================================================================
