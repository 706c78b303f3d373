------------------------------ MODULE AuditChain ------------------------------
(***************************************************************************)
(* The per-tenant audit hash chain: the Durable Object AuditSeqDO and the  *)
(* two D1 tables it writes, audit_events and audit_dead_letters.           *)
(*                                                                         *)
(* A "run" is one call of append() or terminalize() in progress.  The      *)
(* object's input gate holds other events back during a storage operation  *)
(* but not while a run waits for D1 or for a digest, so a step of this     *)
(* module is what a run does between two such waits, and runs interleave   *)
(* there.  wrangler.jsonc gives the audit queue max_concurrency 1: one     *)
(* member of Runs is the deployment; two are a call that outlives the      *)
(* consumer invocation that issued it.                                     *)
(*                                                                         *)
(* Every assignment of the object to its fields comes with the storage     *)
(* write that makes it durable, and the constructor reads all of them      *)
(* back: memory and storage are the one variable chain, and a restart      *)
(* only loses the runs.                                                    *)
(***************************************************************************)
EXTENDS Naturals, FiniteSets

CONSTANTS
    Runs,           \* slots for calls in progress
    Sources,        \* the source_message_id values of one tenant
    NoRow,          \* "undefined" where a row of audit_events is expected
    NoPending,      \* "undefined" where a pending event is expected
    GenesisHash,
    Hash(_, _, _)   \* the digest of a row, from seq, source and prevHash: the
                    \* other columns are a function of the source message

VARIABLES
    events,         \* D1 audit_events, a set of rows
    deadLetters,    \* D1 audit_dead_letters, the sources it names
    chain,          \* the object's next, lastHash and pending
    pc,             \* pc[r]: what run r waits for, or how it ended
    op,             \* op[r]: "append" or "terminalize"
    source,         \* source[r]: identity of the message run r carries
    seen,           \* seen[r]: the row its last SELECT returned
    held,           \* held[r]: the pending event it has in a local variable
    settled         \* sources a caller was told are "appended" or "terminal"

runVars == <<pc, op, source, seen, held>>
vars == <<events, deadLetters, chain, pc, op, source, seen, held, settled>>

-----------------------------------------------------------------------------
(* Data *)

Unset == 0          \* next is absent from the storage of a new object
Seqs == Nat \ {0}
Ages == {"unknown", "recent", "stale"}   \* attemptedAt against the stale window

Row(seq, m, prev) ==
    [seq |-> seq, source |-> m, prev |-> prev, hash |-> Hash(seq, m, prev)]

IsRow(e) == /\ e.seq \in Seqs
            /\ e.source \in Sources
            /\ e = Row(e.seq, e.source, e.prev)

IsPending(p) == /\ p = [row |-> p.row, attempted |-> p.attempted]
                /\ IsRow(p.row)
                /\ p.attempted \in Ages

Waits == {"latest", "initialize", "find", "commitExisting", "terminal",
          "pendingCheck", "findPending", "commitPending", "terminalPending",
          "judge", "expire", "discardPending", "draft", "putPending", "insert",
          "confirm", "commitInserted", "deadLetter", "discardOwn"}
Ends == {"idle", "appended", "blocked", "terminated", "threw"}

D1Calls == {"latest", "find", "terminal", "findPending", "terminalPending",
            "expire", "insert", "confirm", "deadLetter"}

\* findPersistedEvent: the row of source m, at most one by the unique index
FindPersisted(m) ==
    IF \E e \in events : e.source = m
    THEN CHOOSE e \in events : e.source = m
    ELSE NoRow

\* latestPersistedEvent: ORDER BY seq DESC LIMIT 1
LatestPersisted ==
    LET Last(e) == \A f \in events : f.seq <= e.seq
    IN IF \E e \in events : Last(e) THEN CHOOSE e \in events : Last(e) ELSE NoRow

\* discardPending and discardPendingBySeq, on a value of chain
DiscardPending(c, m) ==
    IF c.pending # NoPending /\ c.pending.row.source = m
    THEN [c EXCEPT !.pending = NoPending]
    ELSE c

DiscardPendingBySeq(c, s) ==
    IF c.pending # NoPending /\ c.pending.row.seq = s
    THEN [c EXCEPT !.pending = NoPending]
    ELSE c

\* commitPersisted throws when the row lies beyond next
CommitThrows(c, e) == e.seq > c.next

\* Mutant: lastHash is not carried on
CommitKeepsHash(c, e) ==
    IF e.seq < c.next
    THEN DiscardPendingBySeq(c, e.seq)
    ELSE [next |-> e.seq + 1, lastHash |-> c.lastHash, pending |-> NoPending]

CommitPersisted(c, e) ==
    IF e.seq < c.next
    THEN DiscardPendingBySeq(c, e.seq)
    ELSE [next |-> e.seq + 1, lastHash |-> e.hash, pending |-> NoPending]

\* next and lastHash are replaced together, the pending event stays
Headed(n, h) == [next |-> n, lastHash |-> h, pending |-> chain.pending]

MarkAttempted(p) == [p EXCEPT !.attempted = "recent"]

-----------------------------------------------------------------------------
(* A new tenant, an object whose storage is empty although D1 has a row, or *)
(* one whose pending event was stored before attemptedAt existed            *)
Init ==
    /\ \/ /\ events \in {{}} \cup {{Row(1, m, GenesisHash)} : m \in Sources}
          /\ chain = [next |-> Unset, lastHash |-> GenesisHash,
                      pending |-> NoPending]
       \/ /\ events = {}
          /\ \E m \in Sources :
                chain = [next |-> 1, lastHash |-> GenesisHash,
                         pending |-> [row |-> Row(1, m, GenesisHash),
                                      attempted |-> "unknown"]]
    /\ deadLetters = {}
    /\ pc = [r \in Runs |-> "idle"]
    /\ op = [r \in Runs |-> "append"]
    /\ source \in [Runs -> Sources]
    /\ seen = [r \in Runs |-> NoRow]
    /\ held = [r \in Runs |-> NoPending]
    /\ settled = {}

-----------------------------------------------------------------------------
(* Control: every action below is one of these three ends of a step *)

Goto(r, l) == /\ pc' = [pc EXCEPT ![r] = l]
              /\ UNCHANGED <<op, source, settled>>

\* append() or terminalize() returns, or throws
End(r, l) == /\ pc' = [pc EXCEPT ![r] = l]
             /\ settled' = IF l \in {"appended", "terminated"}
                           THEN settled \cup {source[r]}
                           ELSE settled
             /\ seen' = [seen EXCEPT ![r] = NoRow]
             /\ held' = [held EXCEPT ![r] = NoPending]
             /\ UNCHANGED <<op, source>>

\* isBlockedByPending returned false and left the object in state c: append
\* builds a pending event, or retries the one that is there, whoever's it is
Unblocked(r, c) ==
    CASE op[r] = "terminalize" ->
            /\ chain' = c
            /\ held' = held
            /\ Goto(r, "deadLetter")
      [] op[r] = "append" /\ c.pending = NoPending ->
            /\ chain' = c
            /\ held' = held
            /\ Goto(r, "draft")
      [] OTHER ->
            /\ chain' = [c EXCEPT !.pending = MarkAttempted(c.pending)]
            /\ held' = [held EXCEPT ![r] = MarkAttempted(c.pending)]
            /\ Goto(r, "insert")

-----------------------------------------------------------------------------
(* Mutants: slips the properties below must notice *)

\* append() does not call initialize()
CallUninitialized(r, o, m) ==
    /\ pc[r] \in Ends
    /\ op' = [op EXCEPT ![r] = o]
    /\ source' = [source EXCEPT ![r] = m]
    /\ pc' = [pc EXCEPT ![r] = "find"]
    /\ UNCHANGED <<events, deadLetters, chain, seen, held, settled>>

\* append() does not ask whether its source is terminal
CheckTerminalSkipped(r) ==
    /\ pc[r] = "terminal"
    /\ Goto(r, "pendingCheck")
    /\ UNCHANGED <<events, deadLetters, chain, seen, held>>

\* append() replaces whatever pending event it finds
PendingReplacedBy(r) ==
    /\ pc[r] = "pendingCheck"
    /\ Goto(r, IF op[r] = "append" THEN "draft" ELSE "deadLetter")
    /\ UNCHANGED <<events, deadLetters, chain, seen, held>>

\* another source's pending event is judged without a look into audit_events
FindPendingSkipped(r) ==
    /\ pc[r] = "findPending"
    /\ Goto(r, "terminalPending")
    /\ UNCHANGED <<events, deadLetters, chain, seen, held>>

\* a pending event of unknown age only blocks
JudgeWithoutStamp(r) ==
    /\ pc[r] = "judge"
    /\ IF held[r].attempted = "stale"
       THEN Goto(r, "expire") /\ UNCHANGED <<seen, held>>
       ELSE End(r, "blocked")
    /\ UNCHANGED <<events, deadLetters, chain>>

\* next moves on when the pending event is stored, not when D1 holds it
PutAdvances(r) ==
    /\ pc[r] = "putPending"
    /\ held' = [held EXCEPT ![r] = MarkAttempted(held[r])]
    /\ chain' = [next |-> held[r].row.seq + 1, lastHash |-> held[r].row.hash,
                 pending |-> held'[r]]
    /\ Goto(r, "insert")
    /\ UNCHANGED <<events, deadLetters, seen>>

-----------------------------------------------------------------------------
(* The call, and initialize() *)

Call(r, o, m) ==
    /\ pc[r] \in Ends
    /\ op' = [op EXCEPT ![r] = o]
    /\ source' = [source EXCEPT ![r] = m]
    /\ pc' = [pc EXCEPT ![r] = IF chain.next = Unset THEN "latest" ELSE "find"]
    /\ UNCHANGED <<events, deadLetters, chain, seen, held, settled>>

ReadLatest(r) ==
    /\ pc[r] = "latest"
    /\ seen' = [seen EXCEPT ![r] = LatestPersisted]
    /\ Goto(r, "initialize")
    /\ UNCHANGED <<events, deadLetters, chain, held>>

Initialize(r) ==
    /\ pc[r] = "initialize"
    /\ chain' = IF seen[r] = NoRow
                THEN Headed(1, GenesisHash)
                ELSE Headed(seen[r].seq + 1, seen[r].hash)
    /\ seen' = [seen EXCEPT ![r] = NoRow]
    /\ Goto(r, "find")
    /\ UNCHANGED <<events, deadLetters, held>>

(* Has this source been dealt with before? *)

FindExisting(r) ==
    /\ pc[r] = "find"
    /\ seen' = [seen EXCEPT ![r] = FindPersisted(source[r])]
    /\ Goto(r, IF seen'[r] # NoRow THEN "commitExisting" ELSE "terminal")
    /\ UNCHANGED <<events, deadLetters, chain, held>>

CommitExisting(r) ==
    /\ pc[r] = "commitExisting"
    /\ IF CommitThrows(chain, seen[r])
       THEN chain' = chain /\ End(r, "threw")
       ELSE chain' = CommitPersisted(chain, seen[r]) /\ End(r, "appended")
    /\ UNCHANGED <<events, deadLetters>>

CheckTerminal(r) ==
    /\ pc[r] = "terminal"
    /\ CASE source[r] \notin deadLetters ->
               Goto(r, "pendingCheck") /\ UNCHANGED <<seen, held>>
         [] source[r] \in deadLetters /\ op[r] = "terminalize" ->
               Goto(r, "discardOwn") /\ UNCHANGED <<seen, held>>
         [] OTHER -> End(r, "terminated")
    /\ UNCHANGED <<events, deadLetters, chain>>

(* isBlockedByPending: another source's pending event holds the seq *)

CheckPending(r) ==
    /\ pc[r] = "pendingCheck"
    /\ IF chain.pending = NoPending \/ chain.pending.row.source = source[r]
       THEN Unblocked(r, chain)
       ELSE /\ held' = [held EXCEPT ![r] = chain.pending]
            /\ chain' = chain
            /\ Goto(r, "findPending")
    /\ UNCHANGED <<events, deadLetters, seen>>

FindPending(r) ==
    /\ pc[r] = "findPending"
    /\ seen' = [seen EXCEPT ![r] = FindPersisted(held[r].row.source)]
    /\ Goto(r, IF seen'[r] # NoRow THEN "commitPending" ELSE "terminalPending")
    /\ UNCHANGED <<events, deadLetters, chain, held>>

CommitPending(r) ==
    /\ pc[r] = "commitPending"
    /\ IF CommitThrows(chain, seen[r])
       THEN chain' = chain /\ End(r, "threw")
       ELSE /\ Unblocked(r, CommitPersisted(chain, seen[r]))
            /\ seen' = [seen EXCEPT ![r] = NoRow]
    /\ UNCHANGED <<events, deadLetters>>

CheckPendingTerminal(r) ==
    /\ pc[r] = "terminalPending"
    /\ Goto(r, IF held[r].row.source \in deadLetters
               THEN "discardPending" ELSE "judge")
    /\ UNCHANGED <<events, deadLetters, chain, seen, held>>

\* attemptedAt decides, as the run read it before its two SELECTs
JudgePending(r) ==
    /\ pc[r] = "judge"
    /\ CASE held[r].attempted = "unknown" ->
               /\ chain' = [chain EXCEPT !.pending = MarkAttempted(held[r])]
               /\ End(r, "blocked")
         [] held[r].attempted = "recent" ->
               /\ chain' = chain
               /\ End(r, "blocked")
         [] held[r].attempted = "stale" ->
               /\ Goto(r, "expire")
               /\ UNCHANGED <<chain, seen, held>>
    /\ UNCHANGED <<events, deadLetters>>

ExpirePending(r) ==
    /\ pc[r] = "expire"
    /\ deadLetters' = deadLetters \cup {held[r].row.source}
    /\ Goto(r, "discardPending")
    /\ UNCHANGED <<events, chain, seen, held>>

DiscardBlocker(r) ==
    /\ pc[r] = "discardPending"
    /\ Unblocked(r, DiscardPending(chain, held[r].row.source))
    /\ UNCHANGED <<events, deadLetters, seen>>

(* createPending, insertAndConfirm, commitPersisted *)

\* next and lastHash are read after the first digest ...
DraftPending(r) ==
    /\ pc[r] = "draft"
    /\ held' = [held EXCEPT ![r] =
                  [row |-> Row(chain.next, source[r], chain.lastHash),
                   attempted |-> "recent"]]
    /\ Goto(r, "putPending")
    /\ UNCHANGED <<events, deadLetters, chain, seen>>

\* ... and the pending event is stored after the second, which stamps it
PutPending(r) ==
    /\ pc[r] = "putPending"
    /\ held' = [held EXCEPT ![r] = MarkAttempted(held[r])]
    /\ chain' = [chain EXCEPT !.pending = held'[r]]
    /\ Goto(r, "insert")
    /\ UNCHANGED <<events, deadLetters, seen>>

\* INSERT OR IGNORE against the primary key and the unique source index
InsertEvent(r) ==
    /\ pc[r] = "insert"
    /\ events' = IF \E e \in events : \/ e.seq = held[r].row.seq
                                      \/ e.source = held[r].row.source
                 THEN events
                 ELSE events \cup {held[r].row}
    /\ Goto(r, "confirm")
    /\ UNCHANGED <<deadLetters, chain, seen, held>>

\* "insert was not observable" and "source identity collision" throw
ConfirmInsert(r) ==
    /\ pc[r] = "confirm"
    /\ IF LET persisted == FindPersisted(held[r].row.source)
          IN persisted # NoRow /\ persisted = held[r].row
       THEN Goto(r, "commitInserted") /\ UNCHANGED <<seen, held>>
       ELSE End(r, "threw")
    /\ UNCHANGED <<events, deadLetters, chain>>

CommitInserted(r) ==
    /\ pc[r] = "commitInserted"
    /\ IF CommitThrows(chain, held[r].row)
       THEN chain' = chain /\ End(r, "threw")
       ELSE chain' = CommitPersisted(chain, held[r].row) /\ End(r, "appended")
    /\ UNCHANGED <<events, deadLetters>>

(* The tail of terminalize() *)

RecordDeadLetter(r) ==
    /\ pc[r] = "deadLetter"
    /\ deadLetters' = deadLetters \cup {source[r]}
    /\ Goto(r, "discardOwn")
    /\ UNCHANGED <<events, chain, seen, held>>

DiscardOwn(r) ==
    /\ pc[r] = "discardOwn"
    /\ chain' = DiscardPending(chain, source[r])
    /\ End(r, "terminated")
    /\ UNCHANGED <<events, deadLetters>>

-----------------------------------------------------------------------------
(* Failures and time *)

\* A D1 call fails, before it took effect or after: a write is followed by a
\* wait at which its answer can still be lost
D1Fails(r) ==
    /\ pc[r] \in D1Calls \cup {"discardPending", "discardOwn"}
    /\ End(r, "threw")
    /\ UNCHANGED <<events, deadLetters, chain>>

LoseRuns ==
    /\ pc' = [r \in Runs |-> IF pc[r] \in Ends THEN pc[r] ELSE "threw"]
    /\ seen' = [r \in Runs |-> NoRow]
    /\ held' = [r \in Runs |-> NoPending]
    /\ UNCHANGED <<events, deadLetters, op, source, settled>>

\* The object is evicted or fails over; the constructor reloads chain
Crash ==
    /\ \E r \in Runs : pc[r] \notin Ends
    /\ LoseRuns
    /\ UNCHANGED chain

\* commitPersisted stores next and lastHash, then deletes pending: the object
\* may stop in between
CrashInCommit(r) ==
    /\ pc[r] \in {"commitExisting", "commitPending", "commitInserted"}
    /\ LET e == IF pc[r] = "commitInserted" THEN held[r].row ELSE seen[r]
       IN /\ e.seq = chain.next
          /\ chain' = Headed(e.seq + 1, e.hash)
    /\ LoseRuns

\* AUDIT_PENDING_STALE_MS pass: every attempt noted so far is now stale
Older(p) == IF p # NoPending /\ p.attempted = "recent"
            THEN [p EXCEPT !.attempted = "stale"]
            ELSE p

WindowPasses ==
    /\ chain' = [chain EXCEPT !.pending = Older(chain.pending)]
    /\ held' = [r \in Runs |-> Older(held[r])]
    /\ <<chain', held'>> # <<chain, held>>
    /\ UNCHANGED <<events, deadLetters, pc, op, source, seen, settled>>

-----------------------------------------------------------------------------

RunStep(r) ==
    \/ ReadLatest(r) \/ Initialize(r)
    \/ FindExisting(r) \/ CommitExisting(r) \/ CheckTerminal(r)
    \/ CheckPending(r) \/ FindPending(r) \/ CommitPending(r)
    \/ CheckPendingTerminal(r) \/ JudgePending(r) \/ ExpirePending(r)
    \/ DiscardBlocker(r)
    \/ DraftPending(r) \/ PutPending(r) \/ InsertEvent(r) \/ ConfirmInsert(r)
    \/ CommitInserted(r)
    \/ RecordDeadLetter(r) \/ DiscardOwn(r)

Failure ==
    \/ \E r \in Runs : D1Fails(r) \/ CrashInCommit(r)
    \/ Crash

Next ==
    \/ \E r \in Runs, o \in {"append", "terminalize"}, m \in Sources :
          Call(r, o, m)
    \/ \E r \in Runs : RunStep(r)
    \/ Failure
    \/ WindowPasses

Spec == Init /\ [][Next]_vars

\* A run whose wait is over goes on, and time passes.  Nothing makes a message
\* come back: it may have used up its deliveries.
FairSpec == /\ Spec
            /\ \A r \in Runs : WF_vars(RunStep(r))
            /\ WF_vars(WindowPasses)

-----------------------------------------------------------------------------
(* Properties *)

Recorded == {e.source : e \in events}

\* The variables keep their types: every row and every pending event has the
\* digest of its own columns (createPending).
TypeOK ==
    /\ \A e \in events : IsRow(e)
    /\ deadLetters \subseteq Sources
    /\ chain = [next |-> chain.next, lastHash |-> chain.lastHash,
                pending |-> chain.pending]
    /\ chain.next \in Nat
    /\ chain.pending = NoPending \/ IsPending(chain.pending)
    /\ pc \in [Runs -> Waits \cup Ends]
    /\ op \in [Runs -> {"append", "terminalize"}]
    /\ source \in [Runs -> Sources]
    /\ \A r \in Runs : seen[r] = NoRow \/ IsRow(seen[r])
    /\ \A r \in Runs : held[r] = NoPending \/ IsPending(held[r])
    /\ settled \subseteq Sources

\* (seq, prev) continues the chain that D1 holds
Linked(seq, prev) ==
    \/ seq = 1 /\ prev = GenesisHash
    \/ \E e \in events : e.seq = seq - 1 /\ e.hash = prev

\* What GET /v1/platform/audit/verify reports as chain_valid: no seq is
\* missing or used twice, and every row carries its predecessor's hash.  It
\* must hold however many runs overlap and wherever the object stops.
ChainIntact ==
    /\ \A e \in events : Linked(e.seq, e.prev)
    /\ \A e \in events : \A s \in 1..e.seq : \E f \in events : f.seq = s
    /\ \A e, f \in events : e.seq = f.seq \/ e.source = f.source => e = f

\* next advances only over an event that D1 has confirmed: the object never
\* hands out a seq or a prevHash that D1 cannot justify.
HeadConfirmed ==
    chain.next # Unset => Linked(chain.next, chain.lastHash)

\* Every event has one fate.  A caller that was told "appended" or "terminal"
\* acknowledges its queue message, so the event is then in the chain or among
\* the dead letters; and never in both: a dead letter released the seq its
\* event would have had.
OneFate ==
    /\ settled \subseteq Recorded \cup deadLetters
    /\ Recorded \cap deadLetters = {}

\* The pending event is a row D1 already holds, or the next row of the chain
\* with its place in D1 still free: otherwise no retry of it can ever succeed
\* and every source after it waits for it to go stale.
PendingAtHead ==
    chain.pending # NoPending =>
        LET row == chain.pending.row
        IN \/ row \in events
           \/ /\ row.seq = chain.next /\ row.prev = chain.lastHash
              /\ \A e \in events : e.seq # row.seq

\* The chain as the audit log it promises to be
LogOfEvents ==
    [s \in 1..Cardinality(events) |->
        (CHOOSE e \in events : e.seq = s).source]

Log == INSTANCE AuditLog WITH log <- LogOfEvents, dead <- deadLetters

ImplementsLog == Log!Spec

\* "One stuck message cannot block a tenant indefinitely": once failures stop,
\* a message the queue goes on delivering is recorded, even if the message
\* whose pending event is in its way never comes back.
Deliver(m) == \E r \in Runs : Call(r, "append", m)

NeverBlockedForGood ==
    \A m \in Sources :
        <>[][~Failure]_vars /\ SF_vars(Deliver(m))
            => <>(m \in Recorded \cup deadLetters)

=============================================================================
