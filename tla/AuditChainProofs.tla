--------------------------- MODULE AuditChainProofs ---------------------------
(***************************************************************************)
(* AuditChain keeps its chain intact for every set of runs and of sources, *)
(* however the runs overlap and wherever the object stops.                 *)
(*                                                                         *)
(* The argument: events only grows, so a pair (seq, prev) that once was a  *)
(* continuation of the chain always is one.  Every place that holds such a *)
(* pair (the object's head, its pending event, the pending events runs     *)
(* carry) got it from the chain, and INSERT OR IGNORE lets only one row    *)
(* take a seq.                                                             *)
(***************************************************************************)
EXTENDS AuditChain, TLAPS

-----------------------------------------------------------------------------
(* The inductive invariant *)

Carried(p) == IsPending(p) /\ Linked(p.row.seq, p.row.prev)

PendingOK(p) == p # NoPending => Carried(p)

ChainOK(c) ==
    /\ c = [next |-> c.next, lastHash |-> c.lastHash, pending |-> c.pending]
    /\ c.next \in Nat
    /\ c.next # Unset => Linked(c.next, c.lastHash)
    /\ PendingOK(c.pending)

\* What run r relies on at each of its waits
RunOK(r) ==
    /\ seen[r] # NoRow => IsRow(seen[r]) /\ seen[r] \in events
    /\ PendingOK(held[r])
    /\ pc[r] \in Waits \ {"latest", "initialize"} => chain.next # Unset
    /\ pc[r] \in {"commitExisting", "commitPending"} => seen[r] # NoRow
    /\ pc[r] \in {"findPending", "commitPending", "terminalPending", "judge",
                  "expire", "discardPending", "putPending", "insert",
                  "confirm", "commitInserted"} => Carried(held[r])
    /\ pc[r] = "commitInserted" => held[r].row \in events

TableOK == /\ \A e \in events : IsRow(e)
           /\ ChainIntact

RunVarsTyped ==
    /\ pc \in [Runs -> Waits \cup Ends]
    /\ op \in [Runs -> {"append", "terminalize"}]
    /\ source \in [Runs -> Sources]
    /\ seen = [r \in Runs |-> seen[r]]
    /\ held = [r \in Runs |-> held[r]]
    /\ settled \subseteq Sources

IInv ==
    /\ TableOK
    /\ ChainOK(chain)
    /\ deadLetters \subseteq Sources
    /\ RunVarsTyped
    /\ \A r \in Runs : RunOK(r)

-----------------------------------------------------------------------------
(* Lemmas about the object's operations on its state *)

LEMMA RowIsRow ==
    ASSUME NEW s \in Seqs, NEW m \in Sources, NEW h
    PROVE  /\ IsRow(Row(s, m, h))
           /\ Row(s, m, h).seq = s
           /\ Row(s, m, h).source = m
           /\ Row(s, m, h).prev = h
  BY DEF IsRow, Row

LEMMA CarriedMarked ==
    ASSUME NEW p, Carried(p)
    PROVE  Carried(MarkAttempted(p))
  BY DEF Carried, MarkAttempted, IsPending, Ages

LEMMA PendingReplaced ==
    ASSUME NEW c, ChainOK(c), NEW p, Carried(p)
    PROVE  /\ ChainOK([c EXCEPT !.pending = p])
           /\ [c EXCEPT !.pending = p].next = c.next
  <1> DEFINE d == [c EXCEPT !.pending = p]
  <1>1. d = [next |-> c.next, lastHash |-> c.lastHash, pending |-> p]
    BY DEF ChainOK
  <1>2. d.next = c.next /\ d.lastHash = c.lastHash /\ d.pending = p
    BY <1>1
  <1> HIDE DEF d
  <1>3. ChainOK(d)
    BY <1>1, <1>2 DEF ChainOK, PendingOK
  <1> QED BY <1>2, <1>3 DEF d

LEMMA DiscardedOK ==
    ASSUME NEW c, ChainOK(c), NEW m
    PROVE  /\ ChainOK(DiscardPending(c, m))
           /\ DiscardPending(c, m).next = c.next
           /\ ChainOK(DiscardPendingBySeq(c, m))
           /\ DiscardPendingBySeq(c, m).next = c.next
  <1> DEFINE d == [c EXCEPT !.pending = NoPending]
  <1>1. d = [next |-> c.next, lastHash |-> c.lastHash, pending |-> NoPending]
    BY DEF ChainOK
  <1>2. d.next = c.next /\ d.lastHash = c.lastHash /\ d.pending = NoPending
    BY <1>1
  <1>3. ChainOK(d)
    BY <1>1, <1>2 DEF ChainOK, PendingOK
  <1> HIDE DEF d
  <1>4. DiscardPending(c, m) \in {c, d} /\ DiscardPendingBySeq(c, m) \in {c, d}
    BY DEF DiscardPending, DiscardPendingBySeq, d
  <1> QED BY <1>2, <1>3, <1>4

LEMMA CommittedOK ==
    ASSUME NEW c, ChainOK(c), c.next # Unset,
           NEW e \in events, IsRow(e), ~CommitThrows(c, e)
    PROVE  /\ ChainOK(CommitPersisted(c, e))
           /\ CommitPersisted(c, e).next # Unset
  <1>1. CASE e.seq < c.next
    BY <1>1, DiscardedOK DEF CommitPersisted
  <1>2. CASE ~(e.seq < c.next)
    <2> DEFINE d == [next |-> e.seq + 1, lastHash |-> e.hash,
                     pending |-> NoPending]
    <2>1. CommitPersisted(c, e) = d
      BY <1>2 DEF CommitPersisted
    <2>2. e.seq \in Nat /\ e.seq + 1 \in Nat /\ e.seq + 1 # 0 /\ (e.seq + 1) - 1 = e.seq
      BY DEF IsRow, Seqs
    <2>3. Linked(e.seq + 1, e.hash)
      BY <2>2 DEF Linked
    <2>4. ChainOK(d) /\ d.next # Unset
      BY <2>2, <2>3 DEF ChainOK, PendingOK, Unset
    <2> QED BY <2>1, <2>4
  <1> QED BY <1>1, <1>2

LEMMA HeadOK ==
    ASSUME ChainOK(chain), NEW n \in Nat, NEW h, Linked(n, h), n # Unset
    PROVE  ChainOK(Headed(n, h)) /\ Headed(n, h).next # Unset
  BY DEF ChainOK, Headed

LEMMA FoundIsEvent ==
    ASSUME NEW m
    PROVE  FindPersisted(m) # NoRow => FindPersisted(m) \in events
  BY DEF FindPersisted

LEMMA LatestIsEvent == LatestPersisted # NoRow => LatestPersisted \in events
  BY DEF LatestPersisted

-----------------------------------------------------------------------------
(* Lemmas about what a step leaves alone: events only grows *)

LEMMA PendingKept ==
    ASSUME events \subseteq events', NEW p, NEW r, held'[r] = p
    PROVE  /\ Carried(p) => Carried(held[r])'
           /\ PendingOK(p) => PendingOK(held[r])'
  BY DEF PendingOK, Carried, IsPending, IsRow, Linked

LEMMA ChainKept ==
    ASSUME events \subseteq events', NEW c, ChainOK(c), chain' = c
    PROVE  ChainOK(chain)'
  BY DEF ChainOK, PendingOK, Carried, IsPending, IsRow, Linked

LEMMA TableKept ==
    ASSUME TableOK, UNCHANGED events
    PROVE  TableOK'
  BY DEF TableOK, ChainIntact, Linked, IsRow

LEMMA OtherRunKept ==
    ASSUME events \subseteq events', NEW q, RunOK(q),
           chain.next # Unset => chain'.next # Unset,
           seen'[q] = seen[q], held'[q] = held[q], pc'[q] = pc[q]
    PROVE  RunOK(q)'
  <1>1. PendingOK(held[q])' /\ (Carried(held[q]) => Carried(held[q])')
    BY PendingKept DEF RunOK
  <1> QED BY <1>1 DEF RunOK, IsRow

\* A step of run r keeps the invariant once it keeps its own parts of it
LEMMA Frame ==
    ASSUME IInv, NEW r \in Runs,
           events \subseteq events', TableOK',
           ChainOK(chain)', chain.next # Unset => chain'.next # Unset,
           deadLetters' \subseteq Sources,
           RunVarsTyped', RunOK(r)',
           \A q \in Runs \ {r} : /\ seen'[q] = seen[q]
                                 /\ held'[q] = held[q]
                                 /\ pc'[q] = pc[q]
    PROVE  IInv'
  <1>1. ASSUME NEW q \in Runs PROVE RunOK(q)'
    <2>1. CASE q = r
      BY <2>1
    <2>2. CASE q # r
      BY <2>2, OtherRunKept DEF IInv
    <2> QED BY <2>1, <2>2
  <1> QED BY <1>1 DEF IInv

LEMMA GotoKeeps ==
    ASSUME RunVarsTyped, NEW r \in Runs, NEW l \in Waits, Goto(r, l)
    PROVE  /\ pc' \in [Runs -> Waits \cup Ends]
           /\ pc'[r] = l
           /\ \A q \in Runs \ {r} : pc'[q] = pc[q]
           /\ op' \in [Runs -> {"append", "terminalize"}]
           /\ source' \in [Runs -> Sources]
           /\ settled' \subseteq Sources
  BY DEF RunVarsTyped, Goto

LEMMA EndKeeps ==
    ASSUME RunVarsTyped, NEW r \in Runs, NEW l \in Ends, End(r, l)
    PROVE  /\ RunVarsTyped'
           /\ RunOK(r)'
           /\ \A q \in Runs \ {r} : /\ seen'[q] = seen[q]
                                   /\ held'[q] = held[q]
                                   /\ pc'[q] = pc[q]
  <1>1. pc' \in [Runs -> Waits \cup Ends] /\ pc'[r] = l /\ l \notin Waits
    BY DEF RunVarsTyped, End, Waits, Ends
  <1>2. seen'[r] = NoRow /\ held'[r] = NoPending
    BY DEF RunVarsTyped, End
  <1>3. RunVarsTyped'
    BY <1>1 DEF RunVarsTyped, End
  <1>4. RunOK(r)'
    BY <1>1, <1>2 DEF RunOK, PendingOK, Waits
  <1> QED BY <1>3, <1>4 DEF RunVarsTyped, End

-----------------------------------------------------------------------------
(* The steps *)

\* A step that moves run r on, leaves the tables as they are and gives the
\* object a sound state c
LEMMA MoveKeeps ==
    ASSUME IInv, NEW r \in Runs, NEW l \in Waits, Goto(r, l),
           UNCHANGED events, deadLetters' \subseteq Sources,
           NEW c, ChainOK(c), chain' = c,
           chain.next # Unset => c.next # Unset,
           seen' = [seen EXCEPT ![r] = seen'[r]],
           held' = [held EXCEPT ![r] = held'[r]],
           RunOK(r)'
    PROVE  IInv'
  <1>1. RunVarsTyped
    BY DEF IInv
  <1>2. RunVarsTyped'
    BY <1>1, GotoKeeps DEF RunVarsTyped
  <1>3. TableOK' /\ events \subseteq events'
    BY TableKept DEF IInv
  <1>4. ChainOK(chain)'
    BY <1>3, ChainKept
  <1>5. \A q \in Runs \ {r} : /\ seen'[q] = seen[q]
                             /\ held'[q] = held[q]
                             /\ pc'[q] = pc[q]
    BY <1>1, GotoKeeps DEF RunVarsTyped
  <1> QED BY <1>2, <1>3, <1>4, <1>5, Frame

\* A step that ends run r
LEMMA EndingKeeps ==
    ASSUME IInv, NEW r \in Runs, NEW l \in Ends, End(r, l),
           UNCHANGED <<events, deadLetters>>,
           NEW c, ChainOK(c), chain' = c,
           chain.next # Unset => c.next # Unset
    PROVE  IInv'
  <1>1. RunVarsTyped
    BY DEF IInv
  <1>2. TableOK' /\ events \subseteq events'
    BY TableKept DEF IInv
  <1>3. ChainOK(chain)'
    BY <1>2, ChainKept
  <1>4. deadLetters' \subseteq Sources
    BY DEF IInv
  <1> QED BY <1>1, <1>2, <1>3, <1>4, EndKeeps, Frame

LEMMA UnblockedKeeps ==
    ASSUME IInv, NEW r \in Runs, pc[r] \in Waits \ {"latest", "initialize"},
           NEW c, ChainOK(c), c.next # Unset,
           Unblocked(r, c), UNCHANGED <<events, deadLetters>>,
           seen' = seen \/ seen' = [seen EXCEPT ![r] = NoRow]
    PROVE  IInv'
  <1> USE DEF Unset
  <1>1. /\ RunVarsTyped /\ RunOK(r) /\ deadLetters' \subseteq Sources
        /\ events \subseteq events'
    BY DEF IInv
  <1>2. /\ seen' = [seen EXCEPT ![r] = seen'[r]]
        /\ seen'[r] # NoRow => seen'[r] = seen[r]
    BY <1>1 DEF RunVarsTyped
  <1>3. ASSUME NEW l \in {"deadLetter", "draft"}, chain' = c, held' = held,
               Goto(r, l)
        PROVE  IInv'
    <2>1. l \in Waits /\ pc'[r] = l
      BY <1>1, <1>3, GotoKeeps DEF Waits
    <2>2. held' = [held EXCEPT ![r] = held'[r]] /\ held'[r] = held[r]
      BY <1>1, <1>3 DEF RunVarsTyped
    <2>3. PendingOK(held[r])'
      BY <1>1, <2>2, PendingKept DEF RunOK
    <2>4. RunOK(r)'
      BY <1>1, <1>2, <1>3, <2>1, <2>3 DEF RunOK, IsRow
    <2> QED BY <1>1, <1>2, <1>3, <2>1, <2>2, <2>4, MoveKeeps
  <1>4. CASE op[r] # "terminalize" /\ c.pending # NoPending
    <2> DEFINE p == MarkAttempted(c.pending)
               d == [c EXCEPT !.pending = p]
    <2>1. chain' = d /\ held' = [held EXCEPT ![r] = p] /\ Goto(r, "insert")
      BY <1>4, <1>1 DEF Unblocked, RunVarsTyped
    <2>2. Carried(p)
      BY <1>4, CarriedMarked DEF ChainOK, PendingOK
    <2> HIDE DEF p
    <2>3. /\ d = [next |-> c.next, lastHash |-> c.lastHash, pending |-> p]
          /\ d.next = c.next /\ d.lastHash = c.lastHash /\ d.pending = p
      BY DEF ChainOK
    <2>4. ChainOK(d) /\ d.next # Unset
      BY <2>2, <2>3 DEF ChainOK, PendingOK
    <2> HIDE DEF d
    <2>5. "insert" \in Waits /\ pc'[r] = "insert"
      BY <1>1, <2>1, GotoKeeps DEF Waits
    <2>6. held' = [held EXCEPT ![r] = held'[r]] /\ held'[r] = p
      BY <1>1, <2>1 DEF RunVarsTyped
    <2>7. PendingOK(held[r])' /\ Carried(held[r])'
      BY <1>1, <2>2, <2>6, PendingKept DEF PendingOK
    <2>8. RunOK(r)'
      BY <1>1, <1>2, <2>1, <2>4, <2>5, <2>7 DEF RunOK, IsRow
    <2> QED BY <1>1, <1>2, <2>1, <2>4, <2>5, <2>6, <2>8, MoveKeeps
  <1> QED BY <1>1, <1>3, <1>4 DEF Unblocked, RunVarsTyped

\* What a step of run r may assume, spelled out once
LEMMA Given ==
    ASSUME IInv, NEW r \in Runs
    PROVE  /\ RunVarsTyped /\ RunOK(r) /\ ChainOK(chain) /\ TableOK
           /\ deadLetters \subseteq Sources
           /\ source[r] \in Sources /\ op[r] \in {"append", "terminalize"}
           /\ \A e : e \in events => IsRow(e)
           /\ seen = [seen EXCEPT ![r] = seen[r]]
           /\ held = [held EXCEPT ![r] = held[r]]
           /\ \A x : /\ [seen EXCEPT ![r] = x][r] = x
                    /\ [held EXCEPT ![r] = x][r] = x
  BY DEF IInv, RunVarsTyped, TableOK

\* A step that only moves run r on, and perhaps reads a row into seen
LEMMA ReadKeeps ==
    ASSUME IInv, NEW r \in Runs, NEW l \in Waits, Goto(r, l),
           UNCHANGED <<events, chain, held>>, deadLetters' \subseteq Sources,
           NEW x, seen' = [seen EXCEPT ![r] = x],
           x # NoRow => x \in events,
           l \in {"commitExisting", "commitPending"} => x # NoRow,
           l \notin {"latest", "initialize"} => chain.next # Unset,
           l \in {"findPending", "commitPending", "terminalPending", "judge",
                  "expire", "discardPending", "putPending", "insert",
                  "confirm", "commitInserted"} => Carried(held[r]),
           l = "commitInserted" => held[r].row \in events
    PROVE  IInv'
  <1>1. RunOK(r) /\ RunVarsTyped /\ ChainOK(chain)
    BY Given
  <1>2. seen'[r] = x /\ held'[r] = held[r] /\ pc'[r] = l
    BY <1>1, Given, GotoKeeps
  <1>3. /\ PendingOK(held[r]) => PendingOK(held[r])'
        /\ Carried(held[r]) => Carried(held[r])'
    BY <1>2, PendingKept
  <1>4. x # NoRow => IsRow(x)
    BY Given
  <1>5. RunOK(r)'
    BY <1>1, <1>2, <1>3, <1>4 DEF RunOK, IsRow
  <1> QED BY <1>1, <1>2, <1>5, Given, MoveKeeps

LEMMA InitializeKeeps ==
    ASSUME IInv, NEW r \in Runs, Initialize(r)
    PROVE  IInv'
  <1>1. RunOK(r) /\ ChainOK(chain) /\ RunVarsTyped
    BY Given
  <1>2. ASSUME NEW n \in Nat, NEW h, Linked(n, h), n # Unset,
               chain' = Headed(n, h)
        PROVE  IInv'
    <2>1. ChainOK(Headed(n, h)) /\ Headed(n, h).next # Unset
      BY <1>1, <1>2, HeadOK
    <2>3. pc'[r] = "find" /\ "find" \in Waits /\ Goto(r, "find")
      BY <1>1, GotoKeeps DEF Initialize, Waits
    <2>4. seen'[r] = NoRow /\ held'[r] = held[r]
      BY <1>1, Given DEF Initialize
    <2>5. PendingOK(held[r])'
      BY <1>1, <2>4, PendingKept DEF Initialize, RunOK
    <2>6. RunOK(r)'
      BY <1>2, <2>1, <2>3, <2>4, <2>5 DEF RunOK
    <2> QED BY <1>2, <2>1, <2>3, <2>4, <2>6, Given, MoveKeeps DEF Initialize
  <1>3. CASE seen[r] = NoRow
    <2>1. Linked(1, GenesisHash) /\ 1 # Unset
      BY DEF Linked, Unset
    <2> QED BY <1>2, <1>3, <2>1 DEF Initialize
  <1>4. CASE seen[r] # NoRow
    <2>1. seen[r] \in events /\ seen[r].seq \in Nat
      BY <1>1, <1>4 DEF RunOK, IsRow, Seqs
    <2>2. Linked(seen[r].seq + 1, seen[r].hash) /\ seen[r].seq + 1 # Unset
      BY <2>1 DEF Linked, Unset
    <2>3. chain' = Headed(seen[r].seq + 1, seen[r].hash)
      BY <1>4 DEF Initialize
    <2>4. seen[r].seq + 1 \in Nat
      BY <2>1
    <2> QED BY <1>2, <2>2, <2>3, <2>4
  <1> QED BY <1>3, <1>4

\* CommitExisting and CommitInserted: the run ends over a row D1 holds
LEMMA CommitKeeps ==
    ASSUME IInv, NEW r \in Runs, NEW e \in events, chain.next # Unset,
           UNCHANGED <<events, deadLetters>>,
           IF CommitThrows(chain, e)
           THEN chain' = chain /\ End(r, "threw")
           ELSE chain' = CommitPersisted(chain, e) /\ End(r, "appended")
    PROVE  IInv'
  <1>1. ChainOK(chain) /\ IsRow(e) /\ "threw" \in Ends /\ "appended" \in Ends
    BY Given DEF Ends
  <1>2. CASE CommitThrows(chain, e)
    BY <1>1, <1>2, EndingKeeps
  <1>3. CASE ~CommitThrows(chain, e)
    BY <1>1, <1>3, CommittedOK, EndingKeeps
  <1> QED BY <1>2, <1>3

LEMMA CallKeeps ==
    ASSUME IInv, NEW r \in Runs, NEW o \in {"append", "terminalize"},
           NEW m \in Sources, Call(r, o, m)
    PROVE  IInv'
  <1>1. RunVarsTyped /\ RunOK(r) /\ ChainOK(chain) /\ TableOK
    BY Given
  <1>2. TableOK' /\ ChainOK(chain)'
    BY <1>1, TableKept, ChainKept DEF Call
  <1>3. RunVarsTyped' /\ \A q \in Runs \ {r} : pc'[q] = pc[q]
    BY <1>1 DEF Call, RunVarsTyped, Waits
  <1>4. pc'[r] = "latest" \/ (pc'[r] = "find" /\ chain'.next # Unset)
    BY <1>1 DEF Call, RunVarsTyped
  <1>5. PendingOK(held[r])'
    BY <1>1, PendingKept DEF Call, RunOK
  <1>6. RunOK(r)'
    BY <1>1, <1>4, <1>5 DEF RunOK, Call, Waits, IsRow
  <1> QED BY <1>2, <1>3, <1>6, Frame DEF Call, IInv

LEMMA DraftKeeps ==
    ASSUME IInv, NEW r \in Runs, DraftPending(r)
    PROVE  IInv'
  <1> DEFINE row == Row(chain.next, source[r], chain.lastHash)
             p == [row |-> row, attempted |-> "recent"]
  <1>1. RunOK(r) /\ ChainOK(chain) /\ RunVarsTyped /\ source[r] \in Sources
    BY Given
  <1>2. chain.next # Unset /\ chain.next \in Seqs
    BY <1>1 DEF DraftPending, RunOK, Waits, ChainOK, Unset, Seqs
  <1>3. /\ IsRow(row) /\ row.seq = chain.next /\ row.prev = chain.lastHash
    BY <1>1, <1>2, RowIsRow
  <1> HIDE DEF row
  <1>4. Carried(p)
    BY <1>1, <1>2, <1>3 DEF Carried, IsPending, Ages, ChainOK
  <1> HIDE DEF p
  <1>5. /\ held' = [held EXCEPT ![r] = p]
        /\ Goto(r, "putPending") /\ "putPending" \in Waits
        /\ UNCHANGED <<events, deadLetters, chain, seen>>
    BY DEF DraftPending, Waits, p, row
  <1>6. held'[r] = p /\ pc'[r] = "putPending" /\ seen'[r] = seen[r]
    BY <1>1, <1>5, Given, GotoKeeps
  <1>7. PendingOK(held[r])' /\ Carried(held[r])'
    BY <1>4, <1>5, <1>6, PendingKept DEF PendingOK
  <1>8. RunOK(r)'
    BY <1>1, <1>2, <1>5, <1>6, <1>7 DEF RunOK, IsRow
  <1> QED BY <1>1, <1>5, <1>6, <1>8, Given, MoveKeeps

LEMMA PutKeeps ==
    ASSUME IInv, NEW r \in Runs, PutPending(r)
    PROVE  IInv'
  <1> DEFINE p == MarkAttempted(held[r])
             d == [chain EXCEPT !.pending = p]
  <1>1. RunOK(r) /\ ChainOK(chain) /\ RunVarsTyped
    BY Given
  <1>2. chain.next # Unset /\ Carried(held[r])
    BY <1>1 DEF PutPending, RunOK, Waits
  <1>3. Carried(p)
    BY <1>2, CarriedMarked
  <1>4. /\ held' = [held EXCEPT ![r] = p] /\ held'[r] = p
        /\ Goto(r, "insert") /\ "insert" \in Waits
        /\ UNCHANGED <<events, deadLetters, seen>>
        /\ chain' = d
    BY <1>1, Given DEF PutPending, Waits, RunVarsTyped
  <1> HIDE DEF p
  <1>5. ChainOK(d) /\ d.next = chain.next
    BY <1>1, <1>3, PendingReplaced
  <1> HIDE DEF d
  <1>6. pc'[r] = "insert" /\ seen'[r] = seen[r]
    BY <1>1, <1>4, GotoKeeps
  <1>7. PendingOK(held[r])' /\ Carried(held[r])'
    BY <1>3, <1>4, PendingKept DEF PendingOK
  <1>8. RunOK(r)'
    BY <1>1, <1>2, <1>4, <1>5, <1>6, <1>7 DEF RunOK, IsRow
  <1> QED BY <1>1, <1>4, <1>5, <1>8, Given, MoveKeeps

LEMMA JudgeKeeps ==
    ASSUME IInv, NEW r \in Runs, JudgePending(r)
    PROVE  IInv'
  <1> DEFINE d == [chain EXCEPT !.pending = MarkAttempted(held[r])]
  <1>1. RunOK(r) /\ ChainOK(chain) /\ RunVarsTyped /\ deadLetters \subseteq Sources
    BY Given
  <1>2. Carried(held[r]) /\ chain.next # Unset
    BY <1>1 DEF JudgePending, RunOK, Waits
  <1>3. held[r].attempted \in Ages
    BY <1>2 DEF Carried, IsPending
  <1>4. "blocked" \in Ends /\ "expire" \in Waits
    BY DEF Ends, Waits
  <1>5. CASE held[r].attempted = "unknown"
    <2>1. ChainOK(d) /\ d.next = chain.next
      BY <1>1, <1>2, CarriedMarked, PendingReplaced
    <2>2. chain' = d /\ End(r, "blocked") /\ UNCHANGED <<events, deadLetters>>
      BY <1>5 DEF JudgePending
    <2> HIDE DEF d
    <2> QED BY <1>4, <2>1, <2>2, EndingKeeps
  <1>6. CASE held[r].attempted = "recent"
    <2>1. chain' = chain /\ End(r, "blocked") /\ UNCHANGED <<events, deadLetters>>
      BY <1>6 DEF JudgePending
    <2> QED BY <1>1, <1>4, <2>1, EndingKeeps
  <1>7. CASE held[r].attempted = "stale"
    <2>1. /\ Goto(r, "expire")
          /\ UNCHANGED <<events, deadLetters, chain, seen, held>>
      BY <1>7 DEF JudgePending
    <2>2. seen' = [seen EXCEPT ![r] = seen[r]] /\ (seen[r] # NoRow => seen[r] \in events)
      BY <1>1, <2>1, Given DEF RunOK
    <2> QED BY <1>1, <1>2, <1>4, <2>1, <2>2, ReadKeeps
  <1> QED BY <1>3, <1>5, <1>6, <1>7 DEF Ages

LEMMA InsertKeeps ==
    ASSUME IInv, NEW r \in Runs, InsertEvent(r)
    PROVE  IInv'
  <1> DEFINE row == held[r].row
  <1>1. /\ RunOK(r) /\ ChainOK(chain) /\ RunVarsTyped /\ TableOK
        /\ deadLetters \subseteq Sources
    BY Given
  <1>2. Carried(held[r]) /\ chain.next # Unset
    BY <1>1 DEF InsertEvent, RunOK, Waits
  <1>3. IsRow(row) /\ Linked(row.seq, row.prev)
    BY <1>2 DEF Carried, IsPending
  <1>4. events \subseteq events'
    BY DEF InsertEvent
  <1>5. TableOK'
    <2>1. CASE events' = events
      BY <1>1, <2>1, TableKept
    <2>2. CASE events' # events
      <3>1. /\ events' = events \cup {row}
            /\ \A e \in events : e.seq # row.seq /\ e.source # row.source
        BY <2>2 DEF InsertEvent
      <3> HIDE DEF row
      <3>2. \A e \in events' : IsRow(e)'
        BY <1>1, <1>3, <3>1 DEF TableOK, IsRow
      <3>3. \A e \in events' : Linked(e.seq, e.prev)'
        BY <1>1, <1>3, <3>1 DEF TableOK, ChainIntact, Linked
      <3>4. \A s \in 1..row.seq : \E f \in events' : f.seq = s
        <4> SUFFICES ASSUME NEW s \in 1..row.seq
                     PROVE  \E f \in events' : f.seq = s
          OBVIOUS
        <4>1. row.seq \in Nat /\ s \in Nat /\ row \in events'
          BY <1>3, <3>1 DEF IsRow, Seqs
        <4>2. CASE s = row.seq
          BY <4>1, <4>2
        <4>3. CASE s # row.seq
          <5>1. row.seq # 1
            BY <4>1, <4>3
          <5>2. PICK e \in events : e.seq = row.seq - 1
            BY <1>3, <5>1 DEF Linked
          <5>3. s \in 1..e.seq
            BY <4>1, <4>3, <5>2
          <5> QED BY <1>1, <1>4, <5>3 DEF TableOK, ChainIntact
        <4> QED BY <4>2, <4>3
      <3>5. \A e \in events' : \A s \in 1..e.seq : \E f \in events' : f.seq = s
        BY <1>1, <3>1, <3>4 DEF TableOK, ChainIntact
      <3>6. \A e, f \in events' : e.seq = f.seq \/ e.source = f.source => e = f
        BY <1>1, <3>1 DEF TableOK, ChainIntact
      <3> QED BY <3>2, <3>3, <3>5, <3>6 DEF TableOK, ChainIntact
    <2> QED BY <2>1, <2>2
  <1>6. ChainOK(chain)'
    BY <1>1, <1>4, ChainKept DEF InsertEvent
  <1>7. Goto(r, "confirm") /\ "confirm" \in Waits /\ pc'[r] = "confirm"
    BY <1>1, GotoKeeps DEF InsertEvent, Waits
  <1>8. UNCHANGED <<deadLetters, chain, seen, held>>
    BY DEF InsertEvent
  <1>9. PendingOK(held[r])' /\ Carried(held[r])'
    BY <1>1, <1>2, <1>4, <1>8, PendingKept DEF RunOK
  <1>10. RunOK(r)'
    BY <1>1, <1>2, <1>4, <1>7, <1>8, <1>9 DEF RunOK, IsRow
  <1>11. RunVarsTyped' /\ \A q \in Runs \ {r} : pc'[q] = pc[q]
    BY <1>1, <1>7, <1>8, GotoKeeps DEF RunVarsTyped
  <1> QED BY <1>1, <1>4, <1>5, <1>6, <1>8, <1>10, <1>11, Frame

LEMMA RunStepKeeps ==
    ASSUME IInv, NEW r \in Runs, RunStep(r)
    PROVE  IInv'
  <1> USE DEF Waits, Ends
  <1>1. /\ RunVarsTyped /\ RunOK(r) /\ ChainOK(chain) /\ TableOK
        /\ deadLetters \subseteq Sources
        /\ source[r] \in Sources
        /\ seen = [seen EXCEPT ![r] = seen[r]]
        /\ seen[r] # NoRow => seen[r] \in events
    BY Given DEF RunOK
  <1>2. CASE ReadLatest(r)
    BY <1>1, <1>2, LatestIsEvent, ReadKeeps DEF ReadLatest
  <1>3. CASE Initialize(r)
    BY <1>3, InitializeKeeps
  <1>4. CASE FindExisting(r)
    <2>1. chain.next # Unset
      BY <1>1, <1>4 DEF FindExisting, RunOK
    <2>2. /\ seen' = [seen EXCEPT ![r] = FindPersisted(source[r])]
          /\ seen'[r] = FindPersisted(source[r])
          /\ UNCHANGED <<events, deadLetters, chain, held>>
      BY <1>4, Given DEF FindExisting
    <2>3. CASE FindPersisted(source[r]) # NoRow
      <3>1. Goto(r, "commitExisting")
        BY <1>4, <2>2, <2>3 DEF FindExisting
      <3> QED BY <1>1, <2>1, <2>2, <2>3, <3>1, FoundIsEvent, ReadKeeps
    <2>4. CASE FindPersisted(source[r]) = NoRow
      <3>1. Goto(r, "terminal")
        BY <1>4, <2>2, <2>4 DEF FindExisting
      <3> QED BY <1>1, <2>1, <2>2, <2>4, <3>1, ReadKeeps
    <2> QED BY <2>3, <2>4
  <1>5. CASE CommitExisting(r)
    BY <1>1, <1>5, CommitKeeps DEF CommitExisting, RunOK
  <1>6. CASE CheckTerminal(r)
    <2>1. chain.next # Unset
      BY <1>1, <1>6 DEF CheckTerminal, RunOK
    <2>2. UNCHANGED <<events, deadLetters, chain>>
      BY <1>6 DEF CheckTerminal
    <2>3. \/ End(r, "terminated")
          \/ Goto(r, "pendingCheck") /\ UNCHANGED <<seen, held>>
          \/ Goto(r, "discardOwn") /\ UNCHANGED <<seen, held>>
      BY <1>6 DEF CheckTerminal
    <2>4. CASE End(r, "terminated")
      BY <1>1, <2>2, <2>4, EndingKeeps
    <2>5. ASSUME NEW l \in {"pendingCheck", "discardOwn"}, Goto(r, l),
                 UNCHANGED <<seen, held>>
          PROVE  IInv'
      <3>1. seen' = [seen EXCEPT ![r] = seen[r]]
        BY <1>1, <2>5
      <3>2. CASE l = "pendingCheck"
        BY <1>1, <2>1, <2>2, <2>5, <3>1, <3>2, ReadKeeps
      <3>3. CASE l = "discardOwn"
        BY <1>1, <2>1, <2>2, <2>5, <3>1, <3>3, ReadKeeps
      <3> QED BY <3>2, <3>3
    <2> QED BY <2>3, <2>4, <2>5
  <1>7. CASE CheckPending(r)
    <2>1. chain.next # Unset /\ pc[r] = "pendingCheck"
      BY <1>1, <1>7 DEF CheckPending, RunOK
    <2>2. CASE chain.pending = NoPending \/ chain.pending.row.source = source[r]
      BY <1>1, <1>7, <2>1, <2>2, UnblockedKeeps DEF CheckPending
    <2>3. CASE ~(chain.pending = NoPending \/ chain.pending.row.source = source[r])
      <3>1. /\ held' = [held EXCEPT ![r] = chain.pending]
            /\ Goto(r, "findPending")
            /\ UNCHANGED <<events, deadLetters, chain, seen>>
        BY <1>7, <2>3 DEF CheckPending
      <3>2. held'[r] = chain.pending /\ pc'[r] = "findPending"
        BY <1>1, <3>1, Given, GotoKeeps
      <3>3. PendingOK(held[r])' /\ Carried(held[r])'
        BY <1>1, <2>3, <3>1, <3>2, PendingKept DEF ChainOK, PendingOK
      <3>4. RunOK(r)'
        BY <1>1, <2>1, <3>1, <3>2, <3>3 DEF RunOK, IsRow
      <3>5. /\ held' = [held EXCEPT ![r] = held'[r]]
            /\ seen' = [seen EXCEPT ![r] = seen'[r]]
        BY <1>1, <3>1, <3>2
      <3> QED BY <1>1, <3>1, <3>4, <3>5, MoveKeeps
    <2> QED BY <2>2, <2>3
  <1>8. CASE FindPending(r)
    <2> DEFINE x == FindPersisted(held[r].row.source)
    <2>1. chain.next # Unset /\ Carried(held[r])
      BY <1>1, <1>8 DEF FindPending, RunOK
    <2>2. /\ seen' = [seen EXCEPT ![r] = x] /\ seen'[r] = x
          /\ UNCHANGED <<events, deadLetters, chain, held>>
      BY <1>8, Given DEF FindPending
    <2>3. Goto(r, IF x # NoRow THEN "commitPending" ELSE "terminalPending")
      BY <1>8, <2>2 DEF FindPending
    <2>4. x # NoRow => x \in events
      BY FoundIsEvent
    <2> HIDE DEF x
    <2>5. CASE x # NoRow
      BY <1>1, <2>1, <2>2, <2>3, <2>4, <2>5, ReadKeeps
    <2>6. CASE x = NoRow
      BY <1>1, <2>1, <2>2, <2>3, <2>4, <2>6, ReadKeeps
    <2> QED BY <2>5, <2>6
  <1>9. CASE CommitPending(r)
    <2>1. /\ chain.next # Unset /\ pc[r] = "commitPending"
          /\ seen[r] \in events /\ IsRow(seen[r])
      BY <1>1, <1>9 DEF CommitPending, RunOK
    <2>2. CASE CommitThrows(chain, seen[r])
      BY <1>1, <1>9, <2>2, EndingKeeps DEF CommitPending
    <2>3. CASE ~CommitThrows(chain, seen[r])
      BY <1>1, <1>9, <2>1, <2>3, CommittedOK, UnblockedKeeps DEF CommitPending
    <2> QED BY <2>2, <2>3
  <1>10. CASE CheckPendingTerminal(r)
    <2>1. /\ chain.next # Unset /\ Carried(held[r])
          /\ UNCHANGED <<events, deadLetters, chain, seen, held>>
      BY <1>1, <1>10 DEF CheckPendingTerminal, RunOK
    <2>2. Goto(r, "discardPending") \/ Goto(r, "judge")
      BY <1>10 DEF CheckPendingTerminal
    <2>3. seen' = [seen EXCEPT ![r] = seen[r]]
      BY <1>1, <2>1
    <2> QED BY <1>1, <2>1, <2>2, <2>3, ReadKeeps
  <1>11. CASE JudgePending(r)
    BY <1>11, JudgeKeeps
  <1>12. CASE ExpirePending(r)
    <2>1. /\ chain.next # Unset /\ Carried(held[r])
          /\ UNCHANGED <<events, chain, seen, held>>
          /\ Goto(r, "discardPending")
      BY <1>1, <1>12 DEF ExpirePending, RunOK
    <2>2. deadLetters' \subseteq Sources
      BY <1>1, <1>12, <2>1 DEF ExpirePending, Carried, IsPending, IsRow
    <2>3. seen' = [seen EXCEPT ![r] = seen[r]]
      BY <1>1, <2>1
    <2> QED BY <1>1, <2>1, <2>2, <2>3, ReadKeeps
  <1>13. CASE DiscardBlocker(r)
    <2>1. chain.next # Unset /\ pc[r] = "discardPending"
      BY <1>1, <1>13 DEF DiscardBlocker, RunOK
    <2> QED BY <1>1, <1>13, <2>1, DiscardedOK, UnblockedKeeps DEF DiscardBlocker
  <1>14. CASE DraftPending(r)
    BY <1>14, DraftKeeps
  <1>15. CASE PutPending(r)
    BY <1>15, PutKeeps
  <1>16. CASE InsertEvent(r)
    BY <1>16, InsertKeeps
  <1>17. CASE ConfirmInsert(r)
    <2>1. chain.next # Unset /\ Carried(held[r]) /\ UNCHANGED <<events, deadLetters, chain>>
      BY <1>1, <1>17 DEF ConfirmInsert, RunOK
    <2>2. \/ End(r, "threw")
          \/ /\ Goto(r, "commitInserted") /\ UNCHANGED <<seen, held>>
             /\ held[r].row \in events
      BY <1>17, FoundIsEvent DEF ConfirmInsert
    <2>3. CASE End(r, "threw")
      BY <1>1, <2>1, <2>3, EndingKeeps
    <2>4. CASE /\ Goto(r, "commitInserted") /\ UNCHANGED <<seen, held>>
               /\ held[r].row \in events
      <3>1. seen' = [seen EXCEPT ![r] = seen[r]]
        BY <1>1, <2>4
      <3> QED BY <1>1, <2>1, <2>4, <3>1, ReadKeeps
    <2> QED BY <2>2, <2>3, <2>4
  <1>18. CASE CommitInserted(r)
    BY <1>1, <1>18, CommitKeeps DEF CommitInserted, RunOK
  <1>19. CASE RecordDeadLetter(r)
    <2>1. /\ chain.next # Unset /\ UNCHANGED <<events, chain, seen, held>>
          /\ Goto(r, "discardOwn") /\ deadLetters' \subseteq Sources
      BY <1>1, <1>19 DEF RecordDeadLetter, RunOK
    <2>2. seen' = [seen EXCEPT ![r] = seen[r]]
      BY <1>1, <2>1
    <2> QED BY <1>1, <2>1, <2>2, ReadKeeps
  <1>20. CASE DiscardOwn(r)
    BY <1>1, <1>20, DiscardedOK, EndingKeeps DEF DiscardOwn
  <1> QED
    BY <1>2, <1>3, <1>4, <1>5, <1>6, <1>7, <1>8, <1>9, <1>10, <1>11, <1>12,
       <1>13, <1>14, <1>15, <1>16, <1>17, <1>18, <1>19, <1>20 DEF RunStep

LEMMA LoseRunsKeeps ==
    ASSUME IInv, LoseRuns, NEW c, ChainOK(c), chain' = c
    PROVE  IInv'
  <1>1. /\ RunVarsTyped /\ ChainOK(chain) /\ TableOK /\ deadLetters' \subseteq Sources
        /\ UNCHANGED events
    BY DEF IInv, LoseRuns
  <1>2. TableOK' /\ ChainOK(chain)'
    BY <1>1, TableKept, ChainKept
  <1>3. RunVarsTyped'
    BY <1>1 DEF RunVarsTyped, LoseRuns, Ends, Waits
  <1>4. ASSUME NEW r \in Runs PROVE RunOK(r)'
    <2>1. seen'[r] = NoRow /\ held'[r] = NoPending /\ pc'[r] \in Ends
      BY <1>4 DEF LoseRuns, Ends
    <2> QED BY <2>1 DEF RunOK, PendingOK, Ends, Waits
  <1> QED BY <1>1, <1>2, <1>3, <1>4 DEF IInv

LEMMA OlderKept ==
    ASSUME NEW p
    PROVE  /\ Carried(p) => Carried(Older(p))
           /\ PendingOK(p) => PendingOK(Older(p))
  <1>1. Carried(p) => Carried(Older(p))
    BY DEF Carried, IsPending, Older, Ages
  <1>2. Older(p) = p \/ p # NoPending
    BY DEF Older
  <1> QED BY <1>1, <1>2 DEF PendingOK

LEMMA WindowKeeps ==
    ASSUME IInv, WindowPasses
    PROVE  IInv'
  <1> DEFINE p == Older(chain.pending)
             d == [chain EXCEPT !.pending = p]
  <1>1. /\ RunVarsTyped /\ ChainOK(chain) /\ TableOK /\ deadLetters' \subseteq Sources
        /\ UNCHANGED <<events, pc, op, source, seen, settled>>
    BY DEF IInv, WindowPasses
  <1>2. PendingOK(p)
    BY <1>1, OlderKept DEF ChainOK
  <1>3. d = [next |-> chain.next, lastHash |-> chain.lastHash, pending |-> p]
    BY <1>1 DEF ChainOK
  <1> HIDE DEF p
  <1>4. ChainOK(d) /\ d.next = chain.next /\ chain' = d
    BY <1>1, <1>2, <1>3 DEF ChainOK, WindowPasses, p
  <1> HIDE DEF d
  <1>5. TableOK' /\ ChainOK(chain)'
    BY <1>1, <1>4, TableKept, ChainKept
  <1>6. RunVarsTyped'
    BY <1>1 DEF RunVarsTyped, WindowPasses
  <1>7. ASSUME NEW r \in Runs PROVE RunOK(r)'
    <2>1. held'[r] = Older(held[r]) /\ RunOK(r)
      BY DEF WindowPasses, IInv
    <2>2. /\ PendingOK(held[r])'
          /\ Carried(held[r]) => Carried(held[r])'
      BY <1>1, <2>1, OlderKept, PendingKept DEF RunOK
    <2>3. held'[r].row = held[r].row
      BY <2>1 DEF Older, RunOK
    <2> QED BY <1>1, <1>4, <2>1, <2>2, <2>3 DEF RunOK, IsRow
  <1> QED BY <1>1, <1>5, <1>6, <1>7 DEF IInv

LEMMA FailureKeeps ==
    ASSUME IInv, Failure
    PROVE  IInv'
  <1>1. ChainOK(chain) /\ \A r \in Runs : RunOK(r)
    BY DEF IInv
  <1>2. ASSUME NEW r \in Runs, D1Fails(r) PROVE IInv'
    BY <1>1, <1>2, EndingKeeps DEF D1Fails, Ends
  <1>3. ASSUME NEW r \in Runs, CrashInCommit(r) PROVE IInv'
    <2> DEFINE e == IF pc[r] = "commitInserted" THEN held[r].row ELSE seen[r]
    <2>1. /\ chain' = Headed(e.seq + 1, e.hash) /\ LoseRuns
      BY <1>3 DEF CrashInCommit
    <2>2. e \in events
      BY <1>1, <1>3 DEF CrashInCommit, RunOK
    <2> HIDE DEF e
    <2>3. e.seq \in Nat
      BY <2>2 DEF IInv, TableOK, IsRow, Seqs
    <2>4. Linked(e.seq + 1, e.hash) /\ e.seq + 1 \in Nat /\ e.seq + 1 # Unset
      BY <2>2, <2>3 DEF Linked, Unset
    <2> QED BY <1>1, <2>1, <2>4, HeadOK, LoseRunsKeeps
  <1>4. ASSUME Crash PROVE IInv'
    BY <1>1, <1>4, LoseRunsKeeps DEF Crash
  <1> QED BY <1>2, <1>3, <1>4 DEF Failure

-----------------------------------------------------------------------------
(* The theorems *)

THEOREM InitHolds == Init => IInv
  <1> SUFFICES ASSUME Init PROVE IInv
    OBVIOUS
  <1> USE DEF Unset, Seqs
  <1>1. ASSUME NEW m \in Sources
        PROVE  /\ IsRow(Row(1, m, GenesisHash))
               /\ Row(1, m, GenesisHash).seq = 1
               /\ Row(1, m, GenesisHash).prev = GenesisHash
    BY RowIsRow
  <1>2. Linked(1, GenesisHash)
    BY DEF Linked
  <1>3. TableOK
    <2>1. CASE events = {}
      BY <2>1 DEF TableOK, ChainIntact
    <2>2. CASE events # {}
      <3>1. PICK m \in Sources : events = {Row(1, m, GenesisHash)}
        BY <2>2 DEF Init
      <3>2. \A e \in events : e = Row(1, m, GenesisHash)
        BY <3>1
      <3>3. \A e \in events : IsRow(e) /\ e.seq = 1 /\ e.prev = GenesisHash
        BY <1>1, <3>2
      <3>4. \A e \in events : \A s \in 1..e.seq : \E f \in events : f.seq = s
        BY <3>3
      <3> QED BY <1>2, <3>2, <3>3, <3>4 DEF TableOK, ChainIntact
    <2> QED BY <2>1, <2>2
  <1>4. ChainOK(chain)
    <2>1. CASE chain = [next |-> Unset, lastHash |-> GenesisHash, pending |-> NoPending]
      BY <2>1 DEF ChainOK, PendingOK
    <2>2. ASSUME NEW m \in Sources,
                 chain = [next |-> 1, lastHash |-> GenesisHash,
                          pending |-> [row |-> Row(1, m, GenesisHash),
                                       attempted |-> "unknown"]]
          PROVE  ChainOK(chain)
      <3>1. Carried(chain.pending)
        BY <1>1, <1>2, <2>2 DEF Carried, IsPending, Ages
      <3> QED BY <1>2, <2>2, <3>1 DEF ChainOK, PendingOK
    <2> QED BY <2>1, <2>2 DEF Init
  <1>5. deadLetters \subseteq Sources /\ RunVarsTyped
    BY DEF Init, RunVarsTyped, Ends
  <1>6. \A r \in Runs : RunOK(r)
    BY DEF Init, RunOK, PendingOK, Waits
  <1> QED BY <1>3, <1>4, <1>5, <1>6 DEF IInv

THEOREM StepHolds == IInv /\ [Next]_vars => IInv'
  <1> SUFFICES ASSUME IInv, [Next]_vars PROVE IInv'
    OBVIOUS
  <1>1. ASSUME NEW r \in Runs, NEW o \in {"append", "terminalize"},
               NEW m \in Sources, Call(r, o, m)
        PROVE  IInv'
    BY <1>1, CallKeeps
  <1>2. ASSUME NEW r \in Runs, RunStep(r) PROVE IInv'
    BY <1>2, RunStepKeeps
  <1>3. CASE Failure
    BY <1>3, FailureKeeps
  <1>4. CASE WindowPasses
    BY <1>4, WindowKeeps
  <1>5. CASE UNCHANGED vars
    <2>1. /\ TableOK' /\ ChainOK(chain)'
      BY <1>5, TableKept, ChainKept DEF vars, IInv
    <2>2. ASSUME NEW r \in Runs PROVE RunOK(r)'
      BY <1>5, OtherRunKept DEF vars, IInv
    <2> QED BY <1>5, <2>1, <2>2 DEF vars, IInv, RunVarsTyped
  <1> QED BY <1>1, <1>2, <1>3, <1>4, <1>5 DEF Next

THEOREM IInvHolds == Spec => []IInv
  BY InitHolds, StepHolds, PTL DEF Spec

\* AuditSeqDO stores well-formed rows, pending events and run state.
THEOREM TypeCorrect == Spec => []TypeOK
  <1>1. IInv => TypeOK
    <2> SUFFICES ASSUME IInv PROVE TypeOK
      OBVIOUS
    <2>1. \A r \in Runs : /\ seen[r] = NoRow \/ IsRow(seen[r])
                          /\ held[r] = NoPending \/ IsPending(held[r])
      BY DEF IInv, RunOK, PendingOK, Carried
    <2> QED BY <2>1 DEF IInv, TypeOK, TableOK, ChainOK, PendingOK, Carried,
                        RunVarsTyped
  <1> QED BY <1>1, IInvHolds, PTL

\* Whatever the overlap of append and terminalize calls, wherever D1 fails and
\* the object restarts, audit_events is a gap-free chain of linked rows.
THEOREM ChainStaysIntact == Spec => []ChainIntact
  <1>1. IInv => ChainIntact
    BY DEF IInv, TableOK
  <1> QED BY <1>1, IInvHolds, PTL

\* commitPersisted and initialize move next only over a row D1 holds.
THEOREM HeadStaysConfirmed == Spec => []HeadConfirmed
  <1>1. IInv => HeadConfirmed
    BY DEF IInv, ChainOK, HeadConfirmed
  <1> QED BY <1>1, IInvHolds, PTL

=============================================================================
