------------------------ MODULE AuditChainSerialProofs ------------------------
(***************************************************************************)
(* What AuditChain promises when calls do not overlap, as max_concurrency  *)
(* 1 of the audit queue has it: one fate for every event, a pending event  *)
(* that can always be retried, and an append-only log.                     *)
(*                                                                         *)
(* The argument: a run asks D1 about its source, and about the source of   *)
(* the event in its way, before it decides their fate, and nobody else     *)
(* changes the answer meanwhile; an event reaches D1 only from the pending *)
(* place, so at most the pending event is there and not below next.        *)
(***************************************************************************)
EXTENDS AuditChainProofs, FiniteSetTheorems, SequenceTheorems

\* Calls of append() and terminalize() do not overlap (max_concurrency 1)
Serial == \A q, r \in Runs : q = r

\* "undefined" is no pending event and no row
NullsApart ==
    /\ \A p : IsPending(p) => p # NoPending
    /\ \A e : IsRow(e) => e # NoRow

-----------------------------------------------------------------------------
(* The inductive invariant *)

\* The pending event of object state c is in D1, or its place there is free
Placed(c) ==
    c.pending # NoPending =>
        \/ c.pending.row \in events
        \/ /\ c.pending.row.seq = c.next /\ c.pending.row.prev = c.lastHash
           /\ \A e \in events : /\ e.seq # c.pending.row.seq
                                /\ e.source # c.pending.row.source

\* Only the pending event can be in D1 and not below next
Above(c) ==
    IF c.next = Unset
    THEN c.pending = NoPending /\ \A e, f \in events : e = f
    ELSE \A e \in events :
             e.seq < c.next \/ (c.pending # NoPending /\ e = c.pending.row)

\* From the search for its event to the insert, a source is neither recorded
\* nor a dead letter
Blocked == {"findPending", "commitPending", "terminalPending", "judge",
            "expire", "discardPending"}
Open == {"pendingCheck", "draft", "putPending", "insert", "deadLetter"}
            \cup Blocked
Own == {"insert", "confirm", "commitInserted"}

\* What the only run knows at each of its waits
Stage(r) ==
    /\ pc[r] \in {"latest", "initialize"} => chain.next = Unset
    /\ pc[r] = "initialize" =>
           IF seen[r] = NoRow THEN events = {}
                              ELSE \A e \in events : e.seq <= seen[r].seq
    /\ pc[r] = "commitExisting" => seen[r].source = source[r]
    /\ pc[r] \in Open \cup {"terminal"} => source[r] \notin Recorded
    /\ pc[r] \in Open => source[r] \notin deadLetters
    /\ pc[r] = "discardOwn" => source[r] \in deadLetters
    /\ pc[r] \in Blocked =>
           /\ held[r] = chain.pending
           /\ held[r].row.source # source[r]
    /\ pc[r] = "commitPending" => seen[r].source = held[r].row.source
    /\ pc[r] \in {"terminalPending", "judge", "expire"} =>
           held[r].row.source \notin Recorded
    /\ pc[r] = "discardPending" => held[r].row.source \in deadLetters
    /\ pc[r] \in {"draft", "putPending"} => chain.pending = NoPending
    /\ pc[r] = "putPending" =>
           held[r].row = Row(chain.next, source[r], chain.lastHash)
    /\ pc[r] \in Own =>
           /\ held[r] = chain.pending
           /\ held[r].row.source = source[r]

SInv ==
    /\ Placed(chain)
    /\ Above(chain)
    /\ OneFate
    /\ \A r \in Runs : Stage(r)

-----------------------------------------------------------------------------
(* The object's operations on its state *)

LEMMA CommitPlaced ==
    ASSUME IInv, Placed(chain), Above(chain), chain.next # Unset,
           NEW e \in events, ~CommitThrows(chain, e)
    PROVE  /\ Placed(CommitPersisted(chain, e))
           /\ Above(CommitPersisted(chain, e))
           /\ chain.pending # NoPending /\ chain.pending.row.source = e.source
                  => CommitPersisted(chain, e).pending = NoPending
  <1> DEFINE c == CommitPersisted(chain, e)
  <1>1. /\ \A f \in events : f.seq \in Seqs
        /\ \A f \in events : f.seq = e.seq \/ f.source = e.source => f = e
        /\ chain.next \in Nat
        /\ chain = [next |-> chain.next, lastHash |-> chain.lastHash,
                    pending |-> chain.pending]
    BY DEF IInv, TableOK, ChainIntact, ChainOK, IsRow
  <1>2. CASE e.seq < chain.next /\ chain.pending # NoPending
             /\ chain.pending.row.seq = e.seq
    <2>1. c = [next |-> chain.next, lastHash |-> chain.lastHash,
               pending |-> NoPending]
      BY <1>1, <1>2 DEF CommitPersisted, DiscardPendingBySeq
    <2>2. \A f \in events : f.seq < chain.next
      BY <1>2 DEF Above
    <2> QED BY <2>1, <2>2 DEF Placed, Above
  <1>3. CASE e.seq < chain.next /\ ~(chain.pending # NoPending
             /\ chain.pending.row.seq = e.seq)
    <2>1. c = chain
      BY <1>3 DEF CommitPersisted, DiscardPendingBySeq
    <2>2. chain.pending # NoPending => chain.pending.row.source # e.source
      BY <1>1, <1>3 DEF Placed
    <2> QED BY <2>1, <2>2
  <1>4. CASE ~(e.seq < chain.next)
    <2>1. c = [next |-> e.seq + 1, lastHash |-> e.hash, pending |-> NoPending]
      BY <1>4 DEF CommitPersisted
    <2>2. e.seq \in Nat /\ e.seq # 0 /\ e.seq = chain.next
      BY <1>1, <1>4 DEF CommitThrows, Seqs
    <2>3. e = chain.pending.row
      BY <2>2 DEF Above
    <2>4. \A f \in events : f.seq < e.seq + 1
      BY <1>1, <2>2, <2>3 DEF Above, Seqs
    <2>5. e.seq + 1 # Unset
      BY <2>2 DEF Unset
    <2> HIDE DEF c
    <2>6. c.next = e.seq + 1 /\ c.pending = NoPending
      BY <2>1
    <2> QED BY <2>4, <2>5, <2>6 DEF Placed, Above, c
  <1> QED BY <1>2, <1>3, <1>4

\* The pending event of a source that D1 does not hold can go
LEMMA DiscardPlaced ==
    ASSUME IInv, Placed(chain), Above(chain), chain.next # Unset,
           NEW m, m \notin Recorded
    PROVE  /\ Placed(DiscardPending(chain, m))
           /\ Above(DiscardPending(chain, m))
           /\ chain.pending # NoPending /\ chain.pending.row.source = m
                  => DiscardPending(chain, m).pending = NoPending
  <1> DEFINE c == DiscardPending(chain, m)
  <1>1. CASE chain.pending # NoPending /\ chain.pending.row.source = m
    <2>1. c = [next |-> chain.next, lastHash |-> chain.lastHash,
               pending |-> NoPending]
      BY <1>1 DEF DiscardPending, IInv, ChainOK
    <2>2. \A f \in events : f.seq < chain.next
      BY <1>1 DEF Above, Recorded
    <2> QED BY <2>1, <2>2 DEF Placed, Above
  <1>2. CASE ~(chain.pending # NoPending /\ chain.pending.row.source = m)
    BY <1>2 DEF DiscardPending
  <1> QED BY <1>1, <1>2

\* An attempt changes the time of the pending event and nothing else
LEMMA MarkPlaced ==
    ASSUME NullsApart, NEW c, ChainOK(c), Placed(c), Above(c),
           c.pending # NoPending, NEW p, IsPending(p), p.row = c.pending.row
    PROVE  /\ Placed([c EXCEPT !.pending = p])
           /\ Above([c EXCEPT !.pending = p])
           /\ [c EXCEPT !.pending = p].pending = p
           /\ [c EXCEPT !.pending = p].next = c.next
           /\ p # NoPending
  <1> DEFINE d == [c EXCEPT !.pending = p]
  <1>1. d = [next |-> c.next, lastHash |-> c.lastHash, pending |-> p]
    BY DEF ChainOK
  <1>2. d.next = c.next /\ d.lastHash = c.lastHash /\ d.pending = p
    BY <1>1
  <1>3. p # NoPending
    BY DEF NullsApart
  <1> HIDE DEF d
  <1>4. Placed(d)
    BY <1>2, <1>3 DEF Placed
  <1>5. Above(d)
    BY <1>2, <1>3 DEF Above
  <1> QED BY <1>2, <1>3, <1>4, <1>5 DEF d

-----------------------------------------------------------------------------
(* The ends of a step *)

LEMMA PlacesKept ==
    ASSUME UNCHANGED events, NEW c, chain' = c, Placed(c), Above(c)
    PROVE  Placed(chain)' /\ Above(chain)'
  BY DEF Placed, Above

\* The run goes on to l, and knows there what it must
LEMMA MoveSerial ==
    ASSUME Serial, SInv, NEW r \in Runs, NEW l, Goto(r, l),
           UNCHANGED <<events, deadLetters>>,
           NEW c, chain' = c, Placed(c), Above(c),
           Stage(r)'
    PROVE  SInv'
  <1>1. Placed(chain)' /\ Above(chain)'
    BY PlacesKept
  <1>2. OneFate'
    BY DEF SInv, OneFate, Recorded, Goto
  <1>3. \A q \in Runs : Stage(q)'
    BY DEF Serial
  <1> QED BY <1>1, <1>2, <1>3 DEF SInv

\* The run ends and tells its caller the truth
LEMMA EndSerial ==
    ASSUME Serial, IInv, SInv, NEW r \in Runs, NEW l \in Ends, End(r, l),
           UNCHANGED <<events, deadLetters>>,
           NEW c, chain' = c, Placed(c), Above(c),
           l = "appended" => source[r] \in Recorded,
           l = "terminated" => source[r] \in deadLetters
    PROVE  SInv'
  <1>1. Placed(chain)' /\ Above(chain)'
    BY PlacesKept
  <1>2. OneFate'
    BY DEF SInv, OneFate, Recorded, End
  <1>3. pc'[r] = l
    BY DEF IInv, RunVarsTyped, End
  <1>4. Stage(r)'
    BY <1>3 DEF Stage, Ends, Open, Blocked, Own
  <1>5. \A q \in Runs : Stage(q)'
    BY <1>4 DEF Serial
  <1> QED BY <1>1, <1>2, <1>5 DEF SInv

\* Nothing blocks the run any more: it drafts its event, retries the pending
\* event, which is its own, or gives its event up
LEMMA UnblockedSerial ==
    ASSUME Serial, NullsApart, IInv, SInv, NEW r \in Runs, pc[r] \in Waits,
           NEW c, ChainOK(c), Placed(c), Above(c), Unblocked(r, c),
           UNCHANGED <<events, deadLetters>>,
           c.pending # NoPending => c.pending.row.source = source[r],
           source[r] \notin Recorded, source[r] \notin deadLetters
    PROVE  SInv'
  <1>1. RunVarsTyped
    BY DEF IInv
  <1>2. ASSUME NEW l \in {"deadLetter", "draft"}, chain' = c, held' = held,
               Goto(r, l), l = "draft" => c.pending = NoPending
        PROVE  SInv'
    <2>1. pc'[r] = l /\ source' = source
      BY <1>1, <1>2 DEF RunVarsTyped, Goto
    <2>2. Stage(r)'
      BY <1>2, <2>1 DEF Stage, Open, Blocked, Own, Recorded
    <2> QED BY <1>2, <2>2, MoveSerial
  <1>3. CASE op[r] # "terminalize" /\ c.pending # NoPending
    <2> DEFINE p == MarkAttempted(c.pending)
               d == [c EXCEPT !.pending = p]
    <2>1. chain' = d /\ held' = [held EXCEPT ![r] = p] /\ Goto(r, "insert")
      BY <1>3, <1>1 DEF Unblocked, RunVarsTyped
    <2>2. IsPending(c.pending) /\ IsPending(p) /\ p.row = c.pending.row
      BY <1>3 DEF ChainOK, PendingOK, Carried, IsPending, MarkAttempted, Ages
    <2> HIDE DEF p
    <2>3. Placed(d) /\ Above(d) /\ d.pending = p
      BY <1>3, <2>2, MarkPlaced
    <2> HIDE DEF d
    <2>4. pc'[r] = "insert" /\ source' = source /\ held'[r] = p
      BY <1>1, <2>1 DEF RunVarsTyped, Goto
    <2>5. Stage(r)'
      BY <1>3, <2>1, <2>2, <2>3, <2>4 DEF Stage, Open, Blocked, Own, Recorded
    <2> QED BY <2>1, <2>3, <2>5, MoveSerial
  <1> QED BY <1>1, <1>2, <1>3 DEF Unblocked, RunVarsTyped

-----------------------------------------------------------------------------
(* The steps *)

\* findPersistedEvent answers for the source it is asked about
LEMMA FoundOrNot ==
    ASSUME NullsApart, IInv, NEW m
    PROVE  IF m \in Recorded
           THEN FindPersisted(m) # NoRow /\ FindPersisted(m).source = m
           ELSE FindPersisted(m) = NoRow
  <1>1. \A e \in events : e # NoRow
    BY DEF IInv, TableOK, NullsApart
  <1> QED BY <1>1 DEF FindPersisted, Recorded

\* What a step of the only run may assume, spelled out once
LEMMA GivenSerial ==
    ASSUME IInv, SInv, NEW r \in Runs
    PROVE  /\ RunVarsTyped /\ RunOK(r) /\ Stage(r)
           /\ ChainOK(chain) /\ Placed(chain) /\ Above(chain)
           /\ Recorded \cap deadLetters = {}
           /\ \A e : e \in events => e.source \in Recorded
           /\ \A x : /\ [seen EXCEPT ![r] = x][r] = x
                     /\ [held EXCEPT ![r] = x][r] = x
                     /\ [pc EXCEPT ![r] = x][r] = x
  BY DEF IInv, SInv, OneFate, RunVarsTyped, Recorded

LEMMA CallSerial ==
    ASSUME Serial, IInv, SInv, NEW r \in Runs, NEW o, NEW m, Call(r, o, m)
    PROVE  SInv'
  <1>1. /\ UNCHANGED <<events, deadLetters, chain, settled>>
        /\ pc'[r] = IF chain.next = Unset THEN "latest" ELSE "find"
    BY GivenSerial DEF Call
  <1>2. Placed(chain)' /\ Above(chain)' /\ OneFate'
    BY <1>1, PlacesKept DEF SInv, OneFate, Recorded
  <1>3. Stage(r)'
    BY <1>1 DEF Stage, Open, Blocked, Own
  <1> QED BY <1>2, <1>3 DEF SInv, Serial

LEMMA ReadLatestSerial ==
    ASSUME Serial, NullsApart, IInv, SInv, NEW r \in Runs, ReadLatest(r)
    PROVE  SInv'
  <1>1. /\ UNCHANGED <<events, deadLetters, chain>> /\ Goto(r, "initialize")
        /\ pc'[r] = "initialize" /\ seen'[r] = LatestPersisted
    BY GivenSerial DEF ReadLatest, Goto
  <1>2. chain.next = Unset /\ \A e, f \in events : e = f
    BY GivenSerial DEF ReadLatest, Stage, Above
  <1>3. \A e \in events : e.seq \in Nat /\ e # NoRow
    BY Given DEF IsRow, Seqs, NullsApart
  <1>4. CASE events = {}
    <2>1. LatestPersisted = NoRow
      BY <1>4 DEF LatestPersisted
    <2>2. Stage(r)'
      BY <1>1, <1>2, <1>4, <2>1 DEF Stage, Open, Blocked, Own
    <2> QED BY <1>1, <2>2, GivenSerial, MoveSerial
  <1>5. CASE events # {}
    <2>1. PICK f \in events : TRUE
      BY <1>5
    <2>2. \A e \in events : e = f
      BY <1>2, <2>1
    <2>3. \E e \in events : \A g \in events : g.seq <= e.seq
      BY <1>3, <2>1, <2>2
    <2>4. LatestPersisted \in events
      BY <2>3 DEF LatestPersisted
    <2>5. LatestPersisted = f
      BY <2>2, <2>4
    <2>6. Stage(r)'
      BY <1>1, <1>2, <1>3, <2>2, <2>5 DEF Stage, Open, Blocked, Own
    <2> QED BY <1>1, <2>6, GivenSerial, MoveSerial
  <1> QED BY <1>4, <1>5

LEMMA InitializeSerial ==
    ASSUME Serial, IInv, SInv, NEW r \in Runs, Initialize(r)
    PROVE  SInv'
  <1>1. /\ UNCHANGED <<events, deadLetters>> /\ Goto(r, "find") /\ pc'[r] = "find"
    BY GivenSerial DEF Initialize, Goto
  <1>2. chain.next = Unset /\ chain.pending = NoPending
    BY GivenSerial DEF Initialize, Stage, Above
  <1>3. PICK n, h : /\ n \in Nat /\ n # Unset /\ chain' = Headed(n, h)
                    /\ \A e \in events : e.seq < n
    <2>1. CASE seen[r] = NoRow
      <3>1. events = {} /\ chain' = Headed(1, GenesisHash)
        BY <2>1, GivenSerial DEF Initialize, Stage
      <3> QED BY <3>1 DEF Unset
    <2>2. CASE seen[r] # NoRow
      <3>1. /\ \A e \in events : e.seq <= seen[r].seq
            /\ chain' = Headed(seen[r].seq + 1, seen[r].hash)
        BY <2>2, GivenSerial DEF Initialize, Stage
      <3>2. seen[r].seq \in Nat /\ \A e \in events : e.seq \in Nat
        BY <2>2, GivenSerial, Given DEF RunOK, IsRow, Seqs
      <3>3. /\ seen[r].seq + 1 \in Nat /\ seen[r].seq + 1 # Unset
            /\ \A e \in events : e.seq < seen[r].seq + 1
        BY <3>1, <3>2 DEF Unset
      <3> QED BY <3>1, <3>3
    <2> QED BY <2>1, <2>2
  <1>4. Placed(Headed(n, h)) /\ Above(Headed(n, h))
    BY <1>2, <1>3 DEF Placed, Above, Headed
  <1>5. Stage(r)'
    BY <1>1 DEF Stage, Open, Blocked, Own
  <1> QED BY <1>1, <1>3, <1>4, <1>5, MoveSerial

LEMMA FindExistingSerial ==
    ASSUME Serial, NullsApart, IInv, SInv, NEW r \in Runs, FindExisting(r)
    PROVE  SInv'
  <1>1. /\ UNCHANGED <<events, deadLetters, chain>> /\ source' = source
        /\ seen'[r] = FindPersisted(source[r])
        /\ Goto(r, pc'[r])
        /\ pc'[r] = IF source[r] \in Recorded
                    THEN "commitExisting" ELSE "terminal"
    <2>1. /\ UNCHANGED <<events, deadLetters, chain>>
          /\ seen'[r] = FindPersisted(source[r])
          /\ Goto(r, IF source[r] \in Recorded
                      THEN "commitExisting" ELSE "terminal")
      <3>1. /\ seen' = [seen EXCEPT ![r] = FindPersisted(source[r])]
            /\ Goto(r, IF seen'[r] # NoRow THEN "commitExisting" ELSE "terminal")
            /\ UNCHANGED <<events, deadLetters, chain>>
        BY DEF FindExisting
      <3>2. seen'[r] = FindPersisted(source[r])
        BY <3>1, GivenSerial
      <3> QED BY <3>1, <3>2, FoundOrNot
    <2> QED BY <2>1, GivenSerial DEF Goto
  <1>2. Recorded' = Recorded
    BY <1>1 DEF Recorded
  <1>3. Stage(r)'
    BY <1>1, <1>2, FoundOrNot DEF Stage, Open, Blocked, Own
  <1> QED BY <1>1, <1>3, GivenSerial, MoveSerial

\* CommitExisting and CommitInserted: the row is the one of the run's source
LEMMA CommitSerial ==
    ASSUME Serial, IInv, SInv, NEW r \in Runs, NEW e \in events,
           e.source = source[r], chain.next # Unset,
           UNCHANGED <<events, deadLetters>>,
           IF CommitThrows(chain, e)
           THEN chain' = chain /\ End(r, "threw")
           ELSE chain' = CommitPersisted(chain, e) /\ End(r, "appended")
    PROVE  SInv'
  <1>1. source[r] \in Recorded /\ "threw" \in Ends /\ "appended" \in Ends
    BY GivenSerial DEF Ends
  <1>2. CASE CommitThrows(chain, e)
    BY <1>1, <1>2, GivenSerial, EndSerial
  <1>3. CASE ~CommitThrows(chain, e)
    <2>1. /\ Placed(CommitPersisted(chain, e))
          /\ Above(CommitPersisted(chain, e))
      BY <1>3, GivenSerial, CommitPlaced
    <2> QED BY <1>1, <1>3, <2>1, EndSerial
  <1> QED BY <1>2, <1>3

LEMMA CheckTerminalSerial ==
    ASSUME Serial, IInv, SInv, NEW r \in Runs, CheckTerminal(r)
    PROVE  SInv'
  <1>1. /\ UNCHANGED <<events, deadLetters, chain>> /\ "terminated" \in Ends
        /\ source[r] \notin Recorded
    BY GivenSerial DEF CheckTerminal, Stage, Ends
  <1>2. CASE End(r, "terminated") /\ source[r] \in deadLetters
    BY <1>1, <1>2, GivenSerial, EndSerial
  <1>3. ASSUME NEW l \in {"pendingCheck", "discardOwn"}, Goto(r, l),
               l = "pendingCheck" <=> source[r] \notin deadLetters
        PROVE  SInv'
    <2>1. pc'[r] = l /\ source' = source /\ Recorded' = Recorded
      BY <1>1, <1>3, GivenSerial DEF Goto, Recorded
    <2>2. Stage(r)'
      BY <1>1, <1>3, <2>1 DEF Stage, Open, Blocked, Own
    <2> QED BY <1>1, <1>3, <2>2, GivenSerial, MoveSerial
  <1> QED BY <1>2, <1>3 DEF CheckTerminal

LEMMA CheckPendingSerial ==
    ASSUME Serial, NullsApart, IInv, SInv, NEW r \in Runs, CheckPending(r)
    PROVE  SInv'
  <1>1. /\ UNCHANGED <<events, deadLetters>>
        /\ source[r] \notin Recorded /\ source[r] \notin deadLetters
        /\ pc[r] \in Waits
    BY GivenSerial DEF CheckPending, Stage, Open, Waits
  <1>2. CASE chain.pending = NoPending \/ chain.pending.row.source = source[r]
    BY <1>1, <1>2, GivenSerial, UnblockedSerial DEF CheckPending
  <1>3. CASE ~(chain.pending = NoPending \/ chain.pending.row.source = source[r])
    <2>1. /\ chain' = chain /\ Goto(r, "findPending") /\ source' = source
          /\ pc'[r] = "findPending" /\ held'[r] = chain.pending
          /\ Recorded' = Recorded
      <3>1. /\ held' = [held EXCEPT ![r] = chain.pending]
            /\ chain' = chain /\ Goto(r, "findPending")
        BY <1>3 DEF CheckPending
      <3>2. pc' = [pc EXCEPT ![r] = "findPending"] /\ source' = source
        BY <3>1 DEF Goto
      <3>3. held'[r] = chain.pending /\ pc'[r] = "findPending"
        BY <3>1, <3>2, GivenSerial
      <3> QED BY <1>1, <3>1, <3>2, <3>3 DEF Recorded
    <2>2. Stage(r)'
      BY <1>1, <1>3, <2>1 DEF Stage, Open, Blocked, Own
    <2> QED BY <1>1, <2>1, <2>2, GivenSerial, MoveSerial
  <1> QED BY <1>2, <1>3

\* Where another source's event is in the way, the run's own is still open
LEMMA BlockedKnows ==
    ASSUME IInv, SInv, NEW r \in Runs, pc[r] \in Blocked
    PROVE  /\ source[r] \notin Recorded /\ source[r] \notin deadLetters
           /\ held[r] = chain.pending /\ held[r].row.source # source[r]
           /\ chain.next # Unset /\ pc[r] \in Waits /\ IsPending(held[r])
  BY GivenSerial DEF Stage, Open, Blocked, RunOK, Waits, Carried

LEMMA FindPendingSerial ==
    ASSUME Serial, NullsApart, IInv, SInv, NEW r \in Runs, FindPending(r)
    PROVE  SInv'
  <1> DEFINE m == held[r].row.source
  <1>1. /\ source[r] \notin Recorded /\ source[r] \notin deadLetters
        /\ held[r] = chain.pending /\ m # source[r]
    BY BlockedKnows DEF FindPending, Blocked
  <1>2. /\ seen' = [seen EXCEPT ![r] = FindPersisted(m)]
        /\ Goto(r, IF seen'[r] # NoRow THEN "commitPending" ELSE "terminalPending")
        /\ UNCHANGED <<events, deadLetters, chain, held>>
    BY DEF FindPending
  <1>3. seen'[r] = FindPersisted(m)
    BY <1>2, GivenSerial
  <1>4. Goto(r, IF m \in Recorded THEN "commitPending" ELSE "terminalPending")
    BY <1>2, <1>3, FoundOrNot
  <1>5. /\ pc'[r] = IF m \in Recorded THEN "commitPending" ELSE "terminalPending"
        /\ source' = source
    BY <1>4, GivenSerial DEF Goto
  <1>6. Recorded' = Recorded
    BY <1>2 DEF Recorded
  <1>7. Stage(r)'
    BY <1>1, <1>2, <1>3, <1>5, <1>6, FoundOrNot DEF Stage, Open, Blocked, Own
  <1> QED BY <1>2, <1>4, <1>7, GivenSerial, MoveSerial

LEMMA CommitPendingSerial ==
    ASSUME Serial, NullsApart, IInv, SInv, NEW r \in Runs, CommitPending(r)
    PROVE  SInv'
  <1>1. /\ source[r] \notin Recorded /\ source[r] \notin deadLetters
        /\ held[r] = chain.pending /\ chain.next # Unset /\ pc[r] \in Waits
        /\ UNCHANGED <<events, deadLetters>>
    BY BlockedKnows DEF CommitPending, Blocked
  <1>2. /\ seen[r] \in events /\ IsRow(seen[r])
        /\ seen[r].source = chain.pending.row.source
    BY <1>1, GivenSerial DEF CommitPending, RunOK, Stage
  <1>3. CASE CommitThrows(chain, seen[r])
    <2>1. chain' = chain /\ End(r, "threw") /\ "threw" \in Ends
      BY <1>3 DEF CommitPending, Ends
    <2> QED BY <1>1, <2>1, GivenSerial, EndSerial
  <1>4. CASE ~CommitThrows(chain, seen[r])
    <2> DEFINE c == CommitPersisted(chain, seen[r])
    <2>1. Unblocked(r, c)
      BY <1>4 DEF CommitPending
    <2>2. /\ Placed(c) /\ Above(c)
          /\ chain.pending # NoPending => c.pending = NoPending
      BY <1>1, <1>2, <1>4, GivenSerial, CommitPlaced
    <2>3. ChainOK(c)
      BY <1>1, <1>2, <1>4, GivenSerial, CommittedOK
    <2>4. chain.pending # NoPending
      BY <1>1, BlockedKnows DEF CommitPending, Blocked, NullsApart
    <2> HIDE DEF c
    <2> QED BY <1>1, <2>1, <2>2, <2>3, <2>4, UnblockedSerial
  <1> QED BY <1>3, <1>4

LEMMA CheckPendingTerminalSerial ==
    ASSUME Serial, IInv, SInv, NEW r \in Runs, CheckPendingTerminal(r)
    PROVE  SInv'
  <1> DEFINE l == IF held[r].row.source \in deadLetters
                  THEN "discardPending" ELSE "judge"
  <1>1. /\ source[r] \notin Recorded /\ source[r] \notin deadLetters
        /\ held[r] = chain.pending /\ held[r].row.source # source[r]
        /\ held[r].row.source \notin Recorded
    BY BlockedKnows, GivenSerial DEF CheckPendingTerminal, Blocked, Stage
  <1>2. Goto(r, l) /\ UNCHANGED <<events, deadLetters, chain, seen, held>>
    BY DEF CheckPendingTerminal
  <1>3. pc'[r] = l /\ source' = source /\ Recorded' = Recorded
    BY <1>2, GivenSerial DEF Goto, Recorded
  <1>4. Stage(r)'
    BY <1>1, <1>2, <1>3 DEF Stage, Open, Blocked, Own
  <1> QED BY <1>2, <1>4, GivenSerial, MoveSerial

LEMMA JudgePendingSerial ==
    ASSUME Serial, NullsApart, IInv, SInv, NEW r \in Runs, JudgePending(r)
    PROVE  SInv'
  <1>1. /\ source[r] \notin Recorded /\ source[r] \notin deadLetters
        /\ held[r] = chain.pending /\ held[r].row.source # source[r]
        /\ held[r].row.source \notin Recorded /\ IsPending(held[r])
        /\ UNCHANGED <<events, deadLetters>> /\ "blocked" \in Ends
    BY BlockedKnows, GivenSerial DEF JudgePending, Blocked, Stage, Ends
  <1>2. CASE held[r].attempted = "unknown"
    <2> DEFINE p == MarkAttempted(held[r])
               d == [chain EXCEPT !.pending = p]
    <2>1. chain' = d /\ End(r, "blocked")
      BY <1>2 DEF JudgePending
    <2>2. IsPending(p) /\ p.row = chain.pending.row /\ chain.pending # NoPending
      BY <1>1 DEF IsPending, MarkAttempted, Ages, NullsApart
    <2> HIDE DEF p
    <2>3. Placed(d) /\ Above(d)
      BY <2>2, GivenSerial, MarkPlaced
    <2> HIDE DEF d
    <2> QED BY <1>1, <2>1, <2>3, EndSerial
  <1>3. CASE held[r].attempted = "recent"
    <2>1. chain' = chain /\ End(r, "blocked")
      BY <1>3 DEF JudgePending
    <2> QED BY <1>1, <2>1, GivenSerial, EndSerial
  <1>4. CASE held[r].attempted = "stale"
    <2>1. Goto(r, "expire") /\ UNCHANGED <<chain, seen, held>>
      BY <1>4 DEF JudgePending
    <2>2. pc'[r] = "expire" /\ source' = source /\ Recorded' = Recorded
      BY <1>1, <2>1, GivenSerial DEF Goto, Recorded
    <2>3. Stage(r)'
      BY <1>1, <2>1, <2>2 DEF Stage, Open, Blocked, Own
    <2> QED BY <1>1, <2>1, <2>3, GivenSerial, MoveSerial
  <1> QED BY <1>1, <1>2, <1>3, <1>4 DEF IsPending, Ages

\* A source that D1 does not hold becomes a dead letter
LEMMA GiveUpSerial ==
    ASSUME Serial, SInv, NEW r \in Runs, NEW l, Goto(r, l),
           NEW m, m \notin Recorded, deadLetters' = deadLetters \cup {m},
           UNCHANGED <<events, chain>>, Stage(r)'
    PROVE  SInv'
  <1>1. Placed(chain)' /\ Above(chain)'
    BY PlacesKept DEF SInv
  <1>2. OneFate'
    BY DEF SInv, OneFate, Recorded, Goto
  <1> QED BY <1>1, <1>2 DEF SInv, Serial

LEMMA ExpirePendingSerial ==
    ASSUME Serial, IInv, SInv, NEW r \in Runs, ExpirePending(r)
    PROVE  SInv'
  <1>1. /\ source[r] \notin Recorded /\ source[r] \notin deadLetters
        /\ held[r] = chain.pending /\ held[r].row.source # source[r]
        /\ held[r].row.source \notin Recorded
    BY BlockedKnows, GivenSerial DEF ExpirePending, Blocked, Stage
  <1>2. /\ Goto(r, "discardPending") /\ UNCHANGED <<events, chain, seen, held>>
        /\ deadLetters' = deadLetters \cup {held[r].row.source}
    BY DEF ExpirePending
  <1>3. pc'[r] = "discardPending" /\ source' = source /\ Recorded' = Recorded
    BY <1>2, GivenSerial DEF Goto, Recorded
  <1>4. Stage(r)'
    BY <1>1, <1>2, <1>3 DEF Stage, Open, Blocked, Own
  <1> QED BY <1>1, <1>2, <1>4, GiveUpSerial

LEMMA DiscardBlockerSerial ==
    ASSUME Serial, NullsApart, IInv, SInv, NEW r \in Runs, DiscardBlocker(r)
    PROVE  SInv'
  <1> DEFINE m == held[r].row.source
             c == DiscardPending(chain, m)
  <1>1. /\ source[r] \notin Recorded /\ source[r] \notin deadLetters
        /\ held[r] = chain.pending /\ chain.next # Unset /\ pc[r] \in Waits
        /\ chain.pending # NoPending
    BY BlockedKnows DEF DiscardBlocker, Blocked, NullsApart
  <1>2. m \notin Recorded
    BY GivenSerial DEF DiscardBlocker, Stage
  <1>3. Placed(c) /\ Above(c) /\ c.pending = NoPending
    BY <1>1, <1>2, GivenSerial, DiscardPlaced
  <1>4. ChainOK(c)
    BY GivenSerial, DiscardedOK
  <1>5. Unblocked(r, c) /\ UNCHANGED <<events, deadLetters>>
    BY DEF DiscardBlocker
  <1> HIDE DEF c
  <1> QED BY <1>1, <1>3, <1>4, <1>5, UnblockedSerial

LEMMA DraftPendingSerial ==
    ASSUME Serial, IInv, SInv, NEW r \in Runs, DraftPending(r)
    PROVE  SInv'
  <1> DEFINE row == Row(chain.next, source[r], chain.lastHash)
             p == [row |-> row, attempted |-> "recent"]
  <1>1. /\ source[r] \notin Recorded /\ source[r] \notin deadLetters
        /\ chain.pending = NoPending
    BY GivenSerial DEF DraftPending, Stage, Open
  <1>2. /\ held' = [held EXCEPT ![r] = p] /\ Goto(r, "putPending")
        /\ UNCHANGED <<events, deadLetters, chain, seen>>
    BY DEF DraftPending
  <1>3. /\ held'[r] = p /\ pc'[r] = "putPending" /\ source' = source
        /\ Recorded' = Recorded
    BY <1>2, GivenSerial DEF Goto, Recorded
  <1>4. Stage(r)'
    BY <1>1, <1>2, <1>3 DEF Stage, Open, Blocked, Own
  <1> QED BY <1>2, <1>4, GivenSerial, MoveSerial

LEMMA PutPendingSerial ==
    ASSUME Serial, NullsApart, IInv, SInv, NEW r \in Runs, PutPending(r)
    PROVE  SInv'
  <1> DEFINE p == MarkAttempted(held[r])
             d == [chain EXCEPT !.pending = p]
  <1>1. /\ source[r] \notin Recorded /\ source[r] \notin deadLetters
        /\ chain.pending = NoPending /\ chain.next # Unset
        /\ held[r].row = Row(chain.next, source[r], chain.lastHash)
        /\ IsPending(held[r])
    BY GivenSerial DEF PutPending, Stage, Open, RunOK, Waits, Carried
  <1>2. /\ held' = [held EXCEPT ![r] = p] /\ held'[r] = p
        /\ chain' = d /\ Goto(r, "insert")
        /\ UNCHANGED <<events, deadLetters, seen>>
    <2>1. /\ held' = [held EXCEPT ![r] = p]
          /\ chain' = [chain EXCEPT !.pending = held'[r]]
          /\ Goto(r, "insert") /\ UNCHANGED <<events, deadLetters, seen>>
      BY DEF PutPending
    <2> HIDE DEF p
    <2>2. held'[r] = p
      BY <2>1, GivenSerial
    <2> QED BY <2>1, <2>2
  <1>3. /\ p.row = held[r].row /\ p.row.seq = chain.next
        /\ p.row.prev = chain.lastHash /\ p.row.source = source[r]
        /\ p # NoPending
    BY <1>1 DEF MarkAttempted, IsPending, Row, NullsApart, Ages
  <1> HIDE DEF p
  <1>4. d.next = chain.next /\ d.lastHash = chain.lastHash /\ d.pending = p
    <2>1. d = [next |-> chain.next, lastHash |-> chain.lastHash, pending |-> p]
      BY GivenSerial DEF ChainOK
    <2> QED BY <2>1
  <1> HIDE DEF d
  <1>5. /\ \A e \in events : e.seq < chain.next /\ e.source # source[r]
        /\ \A e \in events : e.seq \in Nat
        /\ chain.next \in Nat
    BY <1>1, GivenSerial, Given DEF Above, ChainOK, IsRow, Seqs, Recorded
  <1>6. \A e \in events : e.seq # chain.next
    BY <1>5
  <1>7. Placed(d) /\ Above(d)
    BY <1>1, <1>3, <1>4, <1>5, <1>6 DEF Placed, Above
  <1>8. /\ pc'[r] = "insert" /\ source' = source /\ Recorded' = Recorded
    BY <1>2, GivenSerial DEF Goto, Recorded
  <1>9. Stage(r)'
    BY <1>1, <1>2, <1>3, <1>4, <1>8 DEF Stage, Open, Blocked, Own
  <1> QED BY <1>2, <1>7, <1>9, MoveSerial

\* The place of the pending event of an open source is free
LEMMA InsertIsNew ==
    ASSUME NullsApart, IInv, SInv, NEW r \in Runs, InsertEvent(r)
    PROVE  /\ events' = events \cup {held[r].row}
           /\ held[r].row.source = source[r] /\ source[r] \notin Recorded
           /\ source[r] \notin deadLetters /\ held[r] = chain.pending
           /\ chain.pending # NoPending /\ chain.next # Unset
           /\ held[r].row.seq = chain.next
           /\ \A e \in events : e.seq < chain.next
  <1>1. /\ held[r].row.source = source[r] /\ source[r] \notin Recorded
        /\ source[r] \notin deadLetters /\ held[r] = chain.pending
        /\ chain.next # Unset /\ IsPending(held[r])
    BY GivenSerial DEF InsertEvent, Stage, Own, Open, RunOK, Waits, Carried
  <1>2. chain.pending # NoPending
    BY <1>1 DEF NullsApart
  <1>3. held[r].row \notin events
    BY <1>1 DEF Recorded
  <1>4. /\ held[r].row.seq = chain.next
        /\ \A e \in events : /\ e.seq # held[r].row.seq
                             /\ e.source # held[r].row.source
    BY <1>1, <1>2, <1>3, GivenSerial DEF Placed
  <1>5. events' = events \cup {held[r].row}
    BY <1>4 DEF InsertEvent
  <1>6. \A e \in events : e.seq < chain.next
    BY <1>1, <1>3, GivenSerial DEF Above
  <1> QED BY <1>1, <1>2, <1>4, <1>5, <1>6

LEMMA InsertEventSerial ==
    ASSUME Serial, NullsApart, IInv, SInv, NEW r \in Runs, InsertEvent(r)
    PROVE  SInv'
  <1> DEFINE row == held[r].row
  <1>1. /\ events' = events \cup {row} /\ row = chain.pending.row
        /\ row.source = source[r] /\ source[r] \notin deadLetters
        /\ held[r] = chain.pending
        /\ chain.pending # NoPending /\ chain.next # Unset
    BY InsertIsNew
  <1>2. UNCHANGED <<deadLetters, chain, seen, held>> /\ Goto(r, "confirm")
    BY DEF InsertEvent
  <1>3. pc'[r] = "confirm" /\ source' = source /\ settled' = settled
    BY <1>2, GivenSerial DEF Goto
  <1> HIDE DEF row
  <1>4. Placed(chain)'
    BY <1>1, <1>2 DEF Placed
  <1>5. Above(chain)'
    BY <1>1, <1>2, GivenSerial DEF Above
  <1>6. Recorded' = Recorded \cup {source[r]}
    BY <1>1 DEF Recorded
  <1>7. OneFate'
    BY <1>1, <1>2, <1>3, <1>6 DEF SInv, OneFate
  <1>8. Stage(r)'
    BY <1>1, <1>2, <1>3 DEF Stage, Open, Blocked, Own, row
  <1> QED BY <1>4, <1>5, <1>7, <1>8 DEF SInv, Serial

LEMMA ConfirmInsertSerial ==
    ASSUME Serial, IInv, SInv, NEW r \in Runs, ConfirmInsert(r)
    PROVE  SInv'
  <1>1. /\ held[r] = chain.pending /\ held[r].row.source = source[r]
        /\ UNCHANGED <<events, deadLetters, chain>> /\ "threw" \in Ends
    BY GivenSerial DEF ConfirmInsert, Stage, Own, Ends
  <1>2. CASE End(r, "threw")
    BY <1>1, <1>2, GivenSerial, EndSerial
  <1>3. CASE Goto(r, "commitInserted") /\ UNCHANGED <<seen, held>>
    <2>1. pc'[r] = "commitInserted" /\ source' = source
      BY <1>3, GivenSerial DEF Goto
    <2>2. Stage(r)'
      BY <1>1, <1>3, <2>1 DEF Stage, Open, Blocked, Own
    <2> QED BY <1>1, <1>3, <2>2, GivenSerial, MoveSerial
  <1> QED BY <1>2, <1>3 DEF ConfirmInsert

LEMMA RecordDeadLetterSerial ==
    ASSUME Serial, IInv, SInv, NEW r \in Runs, RecordDeadLetter(r)
    PROVE  SInv'
  <1>1. source[r] \notin Recorded
    BY GivenSerial DEF RecordDeadLetter, Stage, Open
  <1>2. /\ Goto(r, "discardOwn") /\ UNCHANGED <<events, chain, seen, held>>
        /\ deadLetters' = deadLetters \cup {source[r]}
    BY DEF RecordDeadLetter
  <1>3. pc'[r] = "discardOwn" /\ source' = source
    BY <1>2, GivenSerial DEF Goto
  <1>4. Stage(r)'
    BY <1>2, <1>3 DEF Stage, Open, Blocked, Own
  <1> QED BY <1>1, <1>2, <1>4, GiveUpSerial

LEMMA DiscardOwnSerial ==
    ASSUME Serial, IInv, SInv, NEW r \in Runs, DiscardOwn(r)
    PROVE  SInv'
  <1> DEFINE c == DiscardPending(chain, source[r])
  <1>1. /\ source[r] \in deadLetters /\ source[r] \notin Recorded
        /\ chain.next # Unset /\ "terminated" \in Ends
    BY GivenSerial DEF DiscardOwn, Stage, RunOK, Waits, Ends
  <1>2. chain' = c /\ End(r, "terminated") /\ UNCHANGED <<events, deadLetters>>
    BY DEF DiscardOwn
  <1>3. Placed(c) /\ Above(c)
    BY <1>1, GivenSerial, DiscardPlaced
  <1> HIDE DEF c
  <1> QED BY <1>1, <1>2, <1>3, EndSerial

LEMMA RunStepSerial ==
    ASSUME Serial, NullsApart, IInv, SInv, NEW r \in Runs, RunStep(r)
    PROVE  SInv'
  <1>1. CASE CommitExisting(r)
    <2>1. /\ seen[r] \in events /\ seen[r].source = source[r]
          /\ chain.next # Unset
      BY <1>1, GivenSerial DEF CommitExisting, RunOK, Stage, Waits
    <2> QED BY <1>1, <2>1, CommitSerial DEF CommitExisting
  <1>2. CASE CommitInserted(r)
    <2>1. /\ held[r].row \in events /\ held[r].row.source = source[r]
          /\ chain.next # Unset
      BY <1>2, GivenSerial DEF CommitInserted, RunOK, Stage, Own, Waits
    <2> QED BY <1>2, <2>1, CommitSerial DEF CommitInserted
  <1> QED
    BY <1>1, <1>2, ReadLatestSerial, InitializeSerial, FindExistingSerial,
       CheckTerminalSerial, CheckPendingSerial, FindPendingSerial,
       CommitPendingSerial, CheckPendingTerminalSerial, JudgePendingSerial,
       ExpirePendingSerial, DiscardBlockerSerial, DraftPendingSerial,
       PutPendingSerial, InsertEventSerial, ConfirmInsertSerial,
       RecordDeadLetterSerial, DiscardOwnSerial DEF RunStep

-----------------------------------------------------------------------------
(* Failures and time *)

LEMMA LoseRunsSerial ==
    ASSUME SInv, LoseRuns, NEW c, chain' = c, Placed(c), Above(c)
    PROVE  SInv'
  <1>1. Placed(chain)' /\ Above(chain)'
    BY PlacesKept DEF LoseRuns
  <1>2. OneFate'
    BY DEF SInv, OneFate, Recorded, LoseRuns
  <1>3. ASSUME NEW r \in Runs PROVE Stage(r)'
    <2>1. pc'[r] \in Ends
      BY DEF LoseRuns, Ends
    <2> QED BY <2>1 DEF Stage, Ends, Open, Blocked, Own
  <1> QED BY <1>1, <1>2, <1>3 DEF SInv

LEMMA CrashInCommitSerial ==
    ASSUME IInv, SInv, NEW r \in Runs, CrashInCommit(r)
    PROVE  SInv'
  <1> DEFINE e == IF pc[r] = "commitInserted" THEN held[r].row ELSE seen[r]
             c == Headed(e.seq + 1, e.hash)
  <1>1. /\ e \in events /\ chain.next # Unset
    BY GivenSerial DEF CrashInCommit, RunOK, Waits
  <1>2. e.seq = chain.next /\ chain' = c /\ LoseRuns
    BY DEF CrashInCommit
  <1> HIDE DEF e
  <1>3. /\ e.seq \in Nat /\ chain.next \in Nat
        /\ \A f \in events : f.seq \in Nat
    BY <1>1, Given, GivenSerial DEF IsRow, Seqs, ChainOK
  <1>4. chain.pending # NoPending /\ e = chain.pending.row
    BY <1>1, <1>2, <1>3, GivenSerial DEF Above
  <1>5. \A f \in events : f.seq < e.seq + 1
    BY <1>1, <1>2, <1>3, <1>4, GivenSerial DEF Above
  <1>6. /\ c.next = e.seq + 1 /\ c.pending = chain.pending
        /\ c.next # Unset
    BY <1>3 DEF Headed, Unset
  <1> HIDE DEF c
  <1>7. Placed(c) /\ Above(c)
    BY <1>1, <1>4, <1>5, <1>6 DEF Placed, Above
  <1> QED BY <1>2, <1>7, LoseRunsSerial

LEMMA FailureSerial ==
    ASSUME Serial, IInv, SInv, Failure
    PROVE  SInv'
  <1>1. ASSUME NEW r \in Runs, D1Fails(r) PROVE SInv'
    <2>1. End(r, "threw") /\ UNCHANGED <<events, deadLetters, chain>>
          /\ "threw" \in Ends
      BY <1>1 DEF D1Fails, Ends
    <2> QED BY <2>1, GivenSerial, EndSerial
  <1>2. ASSUME NEW r \in Runs, CrashInCommit(r) PROVE SInv'
    BY <1>2, CrashInCommitSerial
  <1>3. CASE Crash
    <2>1. LoseRuns /\ chain' = chain
      BY <1>3 DEF Crash
    <2> QED BY <2>1, LoseRunsSerial DEF SInv
  <1> QED BY <1>1, <1>2, <1>3 DEF Failure

LEMMA WindowSerial ==
    ASSUME NullsApart, IInv, SInv, WindowPasses
    PROVE  SInv'
  <1> DEFINE p == Older(chain.pending)
             d == [chain EXCEPT !.pending = p]
  <1>1. /\ UNCHANGED <<events, deadLetters, pc, op, source, seen, settled>>
        /\ chain' = d /\ held' = [r \in Runs |-> Older(held[r])]
        /\ ChainOK(chain) /\ Placed(chain) /\ Above(chain)
    BY DEF WindowPasses, IInv, SInv
  <1>2. \A q : IsPending(q) => IsPending(Older(q)) /\ Older(q).row = q.row
    BY DEF IsPending, Older, Ages
  <1>3. /\ d.next = chain.next /\ d.lastHash = chain.lastHash
        /\ d.pending = p
    <2>1. d = [next |-> chain.next, lastHash |-> chain.lastHash, pending |-> p]
      BY <1>1 DEF ChainOK
    <2> QED BY <2>1
  <1>4. Placed(d) /\ Above(d)
    <2>1. CASE chain.pending = NoPending
      <3>1. p = NoPending
        BY <2>1 DEF Older
      <3> QED BY <1>1, <1>3, <2>1, <3>1 DEF Placed, Above
    <2>2. CASE chain.pending # NoPending
      <3>1. IsPending(chain.pending)
        BY <1>1, <2>2 DEF ChainOK, PendingOK, Carried
      <3> QED BY <1>1, <1>2, <2>2, <3>1, MarkPlaced
    <2> QED BY <2>1, <2>2
  <1> HIDE DEF d
  <1>5. Placed(chain)' /\ Above(chain)'
    BY <1>1, <1>4, PlacesKept
  <1>6. OneFate'
    BY <1>1 DEF SInv, OneFate, Recorded
  <1>7. ASSUME NEW r \in Runs PROVE Stage(r)'
    <2>1. Stage(r) /\ RunOK(r) /\ held'[r] = Older(held[r])
      BY <1>1, GivenSerial
    <2>2. pc[r] \in Blocked \cup Own \cup {"putPending"} =>
              IsPending(held[r])
      BY <2>1 DEF RunOK, Blocked, Own, Carried
    <2>3. pc[r] \in Blocked \cup Own \cup {"putPending"} =>
              held'[r].row = held[r].row
      BY <1>2, <2>1, <2>2
    <2>4. held[r] = chain.pending => held'[r] = chain'.pending
      BY <1>1, <1>3, <2>1
    <2>5. chain.pending = NoPending => chain'.pending = NoPending
      BY <1>1, <1>3 DEF Older
    <2>6. chain'.next = chain.next /\ chain'.lastHash = chain.lastHash
      BY <1>1, <1>3
    <2>7. Recorded' = Recorded
      BY <1>1 DEF Recorded
    <2> QED BY <1>1, <2>1, <2>3, <2>4, <2>5, <2>6, <2>7
            DEF Stage, Open, Blocked, Own
  <1> QED BY <1>5, <1>6, <1>7 DEF SInv

-----------------------------------------------------------------------------
(* The invariant holds *)

LEMMA InitSerial ==
    ASSUME NullsApart, IInv, Init
    PROVE  SInv
  <1>1. ASSUME NEW m \in Sources
        PROVE  Row(1, m, GenesisHash).seq = 1 /\ Row(1, m, GenesisHash).prev = GenesisHash
    BY DEF Row
  <1>2. Placed(chain) /\ Above(chain)
    BY <1>1 DEF Init, Placed, Above, Unset
  <1>3. OneFate
    BY DEF Init, OneFate, Recorded
  <1>4. \A r \in Runs : Stage(r)
    BY DEF Init, Stage, Open, Blocked, Own
  <1> QED BY <1>2, <1>3, <1>4 DEF SInv

LEMMA StepSerial ==
    ASSUME Serial, NullsApart, IInv, SInv, [Next]_vars
    PROVE  SInv'
  <1>1. CASE UNCHANGED vars
    BY <1>1 DEF vars, SInv, Placed, Above, OneFate, Recorded, Stage
  <1> QED BY <1>1, CallSerial, RunStepSerial, FailureSerial, WindowSerial DEF Next

THEOREM SInvHolds ==
    ASSUME Serial, NullsApart
    PROVE  Spec => []SInv
  <1>1. IInv /\ Init => SInv
    BY InitSerial
  <1>2. IInv /\ SInv /\ [Next]_vars => SInv'
    BY StepSerial
  <1> QED BY <1>1, <1>2, IInvHolds, PTL DEF Spec

\* While calls do not overlap, no event is both in the chain and a dead letter,
\* and every source a caller was told "appended" or "terminal" is in one.
THEOREM OneFateHolds ==
    ASSUME Serial, NullsApart
    PROVE  Spec => []OneFate
  <1>1. SInv => OneFate
    BY DEF SInv
  <1> QED BY <1>1, SInvHolds, PTL

\* While calls do not overlap, the pending event can always be retried.
THEOREM PendingAtHeadHolds ==
    ASSUME Serial, NullsApart
    PROVE  Spec => []PendingAtHead
  <1>1. SInv => PendingAtHead
    BY DEF SInv, Placed, PendingAtHead
  <1> QED BY <1>1, SInvHolds, PTL

-----------------------------------------------------------------------------
(* The append-only log *)

\* The rows are as many as the seqs that are taken
Counted(S) ==
    /\ IsFiniteSet(S)
    /\ \A e \in S : e.seq \in 1..Cardinality(S)
    /\ \A s \in 1..Cardinality(S) : \E e \in S : e.seq = s

LInv == IInv /\ SInv /\ Counted(events)

\* LogOfEvents of the rows S
LogOf(S) ==
    [s \in 1..Cardinality(S) |-> (CHOOSE e \in S : e.seq = s).source]

LEMMA LogOfChosen ==
    ASSUME NEW S, Counted(S), \A e, f \in S : e.seq = f.seq => e = f,
           NEW e \in S
    PROVE  e.seq \in DOMAIN LogOf(S) /\ LogOf(S)[e.seq] = e.source
  <1>1. (CHOOSE f \in S : f.seq = e.seq) = e
    OBVIOUS
  <1> QED BY <1>1 DEF LogOf, Counted

LEMMA LogOfIsSeq ==
    ASSUME NEW S, Counted(S), \A e, f \in S : e.seq = f.seq => e = f,
           \A e \in S : e.source \in Sources
    PROVE  /\ LogOf(S) \in Seq(Sources)
           /\ Len(LogOf(S)) = Cardinality(S)
           /\ Cardinality(S) \in Nat
           /\ \A i \in DOMAIN LogOf(S) : \E e \in S : LogOf(S)[i] = e.source
  <1>1. Cardinality(S) \in Nat
    BY FS_CardinalityType DEF Counted
  <1>2. ASSUME NEW i \in 1..Cardinality(S)
        PROVE  \E e \in S : LogOf(S)[i] = e.source
    <2>1. PICK e \in S : e.seq = i
      BY DEF Counted
    <2> QED BY <2>1, LogOfChosen
  <1>3. DOMAIN LogOf(S) = 1..Cardinality(S)
    BY DEF LogOf
  <1>4. LogOf(S) \in [1..Cardinality(S) -> Sources]
    BY <1>2, <1>3 DEF LogOf
  <1> QED BY <1>1, <1>2, <1>3, <1>4

\* A row that takes the next seq is appended to the log
LEMMA LogOfExtended ==
    ASSUME NEW S, Counted(S), \A e, f \in S : e.seq = f.seq => e = f,
           \A e \in S : e.source \in Sources,
           NEW row, row.source \in Sources, row.seq = Cardinality(S) + 1
    PROVE  /\ Counted(S \cup {row})
           /\ LogOf(S \cup {row}) = Append(LogOf(S), row.source)
  <1> DEFINE T == S \cup {row}
             n == Cardinality(S)
  <1>1. n \in Nat
    BY FS_CardinalityType DEF Counted
  <1>2. row \notin S
    BY <1>1 DEF Counted
  <1>3. IsFiniteSet(T) /\ Cardinality(T) = n + 1
    BY <1>2, FS_AddElement DEF Counted
  <1>4. \A e \in T : e.seq \in 1..(n + 1)
    BY <1>1 DEF Counted
  <1>5. \A s \in 1..(n + 1) : \E e \in T : e.seq = s
    BY <1>1 DEF Counted
  <1>6. \A e, f \in T : e.seq = f.seq => e = f
    BY <1>1 DEF Counted
  <1>7. Counted(T)
    BY <1>3, <1>4, <1>5 DEF Counted
  <1>8. \A e \in T : e.source \in Sources
    OBVIOUS
  <1>9. /\ LogOf(S) \in Seq(Sources) /\ Len(LogOf(S)) = n
        /\ LogOf(T) \in Seq(Sources) /\ Len(LogOf(T)) = n + 1
    BY <1>3, <1>6, <1>7, <1>8, LogOfIsSeq
  <1> DEFINE A == Append(LogOf(S), row.source)
  <1>10. /\ A \in Seq(Sources) /\ Len(A) = n + 1
         /\ \A i \in 1..n : A[i] = LogOf(S)[i]
         /\ A[n + 1] = row.source
    BY <1>9, AppendProperties
  <1> HIDE DEF A
  <1>11. ASSUME NEW i \in 1..(n + 1) PROVE LogOf(T)[i] = A[i]
    <2>1. CASE i = n + 1
      <3>1. row \in T /\ row.seq = i
        BY <2>1
      <3>2. LogOf(T)[i] = row.source
        BY <1>6, <1>7, <3>1, LogOfChosen
      <3> QED BY <1>10, <2>1, <3>2
    <2>2. CASE i # n + 1
      <3>1. i \in 1..n
        BY <1>1, <2>2
      <3>2. PICK e \in S : e.seq = i
        BY <3>1 DEF Counted
      <3>3. LogOf(S)[i] = e.source
        BY <3>2, LogOfChosen
      <3>4. LogOf(T)[i] = e.source
        BY <1>6, <1>7, <3>2, LogOfChosen
      <3> QED BY <1>10, <3>1, <3>3, <3>4
    <2> QED BY <2>1, <2>2
  <1>12. LogOf(T) = A
    BY <1>9, <1>10, <1>11, SeqEqual
  <1> QED BY <1>7, <1>12 DEF A

\* The rows D1 holds, as LogOf needs them
LEMMA RowsUnique ==
    ASSUME IInv
    PROVE  /\ \A e, f \in events : e.seq = f.seq => e = f
           /\ \A e \in events : e.source \in Sources
  BY DEF IInv, TableOK, ChainIntact, IsRow

\* The pending row takes the seq after the last one
LEMMA InsertIsNext ==
    ASSUME NullsApart, LInv, NEW r \in Runs, InsertEvent(r)
    PROVE  held[r].row.seq = Cardinality(events) + 1
  <1> DEFINE n == Cardinality(events)
             s == held[r].row.seq
  <1>1. /\ s = chain.next /\ \A e \in events : e.seq < s
    BY InsertIsNew DEF LInv
  <1>2. Linked(s, held[r].row.prev) /\ s \in Nat /\ s # 0
    BY GivenSerial DEF LInv, InsertEvent, RunOK, Carried, IsPending, IsRow, Seqs
  <1>3. n \in Nat
    BY FS_CardinalityType DEF LInv, Counted
  <1>4. n # 0 => n < s
    <2> SUFFICES ASSUME n # 0 PROVE n < s
      OBVIOUS
    <2>1. n \in 1..n
      BY <1>3
    <2>2. PICK e \in events : e.seq = n
      BY <2>1 DEF LInv, Counted
    <2> QED BY <1>1, <2>2
  <1>5. s = 1 \/ s - 1 \in 1..n
    BY <1>2 DEF Linked, LInv, Counted
  <1> QED BY <1>2, <1>3, <1>4, <1>5

LEMMA InsertAppends ==
    ASSUME NullsApart, LInv, NEW r \in Runs, InsertEvent(r)
    PROVE  /\ Counted(events)'
           /\ LogOfEvents' = Append(LogOfEvents, source[r])
  <1>1. /\ events' = events \cup {held[r].row}
        /\ held[r].row.source = source[r] /\ source[r] \in Sources
    BY InsertIsNew, Given DEF LInv
  <1>2. held[r].row.seq = Cardinality(events) + 1
    BY InsertIsNext
  <1>3. /\ Counted(events') /\ LogOf(events') = Append(LogOf(events), source[r])
    BY <1>1, <1>2, RowsUnique, LogOfExtended DEF LInv
  <1> QED BY <1>3 DEF LogOf, LogOfEvents, Counted

\* Every other step leaves the chain of D1 as it is ...
LEMMA OnlyInsertAppends ==
    ASSUME NEW r \in Runs, RunStep(r), ~InsertEvent(r)
    PROVE  UNCHANGED events
  BY DEF RunStep, ReadLatest, Initialize, FindExisting, CommitExisting,
         CheckTerminal, CheckPending, FindPending, CommitPending,
         CheckPendingTerminal, JudgePending, ExpirePending, DiscardBlocker,
         DraftPending, PutPending, ConfirmInsert, CommitInserted,
         RecordDeadLetter, DiscardOwn

\* ... and two steps give an event up
LEMMA OnlyTwoGiveUp ==
    ASSUME NEW r \in Runs, RunStep(r), ~ExpirePending(r), ~RecordDeadLetter(r)
    PROVE  UNCHANGED deadLetters
  BY DEF RunStep, ReadLatest, Initialize, FindExisting, CommitExisting,
         CheckTerminal, CheckPending, FindPending, CommitPending,
         CheckPendingTerminal, JudgePending, DiscardBlocker,
         DraftPending, PutPending, InsertEvent, ConfirmInsert, CommitInserted,
         DiscardOwn

\* A source that is neither recorded nor a dead letter is fresh in the log
LEMMA OpenIsFresh ==
    ASSUME LInv, NEW m, m \notin Recorded, m \notin deadLetters
    PROVE  Log!Fresh(m)
  <1>1. \A i \in DOMAIN LogOf(events) :
            \E e \in events : LogOf(events)[i] = e.source
    BY RowsUnique, LogOfIsSeq DEF LInv
  <1>2. LogOfEvents = LogOf(events)
    BY DEF LogOfEvents, LogOf
  <1> QED BY <1>1, <1>2 DEF Log!Fresh, Recorded

LEMMA RunStepRefines ==
    ASSUME NullsApart, LInv, NEW r \in Runs, RunStep(r)
    PROVE  /\ Counted(events)'
           /\ [Log!AbstractNext]_<<LogOfEvents, deadLetters>>
  <1>1. UNCHANGED events => Counted(events)' /\ LogOfEvents' = LogOfEvents
    BY DEF LInv, Counted, LogOfEvents
  <1>2. CASE InsertEvent(r)
    <2>1. /\ source[r] \notin Recorded /\ source[r] \notin deadLetters
          /\ source[r] \in Sources /\ UNCHANGED deadLetters
      BY <1>2, InsertIsNew, Given DEF LInv, InsertEvent
    <2>2. Log!Record(source[r])
      BY <1>2, <2>1, InsertAppends, OpenIsFresh DEF Log!Record
    <2> QED BY <1>2, <2>1, <2>2, InsertAppends DEF Log!AbstractNext
  <1>3. CASE ExpirePending(r)
    <2> DEFINE m == held[r].row.source
    <2>1. /\ UNCHANGED events /\ deadLetters' = deadLetters \cup {m}
          /\ m \notin Recorded /\ m \in Sources
      BY <1>3, GivenSerial, BlockedKnows
         DEF ExpirePending, Stage, Blocked, LInv, IsPending, IsRow
    <2>2. CASE m \in deadLetters
      BY <1>1, <2>1, <2>2
    <2>3. CASE m \notin deadLetters
      <3>1. Log!GiveUp(m)
        BY <1>1, <2>1, <2>3, OpenIsFresh DEF Log!GiveUp
      <3> QED BY <1>1, <2>1, <3>1 DEF Log!AbstractNext
    <2> QED BY <2>2, <2>3
  <1>4. CASE RecordDeadLetter(r)
    <2>1. /\ UNCHANGED events /\ deadLetters' = deadLetters \cup {source[r]}
          /\ source[r] \notin Recorded /\ source[r] \notin deadLetters
          /\ source[r] \in Sources
      BY <1>4, GivenSerial, Given DEF RecordDeadLetter, Stage, Open, LInv
    <2>2. Log!GiveUp(source[r])
      BY <1>1, <2>1, OpenIsFresh DEF Log!GiveUp
    <2> QED BY <1>1, <2>1, <2>2 DEF Log!AbstractNext
  <1>5. CASE ~InsertEvent(r) /\ ~ExpirePending(r) /\ ~RecordDeadLetter(r)
    BY <1>1, <1>5, OnlyInsertAppends, OnlyTwoGiveUp
  <1> QED BY <1>2, <1>3, <1>4, <1>5

LEMMA StepRefines ==
    ASSUME NullsApart, LInv, [Next]_vars
    PROVE  /\ Counted(events)'
           /\ [Log!AbstractNext]_<<LogOfEvents, deadLetters>>
  <1>1. CASE UNCHANGED <<events, deadLetters>>
    BY <1>1 DEF LInv, Counted, LogOfEvents
  <1>2. ASSUME NEW r \in Runs, NEW o, NEW m, Call(r, o, m)
        PROVE  UNCHANGED <<events, deadLetters>>
    BY <1>2 DEF Call
  <1>3. Failure \/ WindowPasses => UNCHANGED <<events, deadLetters>>
    BY DEF Failure, D1Fails, CrashInCommit, Crash, LoseRuns, WindowPasses
  <1> QED BY <1>1, <1>2, <1>3, RunStepRefines DEF Next, vars

LEMMA InitRefines ==
    ASSUME IInv, Init
    PROVE  Counted(events) /\ Log!AbstractInit
  <1>1. CASE events = {}
    <2>1. Cardinality(events) = 0 /\ IsFiniteSet(events)
      BY <1>1, FS_EmptySet
    <2>2. Counted(events)
      BY <1>1, <2>1 DEF Counted
    <2>3. LogOf(events) \in Seq(Sources) /\ Len(LogOf(events)) = 0
      BY <2>1, <2>2, RowsUnique, LogOfIsSeq
    <2>4. LogOf(events) = << >>
      BY <2>3, EmptySeq
    <2> QED BY <2>2, <2>4 DEF Init, Log!AbstractInit, LogOfEvents, LogOf
  <1>2. CASE events # {}
    <2>1. PICK m \in Sources : events = {Row(1, m, GenesisHash)}
      BY <1>2 DEF Init
    <2>2. Row(1, m, GenesisHash).seq = 1 /\ Row(1, m, GenesisHash).source = m
      BY DEF Row
    <2> DEFINE row == Row(1, m, GenesisHash)
    <2> HIDE DEF row
    <2>3. Counted({}) /\ Cardinality({}) = 0
      BY FS_EmptySet DEF Counted
    <2>4. row.seq = Cardinality({}) + 1 /\ row.source = m /\ events = {} \cup {row}
      BY <2>1, <2>2, <2>3 DEF row
    <2>5. Counted(events) /\ LogOf(events) = Append(LogOf({}), m)
      BY <2>3, <2>4, LogOfExtended
    <2>6. LogOf({}) = << >>
      BY <2>3, LogOfIsSeq, EmptySeq
    <2>7. LogOfEvents = <<m>>
      <3>1. LogOfEvents = LogOf(events)
        BY DEF LogOfEvents, LogOf
      <3>2. Append(<< >>, m) = <<m>>
        OBVIOUS
      <3> QED BY <2>5, <2>6, <3>1, <3>2
    <2> QED BY <2>5, <2>7 DEF Init, Log!AbstractInit
  <1> QED BY <1>1, <1>2

\* While calls do not overlap, AuditSeqDO and its two tables implement the log
\* of AuditLog: an event takes its place once and keeps it, or is given up.
THEOREM ImplementsLogHolds ==
    ASSUME Serial, NullsApart
    PROVE  Spec => ImplementsLog
  <1>1. IInv /\ Init => Counted(events) /\ Log!AbstractInit
    BY InitRefines
  <1>2. IInv /\ SInv /\ Counted(events) /\ [Next]_vars
            => Counted(events)' /\ [Log!AbstractNext]_<<LogOfEvents, deadLetters>>
    BY StepRefines DEF LInv
  <1> QED BY <1>1, <1>2, IInvHolds, SInvHolds, PTL
          DEF Spec, ImplementsLog, Log!Spec

-----------------------------------------------------------------------------
(* The head of the object *)

\* The head stays at n, or passes the row that D1 holds there
HeadStep(n) ==
    \/ n = chain.next
    \/ n = chain.next + 1 /\ \E e \in events : e.seq = chain.next

HeadAdvances == [][chain.next # Unset => HeadStep(chain'.next)]_vars

LEMMA CommitAdvances ==
    ASSUME ChainOK(chain), NEW e \in events, IsRow(e), ~CommitThrows(chain, e)
    PROVE  HeadStep(CommitPersisted(chain, e).next)
  <1>1. chain.next \in Nat /\ e.seq \in Nat /\ e.seq <= chain.next
    BY DEF ChainOK, IsRow, Seqs, CommitThrows
  <1>2. CASE e.seq < chain.next
    <2>1. CommitPersisted(chain, e).next = chain.next
      BY <1>2, DiscardedOK DEF CommitPersisted
    <2> QED BY <2>1 DEF HeadStep
  <1>3. CASE e.seq = chain.next
    <2>1. CommitPersisted(chain, e).next = chain.next + 1
      BY <1>1, <1>3 DEF CommitPersisted
    <2> QED BY <1>3, <2>1 DEF HeadStep
  <1> QED BY <1>1, <1>2, <1>3

LEMMA UnblockedKeepsHead ==
    ASSUME NEW c, ChainOK(c), NEW r, Unblocked(r, c)
    PROVE  chain'.next = c.next
  <1>1. \A x : [c EXCEPT !.pending = x].next = c.next
    <2> SUFFICES ASSUME NEW x PROVE [c EXCEPT !.pending = x].next = c.next
      OBVIOUS
    <2>1. [c EXCEPT !.pending = x]
              = [next |-> c.next, lastHash |-> c.lastHash, pending |-> x]
      BY DEF ChainOK
    <2> QED BY <2>1
  <1> QED BY <1>1 DEF Unblocked

LEMMA RunStepAdvances ==
    ASSUME IInv, SInv, chain.next # Unset, NEW r \in Runs, RunStep(r)
    PROVE  HeadStep(chain'.next)
  <1>1. /\ ChainOK(chain) /\ RunVarsTyped /\ RunOK(r) /\ Stage(r)
        /\ \A e \in events : IsRow(e)
    BY DEF IInv, SInv, TableOK
  <1>2. ~Initialize(r)
    BY <1>1 DEF Initialize, Stage
  <1>3. CASE CommitExisting(r) \/ CommitInserted(r)
    <2>1. /\ pc[r] = "commitExisting" => seen[r] \in events
          /\ pc[r] = "commitInserted" => held[r].row \in events
      BY <1>1 DEF RunOK
    <2> QED BY <1>1, <1>3, <2>1, CommitAdvances
            DEF CommitExisting, CommitInserted, HeadStep
  <1>4. CASE CommitPending(r)
    <2>1. seen[r] \in events
      BY <1>1, <1>4 DEF RunOK, CommitPending
    <2>2. CASE CommitThrows(chain, seen[r])
      BY <1>4, <2>2 DEF CommitPending, HeadStep
    <2>3. CASE ~CommitThrows(chain, seen[r])
      <3>1. ChainOK(CommitPersisted(chain, seen[r]))
        BY <1>1, <2>1, <2>3, CommittedOK
      <3>2. Unblocked(r, CommitPersisted(chain, seen[r]))
        BY <1>4, <2>3 DEF CommitPending
      <3> QED BY <1>1, <2>1, <2>3, <3>1, <3>2, CommitAdvances, UnblockedKeepsHead
    <2> QED BY <2>2, <2>3
  <1>5. CASE CheckPending(r)
    BY <1>1, <1>5, UnblockedKeepsHead DEF CheckPending, HeadStep
  <1>6. CASE DiscardBlocker(r) \/ DiscardOwn(r)
    BY <1>1, <1>6, DiscardedOK, UnblockedKeepsHead
       DEF DiscardBlocker, DiscardOwn, HeadStep
  <1>7. CASE JudgePending(r) \/ PutPending(r)
    <2>1. \/ chain' = [chain EXCEPT !.pending = MarkAttempted(held[r])]
          \/ chain' = chain
      <3>1. CASE PutPending(r)
        BY <1>1, <3>1 DEF PutPending, RunVarsTyped
      <3>2. CASE JudgePending(r)
        <4>1. held[r].attempted \in Ages
          BY <1>1, <3>2 DEF JudgePending, RunOK, Carried, IsPending
        <4> QED BY <3>2, <4>1 DEF JudgePending, Ages
      <3> QED BY <1>7, <3>1, <3>2
    <2>2. [chain EXCEPT !.pending = MarkAttempted(held[r])]
              = [next |-> chain.next, lastHash |-> chain.lastHash,
                 pending |-> MarkAttempted(held[r])]
      BY <1>1 DEF ChainOK
    <2> QED BY <2>1, <2>2 DEF HeadStep
  <1>8. CASE UNCHANGED chain
    BY <1>8 DEF HeadStep
  <1>9. \/ CommitExisting(r) \/ CommitInserted(r) \/ CommitPending(r)
        \/ CheckPending(r) \/ DiscardBlocker(r) \/ DiscardOwn(r)
        \/ JudgePending(r) \/ PutPending(r) \/ Initialize(r) \/ UNCHANGED chain
    BY DEF RunStep, ReadLatest, FindExisting, CheckTerminal, FindPending,
           CheckPendingTerminal, ExpirePending, DraftPending, InsertEvent,
           ConfirmInsert, RecordDeadLetter
  <1> QED BY <1>2, <1>3, <1>4, <1>5, <1>6, <1>7, <1>8, <1>9

LEMMA StepAdvances ==
    ASSUME IInv, SInv, chain.next # Unset, [Next]_vars
    PROVE  HeadStep(chain'.next)
  <1>1. ChainOK(chain)
    BY DEF IInv
  <1>2. CASE UNCHANGED chain
    BY <1>2 DEF HeadStep
  <1>3. ASSUME NEW r \in Runs, CrashInCommit(r) PROVE HeadStep(chain'.next)
    <2>1. PICK e \in events : /\ e.seq = chain.next
                              /\ chain' = Headed(e.seq + 1, e.hash)
      BY <1>3 DEF CrashInCommit, IInv, RunOK
    <2> QED BY <2>1 DEF Headed, HeadStep
  <1>4. CASE WindowPasses
    <2>1. PICK x : chain' = [chain EXCEPT !.pending = x]
      BY <1>4 DEF WindowPasses
    <2>2. chain' = [next |-> chain.next, lastHash |-> chain.lastHash, pending |-> x]
      BY <1>1, <2>1 DEF ChainOK
    <2> QED BY <2>2 DEF HeadStep
  <1>5. \/ \E r \in Runs : RunStep(r) \/ CrashInCommit(r)
        \/ WindowPasses \/ UNCHANGED chain
    BY DEF Next, Call, Failure, D1Fails, Crash, vars
  <1> QED BY <1>2, <1>3, <1>4, <1>5, RunStepAdvances

\* While calls do not overlap, whatever fails and wherever the object restarts,
\* its next never moves back and never over a seq that D1 has not confirmed.
\* (A second call that has read an empty table before the first one's insert
\* would put next back in initialize(): the theorem needs Serial.)
THEOREM HeadAdvancesHolds ==
    ASSUME Serial, NullsApart
    PROVE  Spec => HeadAdvances
  <1>1. IInv /\ SInv /\ [Next]_vars
            => [chain.next # Unset => HeadStep(chain'.next)]_vars
    BY StepAdvances
  <1> QED BY <1>1, IInvHolds, SInvHolds, PTL DEF Spec, HeadAdvances

\* D1 holds at most one row that the object has not passed, at next and held
\* as its pending event: the most that an answer lost between insertAndConfirm
\* and commitPersisted leaves behind.
HeadAtEnd ==
    chain.next # Unset =>
        \A e \in events :
            \/ e.seq < chain.next
            \/ /\ e.seq = chain.next
               /\ chain.pending # NoPending /\ e = chain.pending.row

\* commitPersisted never throws "sequence advanced outside the tenant durable
\* object"
NeverOutside ==
    \A r \in Runs :
        /\ pc[r] \in {"commitExisting", "commitPending"} =>
               ~CommitThrows(chain, seen[r])
        /\ pc[r] = "commitInserted" => ~CommitThrows(chain, held[r].row)

\* The rows have the seqs 1 to their number: one beyond next needs one at next,
\* and only the pending event is not below it.
LEMMA PassedOrPending ==
    ASSUME LInv
    PROVE  HeadAtEnd
  <1> SUFFICES ASSUME chain.next # Unset, NEW e \in events, ~(e.seq < chain.next)
               PROVE  e.seq = chain.next /\ chain.pending # NoPending
                                         /\ e = chain.pending.row
    BY DEF HeadAtEnd
  <1>1. /\ chain.next \in Nat /\ chain.next >= 1
        /\ e.seq \in 1..Cardinality(events)
        /\ Cardinality(events) \in Nat
    BY FS_CardinalityType DEF LInv, IInv, ChainOK, Unset, Counted
  <1>2. chain.pending # NoPending /\ e = chain.pending.row
    BY DEF LInv, SInv, Above
  <1>3. CASE e.seq > chain.next
    <2>1. PICK f \in events : f.seq = chain.next
      BY <1>1, <1>3 DEF LInv, Counted
    <2>2. f = chain.pending.row
      BY <1>1, <2>1 DEF LInv, SInv, Above
    <2> QED BY <1>1, <1>2, <1>3, <2>1, <2>2
  <1> QED BY <1>1, <1>2, <1>3

LEMMA CommitsInside ==
    ASSUME LInv
    PROVE  NeverOutside
  <1> SUFFICES ASSUME NEW r \in Runs
               PROVE  /\ pc[r] \in {"commitExisting", "commitPending"} =>
                             ~CommitThrows(chain, seen[r])
                      /\ pc[r] = "commitInserted" =>
                             ~CommitThrows(chain, held[r].row)
    BY DEF NeverOutside
  <1>1. RunOK(r) /\ HeadAtEnd /\ \A e \in events : IsRow(e)
    BY PassedOrPending DEF LInv, IInv, TableOK
  <1>2. ASSUME NEW e \in events, chain.next # Unset
        PROVE  ~CommitThrows(chain, e)
    BY <1>1, <1>2 DEF HeadAtEnd, CommitThrows, LInv, IInv, ChainOK, IsRow, Seqs
  <1>3. pc[r] \in {"commitExisting", "commitPending", "commitInserted"}
            => chain.next # Unset
    BY <1>1 DEF RunOK, Waits
  <1> QED BY <1>1, <1>2, <1>3 DEF RunOK

\* Calls that do not overlap, with any failures and restarts, leave the object
\* at the end of the table, and its check that a row is not beyond next is
\* never needed.
THEOREM HeadAtEndHolds ==
    ASSUME Serial, NullsApart
    PROVE  Spec => [](HeadAtEnd /\ NeverOutside)
  <1>1. IInv /\ Init => Counted(events)
    BY InitRefines
  <1>2. IInv /\ SInv /\ Counted(events) /\ [Next]_vars => Counted(events)'
    BY StepRefines DEF LInv
  <1>3. IInv /\ SInv /\ Counted(events) => HeadAtEnd /\ NeverOutside
    BY PassedOrPending, CommitsInside DEF LInv
  <1> QED BY <1>1, <1>2, <1>3, IInvHolds, SInvHolds, PTL DEF Spec

=============================================================================
