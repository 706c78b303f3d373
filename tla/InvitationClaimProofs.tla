------------------------ MODULE InvitationClaimProofs ------------------------
(***************************************************************************)
(* Theorems about InvitationClaim for every set of requests, browsers and  *)
(* sessions.  The invariant follows a session from its reservation to its  *)
(* end: who may still issue it, and when it is closed for good.            *)
(***************************************************************************)
EXTENDS InvitationClaim, TLAPS

\* A request that has reserved a session and is not done issuing or undoing it
Owning == {"insert", "add", "undoRow", "undoDo", "undoClear"}
Early == {"idle", "stage", "load"}

\* A session that will not become active, or that was hit while it was issued
Closed(s) == s \in raced \/ (row[s] # "active" /\ ~Issuing(s))

\* What a request knows where it stands; it owns its session alone
RequestInv ==
    \A v \in Verifiers :
        /\ pc[v] \in Early => mine[v] = None
        /\ pc[v] \notin Early => key[v] = recovery \/ status = "expired"
        /\ status = "pending" => pc[v] \in {"idle", "stage"}
        /\ pc[v] \in {"dropRow", "dropDo"} => prev[v] # None
        /\ pc[v] \in Owning =>
               /\ mine[v] # None
               /\ \A w \in Verifiers : pc[w] \in Owning /\ mine[w] = mine[v] => v = w

\* The jobs have ended the invitation before they close its session
JobInv ==
    /\ manager # "idle" => status = "revoked"
    /\ manager \in {"row", "do"} => claimSession # None
    /\ cron \in {"do", "clear"} => status = "expired" /\ picked[1] # None

\* Whoever replaces or clears a reservation has closed its session
ClosedInv ==
    /\ \A v \in Verifiers :
           pc[v] \in {"dropDo", "reserve"} /\ prev[v] # None => Closed(prev[v])
    /\ manager \in {"do", "told"} /\ claimSession # None => Closed(claimSession)
    /\ cron \in {"do", "clear"} /\ picked[1] = claimSession => Closed(picked[1])

\* A session that may become active is named, or was hit while it was issued
IssuedInv ==
    \A v \in Verifiers :
        pc[v] \in {"insert", "add"} => mine[v] = claimSession \/ mine[v] \in raced

\* A session is issued once, to a request that has one, and to none after an
\* account has accepted
OpenInv ==
    /\ acceptedBy = "account" => \A v \in Verifiers : pc[v] \in {"idle", "stage"}
    /\ \A v \in Verifiers :
           /\ pc[v] = "insert" => row[mine[v]] = "none"
           /\ pc[v] \in {"finalize", "confirm", "repair", "done"} => mine[v] # None

IInv == /\ TypeOK
        /\ OneAcceptance
        /\ RequestInv
        /\ JobInv
        /\ ClosedInv
        /\ IssuedInv
        /\ SessionIsNamed
        /\ OpenInv

\* The types, and a time for each reservation
LEMMA TypeStep ==
  ASSUME IInv, [Next]_vars
  PROVE  TypeOK'
  <1> USE ConstantsOK DEF IInv, TypeOK, Statuses, Claimed, Waits, RequestInv,
     Early, Owning, JobInv, Goto, Leave, Hold, RevokeRow, RevokeInDo, Race,
     clocks, reservation, acceptance, sessions, requests, jobs
  <1>1. CASE UNCHANGED vars
    BY <1>1 DEF vars
  <1>2. CASE Rotate
    <2>1. proofOver' \in BOOLEAN
      BY <1>2, Zenon DEF Rotate
    <2> QED BY <1>2, <2>1 DEF Rotate
  <1>3. CASE AcceptByAccount
    BY <1>3 DEF AcceptByAccount
  <1>4. CASE ExpirePending
    BY <1>4 DEF ExpirePending
  <1>5. CASE TimePasses
    <2>1. over' \in BOOLEAN
      BY <1>5, Zenon DEF TimePasses
    <2>2. proofOver' \in BOOLEAN
      BY <1>5, Zenon DEF TimePasses
    <2> QED BY <1>5, <2>1, <2>2 DEF TimePasses
  <1>6. CASE RevokeInvitation
    BY <1>6 DEF RevokeInvitation
  <1>7. CASE RevokeClaimRow
    BY <1>7 DEF RevokeClaimRow
  <1>8. CASE RevokeClaimInDo
    BY <1>8 DEF RevokeClaimInDo
  <1>9. CASE ManagerFails
    BY <1>9 DEF ManagerFails
  <1>10. CASE PickClaim
    BY <1>10 DEF PickClaim, Due
  <1>11. CASE ExpireBatch
    BY <1>11 DEF ExpireBatch, StillDue, Due
  <1>12. CASE ExpireInDo
    BY <1>12 DEF ExpireInDo
  <1>13. CASE ClearExpired
    BY <1>13 DEF ClearExpired
  <1>14. CASE CronEnds
    BY <1>14 DEF CronEnds
  <1>15. ASSUME NEW v \in Verifiers, Begin(v) PROVE TypeOK'
    BY <1>15 DEF Begin
  <1>16. ASSUME NEW v \in Verifiers, Stage(v) PROVE TypeOK'
    BY <1>16 DEF Stage
  <1>17. ASSUME NEW v \in Verifiers, Load(v) PROVE TypeOK'
    BY <1>17 DEF Load
  <1>18. ASSUME NEW v \in Verifiers, Choose(v) PROVE TypeOK'
    BY <1>18 DEF Choose, NextAfterSession
  <1>19. ASSUME NEW v \in Verifiers, DropRow(v) PROVE TypeOK'
    BY <1>19 DEF DropRow
  <1>20. ASSUME NEW v \in Verifiers, DropInDo(v) PROVE TypeOK'
    BY <1>20 DEF DropInDo
  <1>21. ASSUME NEW v \in Verifiers, Reserve(v) PROVE TypeOK'
    BY <1>21 DEF Reserve
  <1>22. ASSUME NEW v \in Verifiers, Insert(v) PROVE TypeOK'
    BY <1>22 DEF Insert
  <1>23. ASSUME NEW v \in Verifiers, AddInDo(v) PROVE TypeOK'
    BY <1>23 DEF AddInDo, NextAfterSession
  <1>24. ASSUME NEW v \in Verifiers, UndoRow(v) PROVE TypeOK'
    BY <1>24 DEF UndoRow
  <1>25. ASSUME NEW v \in Verifiers, UndoInDo(v) PROVE TypeOK'
    BY <1>25 DEF UndoInDo
  <1>26. ASSUME NEW v \in Verifiers, UndoClear(v) PROVE TypeOK'
    BY <1>26 DEF UndoClear
  <1>27. ASSUME NEW v \in Verifiers, Finalize(v) PROVE TypeOK'
    <2>1. member' \in BOOLEAN
      BY <1>27, Zenon DEF Finalize, Freezes
    <2>2. inOrg' \in BOOLEAN
      BY <1>27, Zenon DEF Finalize, Freezes
    <2> QED BY <1>27, <2>1, <2>2 DEF Finalize, Freezes
  <1>28. ASSUME NEW v \in Verifiers, Confirm(v) PROVE TypeOK'
    BY <1>28 DEF Confirm
  <1>29. ASSUME NEW v \in Verifiers, Repair(v) PROVE TypeOK'
    <2>1. inOrg' \in BOOLEAN
      BY <1>29, Zenon DEF Repair
    <2> QED BY <1>29, <2>1 DEF Repair
  <1>30. ASSUME NEW v \in Verifiers, Answer(v) PROVE TypeOK'
    BY <1>30 DEF Answer
  <1>31. ASSUME NEW v \in Verifiers, Drop(v) PROVE TypeOK'
    BY <1>31 DEF Drop
  <1> QED BY <1>1, <1>2, <1>3, <1>4, <1>5, <1>6, <1>7, <1>8, <1>9, <1>10,
     <1>11, <1>12, <1>13, <1>14, <1>15, <1>16, <1>17, <1>18, <1>19, <1>20,
     <1>21, <1>22, <1>23, <1>24, <1>25, <1>26, <1>27, <1>28, <1>29, <1>30,
     <1>31
          DEF Next, Verify, Manage, Expire

\* The acceptance: only a live invitation is accepted, and it stays so
LEMMA AcceptanceStep ==
  ASSUME IInv, [Next]_vars
  PROVE  OneAcceptance'
  <1> USE DEF IInv, TypeOK, Statuses, Claimed, Waits, OneAcceptance,
     Goto, Leave, Hold, RevokeRow, RevokeInDo, Race,
     clocks, reservation, acceptance, sessions, requests, jobs
  <1>1. CASE UNCHANGED vars
    BY <1>1 DEF vars
  <1>2. CASE Rotate
    BY <1>2 DEF Rotate
  <1>3. CASE AcceptByAccount
    BY <1>3 DEF AcceptByAccount
  <1>4. CASE ExpirePending
    BY <1>4 DEF ExpirePending
  <1>5. CASE TimePasses
    BY <1>5 DEF TimePasses
  <1>6. CASE RevokeInvitation
    BY <1>6 DEF RevokeInvitation
  <1>7. CASE RevokeClaimRow
    BY <1>7 DEF RevokeClaimRow
  <1>8. CASE RevokeClaimInDo
    BY <1>8 DEF RevokeClaimInDo
  <1>9. CASE ManagerFails
    BY <1>9 DEF ManagerFails
  <1>10. CASE PickClaim
    BY <1>10 DEF PickClaim, Due
  <1>11. CASE ExpireBatch
    BY <1>11 DEF ExpireBatch, StillDue, Due
  <1>12. CASE ExpireInDo
    BY <1>12 DEF ExpireInDo
  <1>13. CASE ClearExpired
    BY <1>13 DEF ClearExpired
  <1>14. CASE CronEnds
    BY <1>14 DEF CronEnds
  <1>15. ASSUME NEW v \in Verifiers, Begin(v) PROVE OneAcceptance'
    BY <1>15 DEF Begin
  <1>16. ASSUME NEW v \in Verifiers, Stage(v) PROVE OneAcceptance'
    BY <1>16 DEF Stage
  <1>17. ASSUME NEW v \in Verifiers, Load(v) PROVE OneAcceptance'
    BY <1>17 DEF Load
  <1>18. ASSUME NEW v \in Verifiers, Choose(v) PROVE OneAcceptance'
    BY <1>18 DEF Choose, NextAfterSession
  <1>19. ASSUME NEW v \in Verifiers, DropRow(v) PROVE OneAcceptance'
    BY <1>19 DEF DropRow
  <1>20. ASSUME NEW v \in Verifiers, DropInDo(v) PROVE OneAcceptance'
    BY <1>20 DEF DropInDo
  <1>21. ASSUME NEW v \in Verifiers, Reserve(v) PROVE OneAcceptance'
    BY <1>21 DEF Reserve
  <1>22. ASSUME NEW v \in Verifiers, Insert(v) PROVE OneAcceptance'
    BY <1>22 DEF Insert
  <1>23. ASSUME NEW v \in Verifiers, AddInDo(v) PROVE OneAcceptance'
    BY <1>23 DEF AddInDo, NextAfterSession
  <1>24. ASSUME NEW v \in Verifiers, UndoRow(v) PROVE OneAcceptance'
    BY <1>24 DEF UndoRow
  <1>25. ASSUME NEW v \in Verifiers, UndoInDo(v) PROVE OneAcceptance'
    BY <1>25 DEF UndoInDo
  <1>26. ASSUME NEW v \in Verifiers, UndoClear(v) PROVE OneAcceptance'
    BY <1>26 DEF UndoClear
  <1>27. ASSUME NEW v \in Verifiers, Finalize(v) PROVE OneAcceptance'
    BY <1>27 DEF Finalize, Freezes
  <1>28. ASSUME NEW v \in Verifiers, Confirm(v) PROVE OneAcceptance'
    BY <1>28 DEF Confirm
  <1>29. ASSUME NEW v \in Verifiers, Repair(v) PROVE OneAcceptance'
    BY <1>29 DEF Repair
  <1>30. ASSUME NEW v \in Verifiers, Answer(v) PROVE OneAcceptance'
    BY <1>30 DEF Answer
  <1>31. ASSUME NEW v \in Verifiers, Drop(v) PROVE OneAcceptance'
    BY <1>31 DEF Drop
  <1> QED BY <1>1, <1>2, <1>3, <1>4, <1>5, <1>6, <1>7, <1>8, <1>9, <1>10,
     <1>11, <1>12, <1>13, <1>14, <1>15, <1>16, <1>17, <1>18, <1>19, <1>20,
     <1>21, <1>22, <1>23, <1>24, <1>25, <1>26, <1>27, <1>28, <1>29, <1>30,
     <1>31
          DEF Next, Verify, Manage, Expire

\* The requests: their keys and their sessions
LEMMA RequestStep ==
  ASSUME IInv, [Next]_vars
  PROVE  RequestInv'
  <1> USE ConstantsOK DEF IInv, TypeOK, Statuses, Claimed, Waits, RequestInv,
     Early, Owning, Fresh, Goto, Leave, Hold, RevokeRow, RevokeInDo, Race,
     clocks, reservation, acceptance, sessions, requests, jobs
  <1>1. CASE UNCHANGED vars
    BY <1>1 DEF vars
  <1>2. CASE Rotate
    BY <1>2 DEF Rotate
  <1>3. CASE AcceptByAccount
    BY <1>3 DEF AcceptByAccount
  <1>4. CASE ExpirePending
    BY <1>4 DEF ExpirePending
  <1>5. CASE TimePasses
    BY <1>5 DEF TimePasses
  <1>6. CASE RevokeInvitation
    BY <1>6 DEF RevokeInvitation
  <1>7. CASE RevokeClaimRow
    BY <1>7 DEF RevokeClaimRow
  <1>8. CASE RevokeClaimInDo
    BY <1>8 DEF RevokeClaimInDo
  <1>9. CASE ManagerFails
    BY <1>9 DEF ManagerFails
  <1>10. CASE PickClaim
    BY <1>10 DEF PickClaim, Due
  <1>11. CASE ExpireBatch
    BY <1>11 DEF ExpireBatch, StillDue, Due
  <1>12. CASE ExpireInDo
    BY <1>12 DEF ExpireInDo
  <1>13. CASE ClearExpired
    BY <1>13 DEF ClearExpired
  <1>14. CASE CronEnds
    BY <1>14 DEF CronEnds
  <1>15. ASSUME NEW v \in Verifiers, Begin(v) PROVE RequestInv'
    BY <1>15 DEF Begin
  <1>16. ASSUME NEW v \in Verifiers, Stage(v) PROVE RequestInv'
    BY <1>16 DEF Stage
  <1>17. ASSUME NEW v \in Verifiers, Load(v) PROVE RequestInv'
    BY <1>17 DEF Load
  <1>18. ASSUME NEW v \in Verifiers, Choose(v) PROVE RequestInv'
    BY <1>18 DEF Choose, NextAfterSession
  <1>19. ASSUME NEW v \in Verifiers, DropRow(v) PROVE RequestInv'
    BY <1>19 DEF DropRow
  <1>20. ASSUME NEW v \in Verifiers, DropInDo(v) PROVE RequestInv'
    BY <1>20 DEF DropInDo
  <1>21. ASSUME NEW v \in Verifiers, Reserve(v) PROVE RequestInv'
    BY <1>21 DEF Reserve
  <1>22. ASSUME NEW v \in Verifiers, Insert(v) PROVE RequestInv'
    BY <1>22 DEF Insert
  <1>23. ASSUME NEW v \in Verifiers, AddInDo(v) PROVE RequestInv'
    BY <1>23 DEF AddInDo, NextAfterSession
  <1>24. ASSUME NEW v \in Verifiers, UndoRow(v) PROVE RequestInv'
    BY <1>24 DEF UndoRow
  <1>25. ASSUME NEW v \in Verifiers, UndoInDo(v) PROVE RequestInv'
    BY <1>25 DEF UndoInDo
  <1>26. ASSUME NEW v \in Verifiers, UndoClear(v) PROVE RequestInv'
    BY <1>26 DEF UndoClear
  <1>27. ASSUME NEW v \in Verifiers, Finalize(v) PROVE RequestInv'
    BY <1>27 DEF Finalize, Freezes
  <1>28. ASSUME NEW v \in Verifiers, Confirm(v) PROVE RequestInv'
    BY <1>28 DEF Confirm
  <1>29. ASSUME NEW v \in Verifiers, Repair(v) PROVE RequestInv'
    BY <1>29 DEF Repair
  <1>30. ASSUME NEW v \in Verifiers, Answer(v) PROVE RequestInv'
    BY <1>30 DEF Answer
  <1>31. ASSUME NEW v \in Verifiers, Drop(v) PROVE RequestInv'
    BY <1>31 DEF Drop
  <1> QED BY <1>1, <1>2, <1>3, <1>4, <1>5, <1>6, <1>7, <1>8, <1>9, <1>10,
     <1>11, <1>12, <1>13, <1>14, <1>15, <1>16, <1>17, <1>18, <1>19, <1>20,
     <1>21, <1>22, <1>23, <1>24, <1>25, <1>26, <1>27, <1>28, <1>29, <1>30,
     <1>31
          DEF Next, Verify, Manage, Expire

\* The jobs: a revoked or an expired invitation stays so
LEMMA JobStep ==
  ASSUME IInv, [Next]_vars
  PROVE  JobInv'
  <1> USE ConstantsOK DEF IInv, TypeOK, Statuses, Claimed, Waits, JobInv,
     Goto, Leave, Hold, RevokeRow, RevokeInDo, Race, clocks, reservation,
     acceptance, sessions, requests, jobs
  <1>1. CASE UNCHANGED vars
    BY <1>1 DEF vars
  <1>2. CASE Rotate
    BY <1>2 DEF Rotate
  <1>3. CASE AcceptByAccount
    BY <1>3 DEF AcceptByAccount
  <1>4. CASE ExpirePending
    BY <1>4 DEF ExpirePending
  <1>5. CASE TimePasses
    BY <1>5 DEF TimePasses
  <1>6. CASE RevokeInvitation
    BY <1>6 DEF RevokeInvitation
  <1>7. CASE RevokeClaimRow
    BY <1>7 DEF RevokeClaimRow
  <1>8. CASE RevokeClaimInDo
    BY <1>8 DEF RevokeClaimInDo
  <1>9. CASE ManagerFails
    BY <1>9 DEF ManagerFails
  <1>10. CASE PickClaim
    BY <1>10 DEF PickClaim, Due
  <1>11. CASE ExpireBatch
    BY <1>11 DEF ExpireBatch, StillDue, Due
  <1>12. CASE ExpireInDo
    BY <1>12 DEF ExpireInDo
  <1>13. CASE ClearExpired
    BY <1>13 DEF ClearExpired
  <1>14. CASE CronEnds
    BY <1>14 DEF CronEnds
  <1>15. ASSUME NEW v \in Verifiers, Begin(v) PROVE JobInv'
    BY <1>15 DEF Begin
  <1>16. ASSUME NEW v \in Verifiers, Stage(v) PROVE JobInv'
    BY <1>16 DEF Stage
  <1>17. ASSUME NEW v \in Verifiers, Load(v) PROVE JobInv'
    BY <1>17 DEF Load
  <1>18. ASSUME NEW v \in Verifiers, Choose(v) PROVE JobInv'
    BY <1>18 DEF Choose, NextAfterSession
  <1>19. ASSUME NEW v \in Verifiers, DropRow(v) PROVE JobInv'
    BY <1>19 DEF DropRow
  <1>20. ASSUME NEW v \in Verifiers, DropInDo(v) PROVE JobInv'
    BY <1>20 DEF DropInDo
  <1>21. ASSUME NEW v \in Verifiers, Reserve(v) PROVE JobInv'
    BY <1>21 DEF Reserve
  <1>22. ASSUME NEW v \in Verifiers, Insert(v) PROVE JobInv'
    BY <1>22 DEF Insert
  <1>23. ASSUME NEW v \in Verifiers, AddInDo(v) PROVE JobInv'
    BY <1>23 DEF AddInDo, NextAfterSession
  <1>24. ASSUME NEW v \in Verifiers, UndoRow(v) PROVE JobInv'
    BY <1>24 DEF UndoRow
  <1>25. ASSUME NEW v \in Verifiers, UndoInDo(v) PROVE JobInv'
    BY <1>25 DEF UndoInDo
  <1>26. ASSUME NEW v \in Verifiers, UndoClear(v) PROVE JobInv'
    BY <1>26 DEF UndoClear
  <1>27. ASSUME NEW v \in Verifiers, Finalize(v) PROVE JobInv'
    BY <1>27 DEF Finalize, Freezes
  <1>28. ASSUME NEW v \in Verifiers, Confirm(v) PROVE JobInv'
    BY <1>28 DEF Confirm
  <1>29. ASSUME NEW v \in Verifiers, Repair(v) PROVE JobInv'
    BY <1>29 DEF Repair
  <1>30. ASSUME NEW v \in Verifiers, Answer(v) PROVE JobInv'
    BY <1>30 DEF Answer
  <1>31. ASSUME NEW v \in Verifiers, Drop(v) PROVE JobInv'
    BY <1>31 DEF Drop
  <1> QED BY <1>1, <1>2, <1>3, <1>4, <1>5, <1>6, <1>7, <1>8, <1>9, <1>10,
     <1>11, <1>12, <1>13, <1>14, <1>15, <1>16, <1>17, <1>18, <1>19, <1>20,
     <1>21, <1>22, <1>23, <1>24, <1>25, <1>26, <1>27, <1>28, <1>29, <1>30,
     <1>31
          DEF Next, Verify, Manage, Expire

\* A session once closed stays closed: a new one has a fresh id
LEMMA ClosedStays ==
  ASSUME IInv, [Next]_vars, NEW s \in Sessions, Closed(s),
         s \in {prev[v] : v \in Verifiers} \cup {claimSession, picked[1]}
  PROVE  Closed(s)'
  <1> USE DEF IInv, TypeOK, Closed, Issuing, Waits, Goto, Leave, Hold, RevokeRow,
     RevokeInDo, Race, clocks, reservation, acceptance, sessions, requests, jobs
  <1>1. CASE UNCHANGED vars
    BY <1>1 DEF vars
  <1>2. CASE Rotate
    BY <1>2 DEF Rotate
  <1>3. CASE AcceptByAccount
    BY <1>3 DEF AcceptByAccount
  <1>4. CASE ExpirePending
    BY <1>4 DEF ExpirePending
  <1>5. CASE TimePasses
    BY <1>5 DEF TimePasses
  <1>6. CASE RevokeInvitation
    BY <1>6 DEF RevokeInvitation
  <1>7. CASE RevokeClaimRow
    BY <1>7 DEF RevokeClaimRow
  <1>8. CASE RevokeClaimInDo
    BY <1>8 DEF RevokeClaimInDo
  <1>9. CASE ManagerFails
    BY <1>9 DEF ManagerFails
  <1>10. CASE PickClaim
    BY <1>10 DEF PickClaim
  <1>11. CASE ExpireBatch
    BY <1>11 DEF ExpireBatch
  <1>12. CASE ExpireInDo
    BY <1>12 DEF ExpireInDo
  <1>13. CASE ClearExpired
    BY <1>13 DEF ClearExpired
  <1>14. CASE CronEnds
    BY <1>14 DEF CronEnds
  <1>15. ASSUME NEW v \in Verifiers, Begin(v) PROVE Closed(s)'
    BY <1>15 DEF Begin
  <1>16. ASSUME NEW v \in Verifiers, Stage(v) PROVE Closed(s)'
    BY <1>16 DEF Stage
  <1>17. ASSUME NEW v \in Verifiers, Load(v) PROVE Closed(s)'
    BY <1>17 DEF Load
  <1>18. ASSUME NEW v \in Verifiers, Choose(v) PROVE Closed(s)'
    BY <1>18 DEF Choose, NextAfterSession
  <1>19. ASSUME NEW v \in Verifiers, DropRow(v) PROVE Closed(s)'
    BY <1>19 DEF DropRow
  <1>20. ASSUME NEW v \in Verifiers, DropInDo(v) PROVE Closed(s)'
    BY <1>20 DEF DropInDo
  <1>21. ASSUME NEW v \in Verifiers, Reserve(v) PROVE Closed(s)'
    BY <1>21 DEF Reserve, Fresh
  <1>22. ASSUME NEW v \in Verifiers, Insert(v) PROVE Closed(s)'
    BY <1>22 DEF Insert
  <1>23. ASSUME NEW v \in Verifiers, AddInDo(v) PROVE Closed(s)'
    BY <1>23 DEF AddInDo, NextAfterSession
  <1>24. ASSUME NEW v \in Verifiers, UndoRow(v) PROVE Closed(s)'
    BY <1>24 DEF UndoRow
  <1>25. ASSUME NEW v \in Verifiers, UndoInDo(v) PROVE Closed(s)'
    BY <1>25 DEF UndoInDo
  <1>26. ASSUME NEW v \in Verifiers, UndoClear(v) PROVE Closed(s)'
    BY <1>26 DEF UndoClear
  <1>27. ASSUME NEW v \in Verifiers, Finalize(v) PROVE Closed(s)'
    BY <1>27 DEF Finalize, Freezes
  <1>28. ASSUME NEW v \in Verifiers, Confirm(v) PROVE Closed(s)'
    BY <1>28 DEF Confirm
  <1>29. ASSUME NEW v \in Verifiers, Repair(v) PROVE Closed(s)'
    BY <1>29 DEF Repair
  <1>30. ASSUME NEW v \in Verifiers, Answer(v) PROVE Closed(s)'
    BY <1>30 DEF Answer
  <1>31. ASSUME NEW v \in Verifiers, Drop(v) PROVE Closed(s)'
    BY <1>31 DEF Drop
  <1> QED BY <1>1, <1>2, <1>3, <1>4, <1>5, <1>6, <1>7, <1>8, <1>9, <1>10,
     <1>11, <1>12, <1>13, <1>14, <1>15, <1>16, <1>17, <1>18, <1>19, <1>20,
     <1>21, <1>22, <1>23, <1>24, <1>25, <1>26, <1>27, <1>28, <1>29, <1>30,
     <1>31
          DEF Next, Verify, Manage, Expire

\* The closed sessions of requests and jobs
LEMMA ClosedStep ==
  ASSUME IInv, [Next]_vars
  PROVE  ClosedInv'
  <1> USE ConstantsOK, ClosedStays DEF IInv, TypeOK, Statuses, Claimed, Waits,
     ClosedInv, RequestInv, JobInv, Goto, Leave, Hold, RevokeRow, RevokeInDo,
     Race, clocks, reservation, acceptance, sessions, requests, jobs
  <1>1. CASE UNCHANGED vars
    BY <1>1 DEF vars
  <1>2. CASE Rotate
    BY <1>2 DEF Rotate
  <1>3. CASE AcceptByAccount
    BY <1>3 DEF AcceptByAccount
  <1>4. CASE ExpirePending
    BY <1>4 DEF ExpirePending
  <1>5. CASE TimePasses
    BY <1>5 DEF TimePasses
  <1>6. CASE RevokeInvitation
    BY <1>6 DEF RevokeInvitation
  <1>7. CASE RevokeClaimRow
    <2>1. Closed(claimSession)'
      BY <1>7 DEF RevokeClaimRow, Closed, Issuing
    <2> QED BY <1>7, <2>1 DEF RevokeClaimRow
  <1>8. CASE RevokeClaimInDo
    BY <1>8 DEF RevokeClaimInDo
  <1>9. CASE ManagerFails
    BY <1>9 DEF ManagerFails
  <1>10. CASE PickClaim
    BY <1>10 DEF PickClaim, Due
  <1>11. CASE ExpireBatch
    <2>1. picked[1] # None /\ picked[1] = claimSession => Closed(claimSession)'
      BY <1>11 DEF ExpireBatch, Closed, Issuing
    <2> QED BY <1>11, <2>1 DEF ExpireBatch, StillDue, Due
  <1>12. CASE ExpireInDo
    BY <1>12 DEF ExpireInDo
  <1>13. CASE ClearExpired
    BY <1>13 DEF ClearExpired
  <1>14. CASE CronEnds
    BY <1>14 DEF CronEnds
  <1>15. ASSUME NEW v \in Verifiers, Begin(v) PROVE ClosedInv'
    BY <1>15 DEF Begin
  <1>16. ASSUME NEW v \in Verifiers, Stage(v) PROVE ClosedInv'
    BY <1>16 DEF Stage
  <1>17. ASSUME NEW v \in Verifiers, Load(v) PROVE ClosedInv'
    BY <1>17 DEF Load
  <1>18. ASSUME NEW v \in Verifiers, Choose(v) PROVE ClosedInv'
    BY <1>18 DEF Choose, NextAfterSession
  <1>19. ASSUME NEW v \in Verifiers, DropRow(v) PROVE ClosedInv'
    <2>1. Closed(prev[v])'
      BY <1>19 DEF DropRow, Closed, Issuing
    <2> QED BY <1>19, <2>1 DEF DropRow
  <1>20. ASSUME NEW v \in Verifiers, DropInDo(v) PROVE ClosedInv'
    BY <1>20 DEF DropInDo
  <1>21. ASSUME NEW v \in Verifiers, Reserve(v) PROVE ClosedInv'
    BY <1>21 DEF Reserve
  <1>22. ASSUME NEW v \in Verifiers, Insert(v) PROVE ClosedInv'
    BY <1>22 DEF Insert
  <1>23. ASSUME NEW v \in Verifiers, AddInDo(v) PROVE ClosedInv'
    BY <1>23 DEF AddInDo, NextAfterSession
  <1>24. ASSUME NEW v \in Verifiers, UndoRow(v) PROVE ClosedInv'
    BY <1>24 DEF UndoRow
  <1>25. ASSUME NEW v \in Verifiers, UndoInDo(v) PROVE ClosedInv'
    BY <1>25 DEF UndoInDo
  <1>26. ASSUME NEW v \in Verifiers, UndoClear(v) PROVE ClosedInv'
    BY <1>26 DEF UndoClear
  <1>27. ASSUME NEW v \in Verifiers, Finalize(v) PROVE ClosedInv'
    BY <1>27 DEF Finalize, Freezes
  <1>28. ASSUME NEW v \in Verifiers, Confirm(v) PROVE ClosedInv'
    BY <1>28 DEF Confirm
  <1>29. ASSUME NEW v \in Verifiers, Repair(v) PROVE ClosedInv'
    BY <1>29 DEF Repair
  <1>30. ASSUME NEW v \in Verifiers, Answer(v) PROVE ClosedInv'
    BY <1>30 DEF Answer
  <1>31. ASSUME NEW v \in Verifiers, Drop(v) PROVE ClosedInv'
    BY <1>31 DEF Drop
  <1> QED BY <1>1, <1>2, <1>3, <1>4, <1>5, <1>6, <1>7, <1>8, <1>9, <1>10,
     <1>11, <1>12, <1>13, <1>14, <1>15, <1>16, <1>17, <1>18, <1>19, <1>20,
     <1>21, <1>22, <1>23, <1>24, <1>25, <1>26, <1>27, <1>28, <1>29, <1>30,
     <1>31
          DEF Next, Verify, Manage, Expire

\* The sessions being issued
LEMMA IssuedStep ==
  ASSUME IInv, [Next]_vars
  PROVE  IssuedInv'
  <1> USE ConstantsOK DEF IInv, TypeOK, Statuses, Claimed, Waits, IssuedInv,
     RequestInv, JobInv, ClosedInv, Closed, Issuing, Owning, Early, Fresh,
     Goto, Leave, Hold, RevokeRow, RevokeInDo, Race, clocks, reservation,
     acceptance, sessions, requests, jobs
  <1>1. CASE UNCHANGED vars
    BY <1>1 DEF vars
  <1>2. CASE Rotate
    BY <1>2 DEF Rotate
  <1>3. CASE AcceptByAccount
    BY <1>3 DEF AcceptByAccount
  <1>4. CASE ExpirePending
    BY <1>4 DEF ExpirePending
  <1>5. CASE TimePasses
    BY <1>5 DEF TimePasses
  <1>6. CASE RevokeInvitation
    BY <1>6 DEF RevokeInvitation
  <1>7. CASE RevokeClaimRow
    BY <1>7 DEF RevokeClaimRow
  <1>8. CASE RevokeClaimInDo
    BY <1>8 DEF RevokeClaimInDo
  <1>9. CASE ManagerFails
    BY <1>9 DEF ManagerFails
  <1>10. CASE PickClaim
    BY <1>10 DEF PickClaim, Due
  <1>11. CASE ExpireBatch
    BY <1>11 DEF ExpireBatch, StillDue, Due
  <1>12. CASE ExpireInDo
    BY <1>12 DEF ExpireInDo
  <1>13. CASE ClearExpired
    BY <1>13 DEF ClearExpired
  <1>14. CASE CronEnds
    BY <1>14 DEF CronEnds
  <1>15. ASSUME NEW v \in Verifiers, Begin(v) PROVE IssuedInv'
    BY <1>15 DEF Begin
  <1>16. ASSUME NEW v \in Verifiers, Stage(v) PROVE IssuedInv'
    BY <1>16 DEF Stage
  <1>17. ASSUME NEW v \in Verifiers, Load(v) PROVE IssuedInv'
    BY <1>17 DEF Load
  <1>18. ASSUME NEW v \in Verifiers, Choose(v) PROVE IssuedInv'
    BY <1>18 DEF Choose, NextAfterSession
  <1>19. ASSUME NEW v \in Verifiers, DropRow(v) PROVE IssuedInv'
    BY <1>19 DEF DropRow
  <1>20. ASSUME NEW v \in Verifiers, DropInDo(v) PROVE IssuedInv'
    BY <1>20 DEF DropInDo
  <1>21. ASSUME NEW v \in Verifiers, Reserve(v) PROVE IssuedInv'
    BY <1>21 DEF Reserve
  <1>22. ASSUME NEW v \in Verifiers, Insert(v) PROVE IssuedInv'
    BY <1>22 DEF Insert
  <1>23. ASSUME NEW v \in Verifiers, AddInDo(v) PROVE IssuedInv'
    BY <1>23 DEF AddInDo, NextAfterSession
  <1>24. ASSUME NEW v \in Verifiers, UndoRow(v) PROVE IssuedInv'
    BY <1>24 DEF UndoRow
  <1>25. ASSUME NEW v \in Verifiers, UndoInDo(v) PROVE IssuedInv'
    BY <1>25 DEF UndoInDo
  <1>26. ASSUME NEW v \in Verifiers, UndoClear(v) PROVE IssuedInv'
    BY <1>26 DEF UndoClear
  <1>27. ASSUME NEW v \in Verifiers, Finalize(v) PROVE IssuedInv'
    BY <1>27 DEF Finalize, Freezes
  <1>28. ASSUME NEW v \in Verifiers, Confirm(v) PROVE IssuedInv'
    BY <1>28 DEF Confirm
  <1>29. ASSUME NEW v \in Verifiers, Repair(v) PROVE IssuedInv'
    BY <1>29 DEF Repair
  <1>30. ASSUME NEW v \in Verifiers, Answer(v) PROVE IssuedInv'
    BY <1>30 DEF Answer
  <1>31. ASSUME NEW v \in Verifiers, Drop(v) PROVE IssuedInv'
    BY <1>31 DEF Drop
  <1> QED BY <1>1, <1>2, <1>3, <1>4, <1>5, <1>6, <1>7, <1>8, <1>9, <1>10,
     <1>11, <1>12, <1>13, <1>14, <1>15, <1>16, <1>17, <1>18, <1>19, <1>20,
     <1>21, <1>22, <1>23, <1>24, <1>25, <1>26, <1>27, <1>28, <1>29, <1>30,
     <1>31
          DEF Next, Verify, Manage, Expire

\* The sessions that count
LEMMA NamedStep ==
  ASSUME IInv, [Next]_vars
  PROVE  SessionIsNamed'
  <1> USE ConstantsOK DEF IInv, TypeOK, Statuses, Claimed, Waits,
     SessionIsNamed, IssuedInv, JobInv, ClosedInv, Closed, Fresh, Goto, Leave,
     Hold, RevokeRow, RevokeInDo, Race, clocks, reservation, acceptance,
     sessions, requests, jobs
  <1>1. CASE UNCHANGED vars
    BY <1>1 DEF vars
  <1>2. CASE Rotate
    BY <1>2 DEF Rotate
  <1>3. CASE AcceptByAccount
    BY <1>3 DEF AcceptByAccount
  <1>4. CASE ExpirePending
    BY <1>4 DEF ExpirePending
  <1>5. CASE TimePasses
    BY <1>5 DEF TimePasses
  <1>6. CASE RevokeInvitation
    BY <1>6 DEF RevokeInvitation
  <1>7. CASE RevokeClaimRow
    BY <1>7 DEF RevokeClaimRow
  <1>8. CASE RevokeClaimInDo
    BY <1>8 DEF RevokeClaimInDo
  <1>9. CASE ManagerFails
    BY <1>9 DEF ManagerFails
  <1>10. CASE PickClaim
    BY <1>10 DEF PickClaim, Due
  <1>11. CASE ExpireBatch
    BY <1>11 DEF ExpireBatch, StillDue, Due
  <1>12. CASE ExpireInDo
    BY <1>12 DEF ExpireInDo
  <1>13. CASE ClearExpired
    BY <1>13 DEF ClearExpired
  <1>14. CASE CronEnds
    BY <1>14 DEF CronEnds
  <1>15. ASSUME NEW v \in Verifiers, Begin(v) PROVE SessionIsNamed'
    BY <1>15 DEF Begin
  <1>16. ASSUME NEW v \in Verifiers, Stage(v) PROVE SessionIsNamed'
    BY <1>16 DEF Stage
  <1>17. ASSUME NEW v \in Verifiers, Load(v) PROVE SessionIsNamed'
    BY <1>17 DEF Load
  <1>18. ASSUME NEW v \in Verifiers, Choose(v) PROVE SessionIsNamed'
    BY <1>18 DEF Choose, NextAfterSession
  <1>19. ASSUME NEW v \in Verifiers, DropRow(v) PROVE SessionIsNamed'
    BY <1>19 DEF DropRow
  <1>20. ASSUME NEW v \in Verifiers, DropInDo(v) PROVE SessionIsNamed'
    BY <1>20 DEF DropInDo
  <1>21. ASSUME NEW v \in Verifiers, Reserve(v) PROVE SessionIsNamed'
    BY <1>21 DEF Reserve
  <1>22. ASSUME NEW v \in Verifiers, Insert(v) PROVE SessionIsNamed'
    BY <1>22 DEF Insert
  <1>23. ASSUME NEW v \in Verifiers, AddInDo(v) PROVE SessionIsNamed'
    BY <1>23 DEF AddInDo, NextAfterSession
  <1>24. ASSUME NEW v \in Verifiers, UndoRow(v) PROVE SessionIsNamed'
    BY <1>24 DEF UndoRow
  <1>25. ASSUME NEW v \in Verifiers, UndoInDo(v) PROVE SessionIsNamed'
    BY <1>25 DEF UndoInDo
  <1>26. ASSUME NEW v \in Verifiers, UndoClear(v) PROVE SessionIsNamed'
    BY <1>26 DEF UndoClear
  <1>27. ASSUME NEW v \in Verifiers, Finalize(v) PROVE SessionIsNamed'
    BY <1>27 DEF Finalize, Freezes
  <1>28. ASSUME NEW v \in Verifiers, Confirm(v) PROVE SessionIsNamed'
    BY <1>28 DEF Confirm
  <1>29. ASSUME NEW v \in Verifiers, Repair(v) PROVE SessionIsNamed'
    BY <1>29 DEF Repair
  <1>30. ASSUME NEW v \in Verifiers, Answer(v) PROVE SessionIsNamed'
    BY <1>30 DEF Answer
  <1>31. ASSUME NEW v \in Verifiers, Drop(v) PROVE SessionIsNamed'
    BY <1>31 DEF Drop
  <1> QED BY <1>1, <1>2, <1>3, <1>4, <1>5, <1>6, <1>7, <1>8, <1>9, <1>10,
     <1>11, <1>12, <1>13, <1>14, <1>15, <1>16, <1>17, <1>18, <1>19, <1>20,
     <1>21, <1>22, <1>23, <1>24, <1>25, <1>26, <1>27, <1>28, <1>29, <1>30,
     <1>31
          DEF Next, Verify, Manage, Expire

\* A session is issued once, and to no one after an account has accepted
LEMMA OpenStep ==
  ASSUME IInv, [Next]_vars
  PROVE  OpenInv'
  <1> USE ConstantsOK DEF IInv, TypeOK, Statuses, Claimed, Waits,
     OpenInv, OneAcceptance, RequestInv, Owning, Early, Fresh, Goto, Leave, Hold,
     RevokeRow, RevokeInDo, Race, clocks, reservation, acceptance,
     sessions, requests, jobs
  <1>1. CASE UNCHANGED vars
    BY <1>1 DEF vars
  <1>2. CASE Rotate
    BY <1>2 DEF Rotate
  <1>3. CASE AcceptByAccount
    BY <1>3 DEF AcceptByAccount
  <1>4. CASE ExpirePending
    BY <1>4 DEF ExpirePending
  <1>5. CASE TimePasses
    BY <1>5 DEF TimePasses
  <1>6. CASE RevokeInvitation
    BY <1>6 DEF RevokeInvitation
  <1>7. CASE RevokeClaimRow
    BY <1>7 DEF RevokeClaimRow
  <1>8. CASE RevokeClaimInDo
    BY <1>8 DEF RevokeClaimInDo
  <1>9. CASE ManagerFails
    BY <1>9 DEF ManagerFails
  <1>10. CASE PickClaim
    BY <1>10 DEF PickClaim, Due
  <1>11. CASE ExpireBatch
    BY <1>11 DEF ExpireBatch, StillDue, Due
  <1>12. CASE ExpireInDo
    BY <1>12 DEF ExpireInDo
  <1>13. CASE ClearExpired
    BY <1>13 DEF ClearExpired
  <1>14. CASE CronEnds
    BY <1>14 DEF CronEnds
  <1>15. ASSUME NEW v \in Verifiers, Begin(v) PROVE OpenInv'
    BY <1>15 DEF Begin
  <1>16. ASSUME NEW v \in Verifiers, Stage(v) PROVE OpenInv'
    BY <1>16 DEF Stage
  <1>17. ASSUME NEW v \in Verifiers, Load(v) PROVE OpenInv'
    BY <1>17 DEF Load
  <1>18. ASSUME NEW v \in Verifiers, Choose(v) PROVE OpenInv'
    BY <1>18 DEF Choose, NextAfterSession
  <1>19. ASSUME NEW v \in Verifiers, DropRow(v) PROVE OpenInv'
    BY <1>19 DEF DropRow
  <1>20. ASSUME NEW v \in Verifiers, DropInDo(v) PROVE OpenInv'
    BY <1>20 DEF DropInDo
  <1>21. ASSUME NEW v \in Verifiers, Reserve(v) PROVE OpenInv'
    BY <1>21 DEF Reserve
  <1>22. ASSUME NEW v \in Verifiers, Insert(v) PROVE OpenInv'
    BY <1>22 DEF Insert
  <1>23. ASSUME NEW v \in Verifiers, AddInDo(v) PROVE OpenInv'
    BY <1>23 DEF AddInDo, NextAfterSession
  <1>24. ASSUME NEW v \in Verifiers, UndoRow(v) PROVE OpenInv'
    BY <1>24 DEF UndoRow
  <1>25. ASSUME NEW v \in Verifiers, UndoInDo(v) PROVE OpenInv'
    BY <1>25 DEF UndoInDo
  <1>26. ASSUME NEW v \in Verifiers, UndoClear(v) PROVE OpenInv'
    BY <1>26 DEF UndoClear
  <1>27. ASSUME NEW v \in Verifiers, Finalize(v) PROVE OpenInv'
    BY <1>27 DEF Finalize, Freezes
  <1>28. ASSUME NEW v \in Verifiers, Confirm(v) PROVE OpenInv'
    BY <1>28 DEF Confirm
  <1>29. ASSUME NEW v \in Verifiers, Repair(v) PROVE OpenInv'
    BY <1>29 DEF Repair
  <1>30. ASSUME NEW v \in Verifiers, Answer(v) PROVE OpenInv'
    BY <1>30 DEF Answer
  <1>31. ASSUME NEW v \in Verifiers, Drop(v) PROVE OpenInv'
    BY <1>31 DEF Drop
  <1> QED BY <1>1, <1>2, <1>3, <1>4, <1>5, <1>6, <1>7, <1>8, <1>9, <1>10,
     <1>11, <1>12, <1>13, <1>14, <1>15, <1>16, <1>17, <1>18, <1>19, <1>20,
     <1>21, <1>22, <1>23, <1>24, <1>25, <1>26, <1>27, <1>28, <1>29, <1>30,
     <1>31
          DEF Next, Verify, Manage, Expire

-----------------------------------------------------------------------------
\* Every part of the invariant holds in every state
THEOREM Safety == Spec => []IInv
  <1>1. Init => IInv
    <2> SUFFICES ASSUME Init PROVE IInv
      OBVIOUS
    <2>0. over \in BOOLEAN /\ proofOver \in BOOLEAN /\ member \in BOOLEAN
          /\ inOrg \in BOOLEAN
      BY Zenon DEF Init
    <2>1. TypeOK
      BY <2>0, ConstantsOK DEF Init, TypeOK, Statuses, Waits
    <2>2. OneAcceptance
      BY DEF Init, OneAcceptance
    <2>3. RequestInv /\ JobInv /\ ClosedInv /\ IssuedInv /\ SessionIsNamed
           /\ OpenInv
      BY DEF Init, RequestInv, Early, Owning, JobInv, ClosedInv, IssuedInv,
         SessionIsNamed, OpenInv
    <2> QED BY <2>1, <2>2, <2>3 DEF IInv
  <1>2. IInv /\ [Next]_vars => IInv'
    BY TypeStep, AcceptanceStep, RequestStep, JobStep, ClosedStep, IssuedStep,
       NamedStep, OpenStep DEF IInv
  <1> QED BY <1>1, <1>2, PTL DEF Spec

\* The types, for every set of requests, browsers and sessions
THEOREM TypeCorrect == Spec => []TypeOK
  BY Safety, PTL DEF IInv

\* The claim and an account never both accept, no request accepts twice, and
\* whoever lost the invitation leaves no membership and no active organization
THEOREM OneAcceptanceHolds == Spec => []OneAcceptance
  BY Safety, PTL DEF IInv

\* However many requests reserve, issue and undo, a session that counts is the
\* one named, unless a revocation hit it while it was being issued
THEOREM SessionIsNamedHolds == Spec => []SessionIsNamed
  BY Safety, PTL DEF IInv

\* A revocation that was confirmed and an expiry that was cleared leave no
\* session, whatever the requests that raced them did
THEOREM EndedIsClosedHolds == Spec => []EndedIsClosed
  <1>1. IInv => EndedIsClosed
    BY ConstantsOK DEF IInv, TypeOK, SessionIsNamed, ClosedInv, Closed,
       EndedIsClosed
  <1> QED BY <1>1, Safety, PTL

\* A session is issued only to the browser that consumed the proof
THEOREM OneBrowserHolds == Spec => []OneBrowser
  <1>1. IInv => OneBrowser
    BY DEF IInv, RequestInv, Early, OneBrowser
  <1> QED BY <1>1, Safety, PTL

-----------------------------------------------------------------------------
\* The invitation and its sessions from outside: every step is a step of
\* InvitationFate or none that it can see.

FateVars == <<status, acceptedBy, member, Usable, Gone, Sealed>>

\* The only session that can be used is the one named
LEMMA UsableIsNamed ==
  ASSUME IInv
  PROVE  Usable \subseteq {claimSession}
  BY DEF IInv, SessionIsNamed, Usable

LEMMA UsableKept ==
  ASSUME UNCHANGED <<row, raced>>
  PROVE  Usable' = Usable /\ Gone' = Gone
  BY DEF Usable, Gone

LEMMA SealedKept ==
  ASSUME manager' = "told" <=> manager = "told",
         (status' = "expired" /\ claimSession' = None)
            <=> (status = "expired" /\ claimSession = None)
  PROVE  Sealed' = Sealed
  BY DEF Sealed

LEMMA FateStays ==
  ASSUME UNCHANGED <<status, acceptedBy, member, row, raced, claimSession>>,
         manager' = "told" <=> manager = "told"
  PROVE  UNCHANGED FateVars
  BY UsableKept, SealedKept DEF FateVars

\* A session revoked in D1 or in the SessionDO is gone, or was not there
LEMMA RevokedIsGone ==
  ASSUME IInv, NEW s \in Sessions, RevokeRow(s) \/ RevokeInDo(s)
  PROVE  Fate!Discard(s) \/ (Usable' = Usable /\ Gone' = Gone)
  <1> USE DEF IInv, TypeOK, Usable, Gone, Fate!Discard
  <1>1. CASE s \in raced'
    <2>1. /\ raced' = raced \cup {s}
          /\ \A r \in Sessions : r # s => row'[r] = row[r]
      BY <1>1 DEF RevokeRow, RevokeInDo, Race
    <2> QED BY <2>1
  <1>2. CASE s \notin raced' /\ UNCHANGED row
    BY <1>2 DEF RevokeRow, RevokeInDo, Race
  <1>3. CASE s \notin raced' /\ row[s] # "active"
    BY <1>3 DEF RevokeRow, RevokeInDo, Race
  <1>4. CASE s \notin raced' /\ row[s] = "active" /\ row' # row
    <2>1. /\ raced' = raced
          /\ row' = [row EXCEPT ![s] = "revoked"]
      BY <1>4 DEF RevokeRow, RevokeInDo, Race
    <2>2. Usable' = Usable \ {s} /\ Gone' = Gone \cup {s}
      BY <1>4, <2>1
    <2> QED BY <2>2
  <1> QED BY <1>1, <1>2, <1>3, <1>4

LEMMA DiscardStep ==
  ASSUME IInv, NEW s \in Sessions, RevokeRow(s) \/ RevokeInDo(s),
         UNCHANGED <<status, acceptedBy, member, claimSession>>,
         manager' = "told" <=> manager = "told"
  PROVE  [Fate!Next]_FateVars
  <1>1. Sealed' = Sealed
    BY SealedKept
  <1>2. CASE Fate!Discard(s)
    BY <1>1, <1>2 DEF Fate!Next, Fate!Close
  <1>3. CASE Usable' = Usable /\ Gone' = Gone
    BY <1>1, <1>3 DEF FateVars
  <1> QED BY <1>2, <1>3, RevokedIsGone

\* The session of a request that issues it is open for the first time
LEMMA InsertOpens ==
  ASSUME IInv, NEW v \in Verifiers, Insert(v)
  PROVE  [Fate!Next]_FateVars
  <1>1. /\ pc[v] = "insert"
        /\ UNCHANGED <<status, acceptedBy, member, raced, claimSession, manager>>
        /\ row' = [row EXCEPT ![mine[v]] = "active"] \/ UNCHANGED row
    BY DEF Insert, reservation, acceptance, jobs
  <1>2. CASE UNCHANGED row
    BY <1>1, <1>2, FateStays
  <1>3. CASE row' = [row EXCEPT ![mine[v]] = "active"]
    <2>1. PICK s \in Sessions : s = mine[v]
      BY <1>1 DEF IInv, TypeOK, RequestInv, Owning
    <2>2. /\ row[s] = "none" /\ status # "pending" /\ acceptedBy # "account"
          /\ s = claimSession \/ s \in raced
          /\ row \in [Sessions -> {"none", "active", "revoked"}]
      BY <1>1, <2>1 DEF IInv, TypeOK, OpenInv, RequestInv, IssuedInv
    <2>3. /\ Sealed' = Sealed /\ Gone' = Gone
          /\ Usable' = IF s \in raced THEN Usable ELSE Usable \cup {s}
      <3>1. Sealed' = Sealed
        BY <1>1, SealedKept
      <3>2. Gone' = Gone
        BY <1>1, <1>3, <2>1, <2>2 DEF Gone
      <3>3. Usable' = IF s \in raced THEN Usable ELSE Usable \cup {s}
        BY <1>1, <1>3, <2>1, <2>2 DEF Usable
      <3> QED BY <3>1, <3>2, <3>3
    <2>4. CASE s \in raced
      BY <1>1, <2>3, <2>4 DEF FateVars
    <2>5. CASE s \notin raced
      <3>1. Usable = {} /\ s \notin Gone
        BY <2>2, <2>5, UsableIsNamed DEF Usable, Gone
      <3>2. ~Sealed
        <4>1. s # None
          BY ConstantsOK
        <4>2. ~Closed(s)
          BY <1>1, <2>1, <2>5 DEF Closed, Issuing
        <4> QED BY <2>2, <2>5, <4>1, <4>2 DEF Sealed, IInv, ClosedInv
      <3> QED BY <1>1, <2>2, <2>3, <2>5, <3>1, <3>2 DEF Fate!Next, Fate!Open
    <2> QED BY <2>4, <2>5
  <1> QED BY <1>1, <1>2, <1>3

\* The batch that accepts: its session was issued
LEMMA FinalizeAccepts ==
  ASSUME IInv, NEW v \in Verifiers, Finalize(v)
  PROVE  [Fate!Next]_FateVars
  <1>1. pc[v] = "finalize" /\ UNCHANGED <<row, raced, claimSession, manager>>
    BY DEF Finalize, reservation, sessions, jobs
  <1>2. CASE ~Freezes(v) /\ UNCHANGED <<status, acceptance>>
    BY <1>1, <1>2, FateStays DEF acceptance
  <1>3. ASSUME Freezes(v), status' = "accepted", acceptedBy' = "claim",
               member' = TRUE
        PROVE  Fate!AcceptByClaim
    <2>1. mine[v] \in Sessions /\ row[mine[v]] = "active"
      BY <1>1, <1>3 DEF Freezes, IInv, TypeOK, OpenInv
    <2>2. Usable \cup Gone # {}
      BY <2>1 DEF Usable, Gone
    <2>3. status = "claim_verified" /\ Sealed' = Sealed
      BY <1>1, <1>3, SealedKept DEF Freezes
    <2> QED BY <1>1, <1>3, <2>2, <2>3, UsableKept DEF Fate!AcceptByClaim
  <1> QED BY <1>1, <1>2, <1>3 DEF Finalize, Fate!Next

\* The invitation ends, and is sealed at once when it has no session
LEMMA EndSteps ==
  ASSUME IInv, RevokeInvitation \/ ExpirePending \/ ExpireBatch
  PROVE  [Fate!Next]_FateVars
  <1>1. UNCHANGED <<acceptedBy, member, claimSession>>
    BY DEF RevokeInvitation, ExpirePending, ExpireBatch, acceptance, reservation
  <1>2. /\ Sealed' \in BOOLEAN
        /\ claimSession = None => Usable = {}
    <2>1. None \notin Sessions
      BY ConstantsOK
    <2>2. Sealed' \in BOOLEAN
      BY DEF Sealed
    <2> QED BY <2>1, <2>2, UsableIsNamed DEF Usable
  <1>3. CASE RevokeInvitation \/ ExpirePending
    <2>1. /\ status \in {"pending", "claim_verified"}
          /\ status' \in {"revoked", "expired"}
          /\ UNCHANGED <<row, raced>>
      BY <1>3 DEF RevokeInvitation, ExpirePending, sessions
    <2>2. Sealed' => Usable = {}
      <3>1. ASSUME Sealed' PROVE claimSession = None
        BY <1>1, <1>3, <2>1, <3>1 DEF Sealed, RevokeInvitation, ExpirePending,
           jobs, IInv, JobInv
      <3> QED BY <1>2, <3>1
    <2> QED BY <1>1, <1>2, <2>1, <2>2, UsableKept
            DEF Fate!Next, Fate!End, Fate!Unaccepted
  <1>4. CASE ExpireBatch
    <2>1. /\ StillDue /\ status' = "expired" /\ UNCHANGED manager
          /\ IF picked[1] # None /\ picked[1] = claimSession
             THEN RevokeRow(claimSession) ELSE UNCHANGED sessions
      BY <1>4 DEF ExpireBatch
    <2>2. \/ \E s \in Sessions : Fate!Discard(s)
          \/ Usable' = Usable /\ Gone' = Gone
      <3>1. CASE UNCHANGED sessions
        BY <3>1, UsableKept DEF sessions
      <3>2. CASE claimSession # None /\ RevokeRow(claimSession)
        <4>1. PICK s \in Sessions : s = claimSession
          BY <3>2 DEF IInv, TypeOK
        <4> QED BY <3>2, <4>1, RevokedIsGone
      <3> QED BY <2>1, <3>1, <3>2
    <2>3. CASE status = "expired"
      <3>1. Sealed' = Sealed
        BY <1>1, <2>1, <2>3, SealedKept
      <3> QED BY <1>1, <2>1, <2>2, <2>3, <3>1
              DEF Fate!Next, Fate!Close, FateVars
    <2>4. CASE status # "expired"
      <3>1. status \in {"pending", "claim_verified"}
        BY <2>1, <2>4 DEF StillDue, Due
      <3>2. Sealed' => claimSession = None
        BY <1>1, <2>1, <3>1 DEF Sealed, IInv, JobInv
      <3>3. Sealed' => Usable' = {}
        BY <1>2, <2>2, <3>2 DEF Fate!Discard
      <3> QED BY <1>1, <1>2, <2>1, <2>2, <3>1, <3>3
              DEF Fate!Next, Fate!End, Fate!Unaccepted
    <2> QED BY <2>3, <2>4
  <1> QED BY <1>3, <1>4

\* The end is confirmed when the session is closed
LEMMA SealSteps ==
  ASSUME IInv, RevokeClaimInDo \/ ClearExpired
  PROVE  Fate!Seal
  <1>1. CASE RevokeClaimInDo
    <2>1. /\ manager = "do" /\ manager' = "told" /\ RevokeInDo(claimSession)
          /\ UNCHANGED <<status, acceptedBy, member>>
      BY <1>1 DEF RevokeClaimInDo, acceptance
    <2>2. status = "revoked"
      BY <2>1 DEF IInv, JobInv
    <2>3. claimSession \in Sessions => Closed(claimSession)
      BY <2>1, ConstantsOK DEF IInv, ClosedInv
    <2>4. UNCHANGED <<row, raced>> /\ Usable = {}
      <3>1. UNCHANGED row /\ (raced' = raced \/ raced' = raced \cup {claimSession})
        BY <2>1 DEF RevokeInDo, Race
      <3>2. raced' = raced
        BY <2>1, <2>3, ConstantsOK DEF RevokeInDo, Race, Closed, Issuing, IInv,
           TypeOK, RequestInv, Owning
      <3>3. claimSession \in Sessions
               => claimSession \in raced \/ row[claimSession] # "active"
        BY <2>3 DEF Closed
      <3> QED BY <3>1, <3>2, <3>3, UsableIsNamed DEF Usable
    <2>5. Sealed' = TRUE
      BY <2>1 DEF Sealed
    <2> QED BY <2>1, <2>2, <2>4, <2>5, UsableKept DEF Fate!Seal
  <1>2. CASE ClearExpired
    <2>1. /\ cron = "clear" /\ status = "expired" /\ claimSession = picked[1]
          /\ claimSession' = None
          /\ UNCHANGED <<status, acceptedBy, member, row, raced>>
      BY <1>2 DEF ClearExpired, acceptance, sessions
    <2>2. Closed(claimSession)
      BY <2>1 DEF IInv, ClosedInv
    <2>3. Usable = {}
      BY <2>2, UsableIsNamed DEF Usable, Closed
    <2>4. Sealed' = TRUE
      BY <2>1 DEF Sealed
    <2> QED BY <2>1, <2>3, <2>4, UsableKept DEF Fate!Seal
  <1> QED BY <1>1, <1>2

\* The jobs
LEMMA JobFate ==
  ASSUME IInv, Manage \/ Expire
  PROVE  [Fate!Next]_FateVars
  <1>1. CASE RevokeInvitation \/ ExpireBatch
    BY <1>1, EndSteps
  <1>2. CASE RevokeClaimInDo \/ ClearExpired
    BY <1>2, SealSteps DEF Fate!Next
  <1>3. CASE RevokeClaimRow
    <2>1. PICK s \in Sessions : s = claimSession
      BY <1>3 DEF RevokeClaimRow, IInv, TypeOK, JobInv
    <2> QED BY <1>3, <2>1, DiscardStep DEF RevokeClaimRow, reservation, acceptance
  <1>4. CASE ExpireInDo
    <2>1. PICK s \in Sessions : s = picked[1]
      BY <1>4 DEF ExpireInDo, IInv, TypeOK, JobInv
    <2> QED BY <1>4, <2>1, DiscardStep DEF ExpireInDo, reservation, acceptance
  <1>5. CASE ManagerFails \/ PickClaim \/ CronEnds
    BY <1>5, FateStays DEF ManagerFails, PickClaim, CronEnds, reservation,
       acceptance, sessions
  <1> QED BY <1>1, <1>2, <1>3, <1>4, <1>5 DEF Manage, Expire

\* The requests
LEMMA VerifyFate ==
  ASSUME IInv, NEW v \in Verifiers, Verify(v)
  PROVE  [Fate!Next]_FateVars
  <1>1. CASE Begin(v) \/ Load(v) \/ Choose(v) \/ AddInDo(v) \/ Confirm(v)
               \/ Answer(v) \/ Drop(v)
    BY <1>1, FateStays
       DEF Begin, Load, Choose, AddInDo, Confirm, Answer, Drop, reservation,
           acceptance, sessions, jobs
  <1>2. CASE Repair(v)
    BY <1>2, FateStays DEF Repair, reservation, sessions, jobs
  <1>3. CASE Stage(v)
    <2>1. /\ status = "pending" /\ status' = "claim_verified"
          /\ UNCHANGED <<acceptedBy, member, row, raced, claimSession, manager>>
      BY <1>3 DEF Stage, reservation, acceptance, sessions, jobs
    <2> QED BY <2>1, UsableKept, SealedKept DEF Fate!Next, Fate!Claim
  <1>4. CASE Reserve(v) \/ UndoClear(v)
    <2>1. /\ status \in Claimed
          /\ UNCHANGED <<status, acceptedBy, member, row, raced, manager>>
      BY <1>4 DEF Reserve, UndoClear, acceptance, sessions, jobs
    <2> QED BY <2>1, UsableKept, SealedKept DEF FateVars, Claimed
  <1>5. CASE DropRow(v) \/ DropInDo(v)
    <2>1. PICK s \in Sessions : s = prev[v]
      BY <1>5 DEF DropRow, DropInDo, IInv, TypeOK, RequestInv
    <2> QED BY <1>5, <2>1, DiscardStep
            DEF DropRow, DropInDo, reservation, acceptance, jobs
  <1>6. CASE UndoRow(v) \/ UndoInDo(v)
    <2>1. PICK s \in Sessions : s = mine[v]
      BY <1>6 DEF UndoRow, UndoInDo, IInv, TypeOK, RequestInv, Owning
    <2>2. /\ RevokeRow(s) \/ RevokeInDo(s) \/ UNCHANGED sessions
          /\ UNCHANGED <<status, acceptedBy, member, claimSession, manager>>
      BY <1>6, <2>1 DEF UndoRow, UndoInDo, reservation, acceptance, jobs
    <2>3. CASE UNCHANGED sessions
      BY <2>2, <2>3, FateStays DEF sessions
    <2> QED BY <2>2, <2>3, DiscardStep
  <1> QED BY <1>1, <1>2, <1>3, <1>4, <1>5, <1>6, InsertOpens, FinalizeAccepts
          DEF Verify

LEMMA FateStep ==
  IInv /\ [Next]_vars => [Fate!Next]_FateVars
  <1> SUFFICES ASSUME IInv, [Next]_vars
               PROVE  [Fate!Next]_FateVars
    OBVIOUS
  <1>1. CASE UNCHANGED vars \/ Rotate \/ TimePasses
    BY <1>1, FateStays DEF vars, Rotate, TimePasses, reservation, acceptance,
       sessions, jobs
  <1>2. CASE AcceptByAccount
    <2>1. /\ status = "pending" /\ status' = "accepted" /\ acceptedBy' = "account"
          /\ UNCHANGED <<member, row, raced, claimSession, manager>>
      BY <1>2 DEF AcceptByAccount, reservation, sessions, jobs
    <2> QED BY <2>1, UsableKept, SealedKept DEF Fate!Next, Fate!AcceptByAccount
  <1>3. CASE ExpirePending
    BY <1>3, EndSteps
  <1> QED BY <1>1, <1>2, <1>3, VerifyFate, JobFate DEF Next

\* For every set of requests, browsers and sessions the invitation ends once,
\* its sessions follow one another, and a sealed one opens no more
\* (InvitationFate).
THEOREM ImplementsFateHolds == Spec => ImplementsFate
  <1>1. Init => Fate!Init
    <2> SUFFICES ASSUME Init PROVE Fate!Init
      OBVIOUS
    <2>1. Usable = {} /\ Gone = {}
      BY DEF Init, Usable, Gone
    <2>2. Sealed = FALSE
      BY DEF Init, Sealed
    <2> QED BY <2>1, <2>2 DEF Init, Fate!Init
  <1> QED BY <1>1, Safety, FateStep, PTL
          DEF Spec, ImplementsFate, Fate!Spec, FateVars

(* What no step can undo *)

FateInv ==
    /\ acceptedBy # "nobody" => status = "accepted"
    /\ Usable \cap Gone = {}
    /\ Sealed => status \in {"revoked", "expired"} /\ Usable = {}

\* An invitation that has ended, or was accepted, and by whom, stays as it is
EndStays ==
    /\ status \notin Fate!Unaccepted => status' = status
    /\ acceptedBy # "nobody" => acceptedBy' = acceptedBy

\* A session that cannot be used is never usable again, and once who ended the
\* invitation was told so, no session becomes usable
GoneForGood ==
    /\ Gone \subseteq Gone'
    /\ Gone \cap Usable' = {}
    /\ Sealed => Sealed' /\ Usable' = {}

EndsForGood == [][EndStays /\ GoneForGood]_vars

LEMMA FateInvStep ==
  FateInv /\ [Fate!Next]_FateVars => FateInv'
  <1> SUFFICES ASSUME FateInv, [Fate!Next]_FateVars PROVE FateInv'
    OBVIOUS
  <1>1. CASE UNCHANGED FateVars
    BY <1>1 DEF FateVars, FateInv
  <1>2. CASE Fate!Claim \/ Fate!AcceptByAccount \/ Fate!AcceptByClaim \/ Fate!Seal
    BY <1>2 DEF Fate!Claim, Fate!AcceptByAccount, Fate!AcceptByClaim, Fate!Seal,
       FateInv
  <1>3. ASSUME NEW s \in Sessions, Fate!Open(s) \/ Fate!Close(s)
        PROVE  FateInv'
    BY <1>3 DEF Fate!Open, Fate!Close, Fate!Discard, FateInv
  <1>4. CASE Fate!End
    BY <1>4 DEF Fate!End, Fate!Discard, Fate!Unaccepted, FateInv
  <1> QED BY <1>1, <1>2, <1>3, <1>4 DEF Fate!Next

LEMMA FateNotUndone ==
  FateInv /\ [Fate!Next]_FateVars => EndStays /\ GoneForGood
  <1> SUFFICES ASSUME FateInv, [Fate!Next]_FateVars
               PROVE  EndStays /\ GoneForGood
    OBVIOUS
  <1>1. CASE UNCHANGED FateVars
    BY <1>1 DEF FateVars, FateInv, EndStays, GoneForGood
  <1>2. CASE Fate!Claim \/ Fate!AcceptByAccount \/ Fate!AcceptByClaim \/ Fate!Seal
    BY <1>2 DEF Fate!Claim, Fate!AcceptByAccount, Fate!AcceptByClaim, Fate!Seal,
       Fate!Unaccepted, FateInv, EndStays, GoneForGood
  <1>3. ASSUME NEW s \in Sessions, Fate!Open(s) \/ Fate!Close(s)
        PROVE  EndStays /\ GoneForGood
    BY <1>3 DEF Fate!Open, Fate!Close, Fate!Discard, FateInv, EndStays, GoneForGood
  <1>4. CASE Fate!End
    BY <1>4 DEF Fate!End, Fate!Discard, Fate!Unaccepted, FateInv, EndStays,
       GoneForGood
  <1> QED BY <1>1, <1>2, <1>3, <1>4 DEF Fate!Next

\* Whatever requests, the manager and the hourly job overlap: an end stays, a
\* session that was ended stays ended, and none follows the manager's answer.
THEOREM EndsForGoodHolds == Spec => EndsForGood
  <1>1. Init => FateInv
    BY DEF Init, FateInv, Usable, Gone, Sealed
  <1>2. FateInv /\ [Fate!Next]_FateVars => FateInv' /\ EndStays /\ GoneForGood
    BY FateInvStep, FateNotUndone
  <1>3. FateInv /\ [Fate!Next]_FateVars => [EndStays /\ GoneForGood]_vars
    BY <1>2
  <1> QED BY <1>1, <1>2, <1>3, Safety, FateStep, PTL
          DEF Spec, EndsForGood
=============================================================================
