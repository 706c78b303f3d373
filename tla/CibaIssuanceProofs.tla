------------------------- MODULE CibaIssuanceProofs -------------------------
(***************************************************************************)
(* Theorems about CibaIssuance for every set of reservations and all       *)
(* times to live.  The invariant says, for each reservation, where its     *)
(* request may stand while it holds the lease, has the row or has won.     *)
(***************************************************************************)
EXTENDS CibaIssuance, TLAPS

\* The user is looked up before anything is written
InactiveInv ==
    \A r \in inactive : pc[r] \notin {"free", "check", "persist"}

\* Who may have a row: a request past its insert, or one whose recovery failed
RowInv ==
    \A r \in row :
        /\ r \notin inactive
        /\ \/ pc[r] \in {"finalize", "refinalize", "confirm", "reply",
                         "rollback", "answered"}
           \/ /\ pc[r] \in {"abort", "ended"}
              /\ fault[r] \cap {"stop", "rollback"} # {}

\* Who may hold the lease
LeaseInv ==
    \A r \in Reservations :
        HeldBy(r) => \/ pc[r] \in Waiting
                     \/ /\ pc[r] = "ended"
                        /\ fault[r] \cap {"stop", "abort"} # {}

\* A winner ends the request, and only it can be about to answer
WinnerInv ==
    /\ winner # None => status \in {"consumed", "gone"}
    /\ status = "consumed" => finalizedBy = winner
    /\ \A r \in Reservations :
           pc[r] \in {"reply", "answered"} => winner = r

\* While the request is consumed, its winner knows or can still find out
VainInv ==
    \A r \in Reservations :
        status = "consumed" /\ winner = r
            => \/ pc[r] \in {"refinalize", "confirm", "reply", "answered"}
               \/ /\ pc[r] \in {"rollback", "abort", "ended"}
                  /\ \/ r \in inactive
                     \/ fault[r] \cap {"stop", "confirm"} # {}

IInv == TypeOK /\ InactiveInv /\ RowInv /\ LeaseInv /\ WinnerInv /\ VainInv

-----------------------------------------------------------------------------
(* The initial state, and what an object's transaction does to the record *)

LEMMA InitInv == Init => IInv
  BY ConstantsOK DEF Init, IInv, TypeOK, InactiveInv, RowInv, LeaseInv, WinnerInv,
     VainInv, Statuses, Points, Waiting, Faults, HeldBy

RecordOK ==
    /\ status \in Statuses
    /\ holder \in Reservations \cup {None}
    /\ leaseEnd \in Nat
    /\ finalizedBy \in Reservations \cup {None}
    /\ winner \in Reservations \cup {None}
    /\ status = "issuing" <=> holder # None
    /\ status = "consumed" <=> finalizedBy # None
    /\ winner # None => status \in {"consumed", "gone"}
    /\ status = "consumed" => finalizedBy = winner

LEMMA DeleteRecord ==
  ASSUME RecordOK, Delete
  PROVE  RecordOK' /\ winner' = winner /\ status' = "gone"
  BY ConstantsOK DEF RecordOK, Delete, Statuses

\* A finalize by r either leaves the record, or ends it, or makes r the winner
LEMMA FinalizeRecord ==
  ASSUME RecordOK, NEW r \in Reservations, TakeFinalize(r)
  PROVE  /\ RecordOK'
         /\ \/ UNCHANGED record
            \/ status' = "gone" /\ winner' = winner
            \/ status' = "consumed" /\ winner' = r /\ winner = None
  <1>1. CASE Expired /\ Delete
    BY <1>1, DeleteRecord
  <1>2. CASE ~Expired /\ HeldBy(r)
    BY <1>2, ConstantsOK DEF RecordOK, TakeFinalize, HeldBy, Statuses
  <1>3. CASE UNCHANGED record
    BY <1>3 DEF RecordOK, record, Statuses
  <1> QED BY <1>1, <1>2, <1>3 DEF TakeFinalize

\* An abort by r leaves the record, or ends it, or gives r's lease back
LEMMA AbortRecord ==
  ASSUME RecordOK, NEW r \in Reservations, TakeAbort(r)
  PROVE  /\ RecordOK'
         /\ winner' = winner
         /\ status' = "consumed" => status = "consumed"
         /\ status' = "issuing" => ~HeldBy(r) /\ status = "issuing"
                                   /\ holder' = holder
  <1>1. CASE Expired /\ Delete
    BY <1>1, DeleteRecord
  <1>2. CASE ~Expired /\ HeldBy(r)
    BY <1>2, ConstantsOK DEF RecordOK, TakeAbort, HeldBy, Statuses
  <1>3. CASE ~HeldBy(r) /\ UNCHANGED record
    BY <1>3 DEF RecordOK, record, Statuses, HeldBy
  <1> QED BY <1>1, <1>2, <1>3 DEF TakeAbort

-----------------------------------------------------------------------------
(* Steps of the object and steps of a token request *)

LEMMA RecordTyped == IInv <=> /\ RecordOK
                              /\ now \in Nat
                              /\ pc \in [Reservations -> Points]
                              /\ row \subseteq Reservations
                              /\ inactive \subseteq Reservations
                              /\ fault \in [Reservations -> SUBSET Faults]
                              /\ InactiveInv
                              /\ RowInv
                              /\ LeaseInv
                              /\ \A r \in Reservations :
                                     pc[r] \in {"reply", "answered"}
                                         => winner = r
                              /\ VainInv
  BY DEF IInv, TypeOK, RecordOK, WinnerInv

LEMMA TickInv == IInv /\ Tick => IInv'
  BY DEF IInv, Tick, TypeOK, InactiveInv, RowInv, LeaseInv, WinnerInv,
     VainInv, record, HeldBy

LEMMA DecideInv == IInv /\ Decide => IInv'
  BY ConstantsOK DEF IInv, Decide, TypeOK, InactiveInv, RowInv, LeaseInv,
     WinnerInv, VainInv, HeldBy, Statuses

LEMMA SweepInv == IInv /\ Sweep => IInv'
  BY ConstantsOK DEF IInv, Sweep, Delete, TypeOK, InactiveInv, RowInv, LeaseInv, WinnerInv,
     VainInv, HeldBy, Statuses

LEMMA PollInv == ASSUME IInv, NEW r \in Reservations, Poll(r) PROVE IInv'
  <1> USE ConstantsOK DEF IInv, Points, Waiting, Faults, Goto, Blame
  <1>1. leaseEnd' \in Nat
    BY DEF Poll
  <1>2. TypeOK'
    BY <1>1 DEF Poll, TypeOK, WinnerInv, Statuses
  <1>3. r \notin row
    BY DEF Poll, RowInv
  <1>4. RowInv'
    BY <1>3 DEF Poll, RowInv, TypeOK
  <1>5. LeaseInv'
    BY DEF Poll, LeaseInv, HeldBy, TypeOK
  <1>6. InactiveInv' /\ WinnerInv' /\ VainInv'
    BY DEF Poll, InactiveInv, WinnerInv, VainInv, TypeOK
  <1> QED BY <1>2, <1>4, <1>5, <1>6

LEMMA CheckUserInv == ASSUME IInv, NEW r \in Reservations, CheckUser(r) PROVE IInv'
  <1> USE ConstantsOK DEF IInv, Points, Waiting, Faults, Goto, record
  <1>1. TypeOK'
    BY DEF CheckUser, TypeOK
  <1>2. r \notin row
    BY DEF CheckUser, RowInv
  <1>3. RowInv'
    BY <1>2 DEF CheckUser, RowInv, TypeOK
  <1>4. LeaseInv'
    BY DEF CheckUser, LeaseInv, HeldBy, TypeOK
  <1>5. InactiveInv' /\ WinnerInv' /\ VainInv'
    BY DEF CheckUser, InactiveInv, WinnerInv, VainInv, TypeOK
  <1> QED BY <1>1, <1>3, <1>4, <1>5

LEMMA PersistInv == ASSUME IInv, NEW r \in Reservations, Persist(r) PROVE IInv'
  <1> USE ConstantsOK DEF IInv, Points, Waiting, Faults, Goto, record
  <1>1. TypeOK'
    BY DEF Persist, TypeOK
  <1>2. RowInv'
    BY DEF Persist, RowInv, InactiveInv, TypeOK
  <1>4. LeaseInv'
    BY DEF Persist, LeaseInv, HeldBy, TypeOK
  <1>5. InactiveInv' /\ WinnerInv' /\ VainInv'
    BY DEF Persist, InactiveInv, WinnerInv, VainInv, TypeOK
  <1> QED BY <1>1, <1>2, <1>4, <1>5

LEMMA FinalizeInv == ASSUME IInv, NEW r \in Reservations, Finalize(r) PROVE IInv'
  <1> USE ConstantsOK DEF Points, Waiting, Faults, Goto
  <1>1. /\ RecordOK
        /\ pc[r] \in {"finalize", "refinalize"}
        /\ TakeFinalize(r) \/ UNCHANGED record
        /\ pc' \in [Reservations -> Points]
        /\ \A s \in Reservations \ {r} : pc'[s] = pc[s]
        /\ pc'[r] \in {"refinalize", "confirm", "reply"}
        /\ pc'[r] = "reply" => TakeFinalize(r) /\ Finalized(r)'
        /\ UNCHANGED <<now, row, inactive, fault>>
    BY RecordTyped DEF Finalize
  <1>2. RecordOK'
        /\ \/ UNCHANGED record
           \/ status' = "gone" /\ winner' = winner
           \/ status' = "consumed" /\ winner' = r /\ winner = None
    <2>1. CASE UNCHANGED record
      BY <1>1, <2>1 DEF RecordOK, record
    <2>2. CASE TakeFinalize(r)
      BY <1>1, <2>2, FinalizeRecord
    <2> QED BY <1>1, <2>1, <2>2
  <1>3. InactiveInv' /\ RowInv'
    BY <1>1 DEF IInv, TypeOK, InactiveInv, RowInv
  <1>4. LeaseInv'
    BY <1>1, <1>2 DEF IInv, TypeOK, LeaseInv, HeldBy, record
  <1>5. \A s \in Reservations : pc'[s] \in {"reply", "answered"} => winner' = s
    <2>1. pc'[r] = "reply" => winner' = r
      BY <1>1, <1>2 DEF RecordOK, Finalized
    <2>2. ASSUME NEW s \in Reservations \ {r}, pc[s] \in {"reply", "answered"}
          PROVE  winner' = s
      BY <1>2, <2>2 DEF IInv, WinnerInv, record
    <2> QED BY <1>1, <2>1, <2>2
  <1>6. VainInv'
    BY <1>1, <1>2 DEF IInv, TypeOK, VainInv, record
  <1> QED BY <1>1, <1>2, <1>3, <1>4, <1>5, <1>6, RecordTyped DEF IInv, TypeOK, WinnerInv, RecordOK

LEMMA ConfirmInv == ASSUME IInv, NEW r \in Reservations, Confirm(r) PROVE IInv'
  <1> USE ConstantsOK DEF Points, Waiting, Faults, Goto, Blame, Recovery
  <1>1. /\ RecordOK
        /\ pc[r] = "confirm"
        /\ UNCHANGED record \/ Delete
        /\ pc' \in [Reservations -> Points]
        /\ \A s \in Reservations \ {r} : pc'[s] = pc[s] /\ fault'[s] = fault[s]
        /\ pc'[r] \in {"reply", Recovery(r)}
        /\ pc'[r] = "reply" => UNCHANGED record /\ Finalized(r)
        /\ pc'[r] = Recovery(r) =>
              \/ Delete
              \/ ~Finalized(r) /\ UNCHANGED record
              \/ "confirm" \in fault'[r]
        /\ fault' \in [Reservations -> SUBSET Faults]
        /\ UNCHANGED <<now, row, inactive>>
    BY RecordTyped DEF Confirm
  <1>2. RecordOK' /\ winner' = winner /\ (UNCHANGED record \/ status' = "gone")
    <2>1. CASE UNCHANGED record
      BY <1>1, <2>1 DEF RecordOK, record
    <2>2. CASE Delete
      BY <1>1, <2>2, DeleteRecord
    <2> QED BY <1>1, <2>1, <2>2
  <1>3. InactiveInv' /\ RowInv'
    BY <1>1 DEF IInv, TypeOK, InactiveInv, RowInv
  <1>4. LeaseInv'
    BY <1>1, <1>2 DEF IInv, TypeOK, LeaseInv, HeldBy, record
  <1>5. \A s \in Reservations : pc'[s] \in {"reply", "answered"} => winner' = s
    BY <1>1, <1>2 DEF IInv, WinnerInv, Finalized
  <1>6. VainInv'
    <2>1. status' = "consumed" /\ winner' = r /\ pc'[r] = Recovery(r)
             => "confirm" \in fault'[r]
      BY <1>1, <1>2 DEF Finalized, RecordOK, record, Delete
    <2> QED BY <1>1, <1>2, <2>1 DEF IInv, TypeOK, VainInv, record
  <1> QED BY <1>1, <1>2, <1>3, <1>4, <1>5, <1>6, RecordTyped DEF IInv, TypeOK, WinnerInv, RecordOK

LEMMA ReplyInv == ASSUME IInv, NEW r \in Reservations, Reply(r) PROVE IInv'
  <1> USE ConstantsOK DEF IInv, Points, Waiting, Faults, Goto, record
  <1>1. TypeOK' /\ InactiveInv'
    BY DEF Reply, TypeOK, InactiveInv
  <1>2. RowInv'
    BY DEF Reply, RowInv, TypeOK
  <1>3. LeaseInv'
    BY DEF Reply, LeaseInv, WinnerInv, HeldBy, TypeOK
  <1>4. WinnerInv' /\ VainInv'
    BY DEF Reply, WinnerInv, VainInv, TypeOK
  <1> QED BY <1>1, <1>2, <1>3, <1>4

LEMMA RollbackInv == ASSUME IInv, NEW r \in Reservations, Rollback(r) PROVE IInv'
  <1> USE ConstantsOK DEF IInv, Points, Waiting, Faults, Goto, Blame, record
  <1>1. TypeOK' /\ InactiveInv'
    BY DEF Rollback, TypeOK, InactiveInv
  <1>2. RowInv'
    BY DEF Rollback, RowInv, TypeOK
  <1>3. LeaseInv'
    BY DEF Rollback, LeaseInv, HeldBy, TypeOK
  <1>4. WinnerInv' /\ VainInv'
    BY DEF Rollback, WinnerInv, VainInv, TypeOK
  <1> QED BY <1>1, <1>2, <1>3, <1>4

LEMMA AbortInv == ASSUME IInv, NEW r \in Reservations, Abort(r) PROVE IInv'
  <1> USE ConstantsOK DEF Points, Waiting, Faults, Goto, Blame
  <1>1. /\ RecordOK
        /\ pc[r] = "abort"
        /\ UNCHANGED record \/ TakeAbort(r)
        /\ "abort" \in fault'[r] \/ TakeAbort(r)
        /\ pc' \in [Reservations -> Points]
        /\ \A s \in Reservations \ {r} : pc'[s] = pc[s] /\ fault'[s] = fault[s]
        /\ pc'[r] = "ended"
        /\ fault' \in [Reservations -> SUBSET Faults]
        /\ fault[r] \subseteq fault'[r]
        /\ UNCHANGED <<now, row, inactive>>
    BY RecordTyped DEF Abort
  <1>2. /\ RecordOK'
        /\ winner' = winner
        /\ status' = "consumed" => status = "consumed"
        /\ status' = "issuing" => status = "issuing" /\ holder' = holder
        /\ HeldBy(r)' => "abort" \in fault'[r]
    <2>1. CASE UNCHANGED record /\ "abort" \in fault'[r]
      BY <1>1, <2>1 DEF RecordOK, record
    <2>2. CASE TakeAbort(r)
      BY <1>1, <2>2, AbortRecord DEF HeldBy
    <2> QED BY <1>1, <2>1, <2>2
  <1>3. InactiveInv' /\ RowInv'
    BY <1>1 DEF IInv, TypeOK, InactiveInv, RowInv
  <1>4. LeaseInv'
    BY <1>1, <1>2 DEF IInv, TypeOK, LeaseInv, HeldBy
  <1>5. \A s \in Reservations : pc'[s] \in {"reply", "answered"} => winner' = s
    BY <1>1, <1>2 DEF IInv, WinnerInv
  <1>6. VainInv'
    BY <1>1, <1>2 DEF IInv, TypeOK, VainInv
  <1> QED BY <1>1, <1>2, <1>3, <1>4, <1>5, <1>6, RecordTyped DEF IInv, TypeOK, WinnerInv, RecordOK

LEMMA StopInv == ASSUME IInv, NEW r \in Reservations, Stop(r) PROVE IInv'
  <1> USE ConstantsOK DEF IInv, Points, Waiting, Faults, Goto, Blame, record
  <1>1. TypeOK' /\ InactiveInv'
    BY DEF Stop, TypeOK, InactiveInv
  <1>2. RowInv'
    BY DEF Stop, RowInv, TypeOK
  <1>3. LeaseInv'
    BY DEF Stop, LeaseInv, HeldBy, TypeOK
  <1>4. WinnerInv' /\ VainInv'
    BY DEF Stop, WinnerInv, VainInv, TypeOK
  <1> QED BY <1>1, <1>2, <1>3, <1>4

LEMMA NextInv == IInv /\ [Next]_vars => IInv'
  <1> SUFFICES ASSUME IInv, [Next]_vars PROVE IInv'
    OBVIOUS
  <1>1. CASE UNCHANGED vars
    BY <1>1 DEF IInv, vars, record, TypeOK, InactiveInv, RowInv, LeaseInv,
       WinnerInv, VainInv, HeldBy
  <1>2. ASSUME NEW r \in Reservations, Step(r) PROVE IInv'
    BY <1>2, PollInv, CheckUserInv, PersistInv, FinalizeInv, ConfirmInv,
       ReplyInv, RollbackInv, AbortInv, StopInv DEF Step
  <1> QED BY <1>1, <1>2, TickInv, DecideInv, SweepInv DEF Next

-----------------------------------------------------------------------------
(* Theorems *)

\* The invariant holds whatever leases run out, calls are lost and workers stop.
THEOREM Safety == Spec => []IInv
  BY InitInv, NextInv, PTL DEF Spec

\* Every variable keeps its type, a lease is somebody's, and a consumed request
\* names who finalized it.
THEOREM TypeCorrect == Spec => []TypeOK
  BY Safety, PTL DEF IInv

\* A token request that failed and ran its recovery left no refresh token.
THEOREM FailedLeavesNoRowHolds == Spec => []FailedLeavesNoRow
  <1>1. IInv => FailedLeavesNoRow
    BY DEF IInv, RowInv, FailedLeavesNoRow
  <1> QED BY <1>1, Safety, PTL

\* An approved request is used up only by an answer, an inactive user, a worker
\* that stopped or a finalize whose outcome could not be read.
THEOREM NotUsedInVainHolds == Spec => []NotUsedInVain
  <1>1. IInv => NotUsedInVain
    BY DEF IInv, VainInv, NotUsedInVain, Waiting
  <1> QED BY <1>1, Safety, PTL

\* Only a stopped worker or a failed abort leaves a request leased to nobody.
THEOREM NoStrayLeaseHolds == Spec => []NoStrayLease
  <1>1. IInv => NoStrayLease
    BY DEF IInv, LeaseInv, NoStrayLease, Waiting
  <1> QED BY <1>1, Safety, PTL

LeaseStep == status = "issuing" /\ record' # record
                => \/ now >= leaseEnd
                   \/ Expired
                   \/ pc'[holder] # pc[holder]

\* While a lease runs, only its holder's own step changes the record.
THEOREM LeaseHeldHolds == Spec => LeaseHeld
  <1>1. IInv /\ [Next]_vars => [LeaseStep]_vars
    <2> SUFFICES ASSUME IInv, Next, status = "issuing", record' # record,
                        ~Expired
                 PROVE  now >= leaseEnd \/ pc'[holder] # pc[holder]
      BY DEF LeaseStep
    <2>1. CASE Tick \/ Decide \/ Sweep
      BY <2>1 DEF Tick, Decide, Sweep, record
    <2>2. ASSUME NEW r \in Reservations, Poll(r) PROVE now >= leaseEnd
      BY <2>2 DEF Poll, LeaseOver, IInv, TypeOK
    <2>3. ASSUME NEW r \in Reservations,
                 CheckUser(r) \/ Persist(r) \/ Reply(r) \/ Rollback(r) \/ Stop(r)
                     \/ Confirm(r)
          PROVE  FALSE
      BY <2>3 DEF CheckUser, Persist, Reply, Rollback, Stop, Confirm
    <2>4. ASSUME NEW r \in Reservations, Finalize(r)
          PROVE  pc'[holder] # pc[holder]
      <3>1. HeldBy(r)
        BY <2>4 DEF Finalize, TakeFinalize
      <3> QED BY <2>4, <3>1 DEF Finalize, Goto, HeldBy, IInv, TypeOK
    <2>5. ASSUME NEW r \in Reservations, Abort(r)
          PROVE  pc'[holder] # pc[holder]
      <3>1. HeldBy(r)
        BY <2>5 DEF Abort, TakeAbort
      <3> QED BY <2>5, <3>1 DEF Abort, Goto, HeldBy, IInv, TypeOK
    <2> QED BY <2>1, <2>2, <2>3, <2>4, <2>5 DEF Next, Step
  <1> QED BY <1>1, Safety, PTL DEF Spec, LeaseHeld, LeaseStep

-----------------------------------------------------------------------------
(* The refinement *)

Decision == CASE status = "pending" -> "open"
              [] status \in {"approved", "issuing", "consumed"} -> "approved"
              [] status = "denied" -> "denied"
              [] status = "gone" -> "lapsed"

Served == {r \in Reservations : pc[r] = "answered"}

\* A step that neither answers nor changes what the grant has become
LEMMA Stutter ==
  ASSUME IInv, Decision' = Decision, winner' = winner, Served' = Served
  PROVE  UNCHANGED Grant!vars
  BY DEF Grant!vars, Decision, Served

\* A step that ends the request
LEMMA Lapses ==
  ASSUME RecordOK, status' = "gone", winner' = winner, Served' = Served
  PROVE  [Grant!Next]_(Grant!vars)
  <1>1. Decision' = "lapsed"
    BY DEF Decision
  <1>2. CASE status = "gone"
    BY <1>1, <1>2 DEF Grant!vars, Decision, Served
  <1>3. CASE status # "gone"
    <2>1. Decision # "lapsed"
      BY <1>3 DEF RecordOK, Statuses, Decision
    <2> QED BY <1>1, <2>1 DEF Grant!Next, Grant!Lapse, Decision, Served
  <1> QED BY <1>2, <1>3

\* Only a reply serves anyone
LEMMA ServedOnlyByReply ==
  ASSUME IInv, NEW r \in Reservations, Step(r), ~Reply(r)
  PROVE  Served' = Served
  <1>1. /\ pc[r] # "answered"
        /\ \E l \in Points \ {"answered"} : pc' = [pc EXCEPT ![r] = l]
    BY DEF Step, Poll, CheckUser, Persist, Finalize, Confirm, Rollback, Abort,
       Stop, Goto, Recovery, Points, Waiting
  <1> QED BY <1>1 DEF Served, IInv, TypeOK

LEMMA StepImplements ==
  ASSUME IInv, NEW r \in Reservations, Step(r)
  PROVE  [Grant!Next]_(Grant!vars)
  <1>0. RecordOK
    BY RecordTyped
  <1>1. CASE Reply(r)
    <2>1. UNCHANGED record /\ winner = r
      BY <1>1 DEF Reply, IInv, WinnerInv
    <2>2. Decision' = Decision /\ winner' = winner
      BY <2>1 DEF record, Decision
    <2>3. CASE r \in inactive
      <3>1. Served' = Served
        BY <1>1, <2>3 DEF Reply, Goto, Served, IInv, TypeOK
      <3> QED BY <2>2, <3>1, Stutter
    <2>4. CASE r \notin inactive
      <3>1. Served' = Served \cup {r}
        BY <1>1, <2>4 DEF Reply, Goto, Served, IInv, TypeOK
      <3> QED BY <2>1, <2>2, <3>1 DEF Grant!Next, Grant!Serve, Decision, Served
    <2> QED BY <2>3, <2>4
  <1>2. CASE ~Reply(r)
    <2>1. Served' = Served
      BY <1>2, ServedOnlyByReply
    <2>2. CASE UNCHANGED record
      <3>1. Decision' = Decision /\ winner' = winner
        BY <2>2 DEF record, Decision
      <3> QED BY <2>1, <3>1, Stutter
    <2>3. CASE Delete
      BY <1>0, <2>1, <2>3, DeleteRecord, Lapses
    <2>4. CASE Poll(r)
      <3>1. Decision' = Decision /\ winner' = winner
        BY <2>4 DEF Poll, Decision
      <3> QED BY <2>1, <3>1, Stutter
    <2>5. CASE ~Expired /\ HeldBy(r) /\ TakeFinalize(r)
      <3>1. /\ Decision = "approved" /\ Decision' = "approved"
            /\ winner = None /\ winner' = r
        BY <1>0, <2>5 DEF TakeFinalize, HeldBy, Decision, RecordOK
      <3> QED BY <2>1, <3>1 DEF Grant!Next, Grant!Redeem, Decision, Served
    <2>6. CASE ~Expired /\ HeldBy(r) /\ TakeAbort(r)
      <3>1. Decision' = Decision /\ winner' = winner
        BY <2>6 DEF TakeAbort, HeldBy, Decision
      <3> QED BY <2>1, <3>1, Stutter
    <2> QED BY <1>2, <2>2, <2>3, <2>4, <2>5, <2>6 DEF Step, CheckUser, Persist,
            Finalize, Confirm, Rollback, Abort, Stop, TakeFinalize, TakeAbort
  <1> QED BY <1>1, <1>2

\* A CIBA request is a grant that is decided once and redeemed at most once, by
\* one token request: every step of the object and of the requests is one of
\* Redemption or leaves it as it is.
THEOREM Implements == Spec => RedeemedAtMostOnce
  <1>1. Init => Grant!Init
    BY DEF Init, Grant!Init
  <1>2. IInv /\ [Next]_vars => [Grant!Next]_(Grant!vars)
    <2> SUFFICES ASSUME IInv, [Next]_vars PROVE [Grant!Next]_(Grant!vars)
      OBVIOUS
    <2>0. RecordOK
      BY RecordTyped
    <2>1. CASE UNCHANGED vars \/ Tick
      <3>1. Decision' = Decision /\ winner' = winner /\ Served' = Served
        BY <2>1 DEF vars, Tick, record, Decision, Served
      <3> QED BY <3>1, Stutter
    <2>2. CASE Decide
      <3>1. Decision = "open" /\ Decision' \in {"approved", "denied"}
        BY <2>2 DEF Decide, Decision
      <3> QED BY <2>2, <3>1 DEF Decide, Grant!Next, Grant!Decide, Decision, Served
    <2>3. CASE Sweep
      <3>1. Served' = Served
        BY <2>3 DEF Sweep, Served
      <3> QED BY <2>0, <2>3, <3>1, DeleteRecord, Lapses DEF Sweep
    <2> QED BY <2>1, <2>2, <2>3, StepImplements DEF Next
  <1> QED BY <1>1, <1>2, Safety, PTL DEF Spec, RedeemedAtMostOnce, Grant!Spec
=============================================================================
