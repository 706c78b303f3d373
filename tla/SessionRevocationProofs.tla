----------------------- MODULE SessionRevocationProofs -----------------------
(***************************************************************************)
(* What TLAPS proves of SessionRevocation, for any numbers of sessions,    *)
(* requests and revoke-alls.                                               *)
(*                                                                         *)
(* The argument: an issuance that may still add its session to the active  *)
(* set either holds a generation that has passed, or its session is not    *)
(* "out" (Fenced); nobody else adds a session, an issuance is the only one *)
(* of its session, and it is over when the cookie is sent (Minted).  A     *)
(* read that began on an "out" session therefore ends where it asks        *)
(* SessionDO (Doomed).                                                     *)
(***************************************************************************)
EXTENDS SessionRevocation, TLAPS

IssueWaits == {"generation", "insert", "add", "added", "refused"}

(* Where a request stands tells what it carries, and which rows exist *)
Placed ==
    \A q \in Requests :
        /\ pc[q] \in IssueWaits => op[q] = "issue"
        /\ pc[q] \in {"check", "userOk", "memberOk", "accepted", "verify",
                      "drop", "closeRow"}
              => arg[q] \in Sessions /\ op[q] # "issue"
        /\ op[q] = "issue" => pc[q] \in IssueWaits /\ arg[q] \in Sessions
        /\ pc[q] = "generation" => row[arg[q]] = "none" /\ fate[arg[q]] # "out"
        /\ pc[q] \in {"add", "added", "refused"} => row[arg[q]] # "none"
        /\ pc[q] = "drop" => row[arg[q]] # "none"
        /\ pc[q] = "sweep" => op[q] \in Sweeps
        /\ pc[q] = "reply" /\ op[q] \notin Sweeps => arg[q] \in Sessions

(* One issuance per session, over when the cookie is sent *)
Minted ==
    /\ \A s \in delivered \cup members : row[s] # "none"
    /\ \A q \in Requests : op[q] = "issue" => arg[q] \notin delivered
    /\ \A q, r \in Requests :
          op[q] = "issue" /\ op[r] = "issue" /\ arg[q] = arg[r] => q = r

(* An issuance of an "out" session holds a generation that has passed *)
Fenced ==
    \A q \in Requests :
        /\ stamp[q] <= generation
        /\ \A s \in Sessions :
              Adding(q, s) /\ fate[s] = "out" => stamp[q] # generation

(* A read that began on an "out" session has not been past SessionDO *)
Doomed ==
    \A q \in Requests :
        began[q] = "out" => /\ pc[q] \in {"check", "userOk"}
                            /\ fate[arg[q]] = "out"

IInv == TypeOK /\ Placed /\ Minted /\ Fenced /\ OutStaysOut /\ Doomed

-----------------------------------------------------------------------------

USE ConstantsOK
    DEF Statuses, Stored, Fates, Ops, Sweeps, Waits, IssueWaits, Issuing, Adding

LEMMA InitHolds == Init => IInv
BY DEF Init, IInv, TypeOK, Placed, Minted, Fenced, OutStaysOut, Doomed

(* The rows a handler revokes are there *)
LEMMA SelectsStored == ASSUME NEW o \in Ops PROVE Selects(o) \subseteq Stored
BY DEF Selects

-----------------------------------------------------------------------------
(* The steps of a request *)

LEMMA IssueHolds ==
    ASSUME IInv, NEW q \in Requests, IssueStep(q)
    PROVE  IInv'
<1> USE DEF IInv, TypeOK, Placed, Minted, Fenced, OutStaysOut, Doomed,
            stores, Begin, Goto, End
<1>1. ASSUME NEW s \in Sessions, IssueStart(q, s) PROVE IInv'
  BY <1>1 DEF IssueStart, Fresh
<1>2. CASE ReadGeneration(q)
  BY <1>2 DEF ReadGeneration
<1>3. CASE InsertRow(q)
  BY <1>3 DEF InsertRow
<1>4. CASE AddMember(q)
  BY <1>4 DEF AddMember, Persisted
<1>5. CASE RetryAdd(q)
  BY <1>5 DEF RetryAdd
<1>6. CASE Deliver(q)
  BY <1>6 DEF Deliver
<1>7. CASE Refuse(q)
  BY <1>7 DEF Refuse, Updated
<1> QED  BY <1>1, <1>2, <1>3, <1>4, <1>5, <1>6, <1>7 DEF IssueStep

LEMMA ReadHolds ==
    ASSUME IInv, NEW q \in Requests, ReadStep(q)
    PROVE  IInv'
<1> USE DEF IInv, TypeOK, Placed, Minted, Fenced, OutStaysOut, Doomed,
            stores, Begin, Goto, End, Accept
<1>1. ASSUME NEW s \in Sessions, NEW o \in {"read", "mfa"}, ReadRow(q, s, o)
      PROVE  IInv'
  BY <1>1 DEF ReadRow
<1>2. CASE CheckUser(q)
  BY <1>2 DEF CheckUser
<1>3. CASE AskMember(q)
  BY <1>3 DEF AskMember
<1>4. CASE UseSession(q)
  BY <1>4 DEF UseSession
<1>5. CASE CompleteMfa(q)
  BY <1>5 DEF CompleteMfa, Updated
<1> QED  BY <1>1, <1>2, <1>3, <1>4, <1>5 DEF ReadStep

LEMMA RevokeHolds ==
    ASSUME IInv, NEW q \in Requests, RevokeStep(q)
    PROVE  IInv'
<1> USE DEF IInv, TypeOK, Placed, Minted, Fenced, OutStaysOut, Doomed,
            stores, Begin, Goto, End
<1>1. ASSUME NEW s \in Sessions, MarkRow(q, s) PROVE IInv'
  BY <1>1 DEF MarkRow, Updated
<1>2. ASSUME NEW s \in Sessions, NEW o \in {"revoke", "revokeOwn"},
             RevokeLookup(q, s, o)
      PROVE  IInv'
  BY <1>2 DEF RevokeLookup
<1>3. CASE DropMember(q)
  BY <1>3 DEF DropMember, Persisted
<1>4. CASE CloseRow(q)
  BY <1>4, SelectsStored DEF CloseRow, Updated
<1>5. ASSUME NEW keep \in Sessions \cup {NoSession}, NEW o \in Sweeps,
             Fence(q, o, keep)
      PROVE  IInv'
  BY <1>5 DEF Fence, Covered, Persisted
<1>6. CASE SweepRows(q)
  BY <1>6, SelectsStored DEF SweepRows, Updated
<1>7. CASE Reply(q)
  BY <1>7 DEF Reply, Told
<1> QED  BY <1>1, <1>2, <1>3, <1>4, <1>5, <1>6, <1>7 DEF RevokeStep

-----------------------------------------------------------------------------
(* Failures and the background *)

LEMMA FailsHolds ==
    ASSUME IInv, NEW q \in Requests, Fails(q)
    PROVE  IInv'
BY DEF Fails, End, stores, IInv, TypeOK, Placed, Minted, Fenced, OutStaysOut, Doomed

LEMMA BackgroundHolds ==
    ASSUME IInv, Background
    PROVE  IInv'
<1> USE DEF IInv, TypeOK, Placed, Minted, Fenced, OutStaysOut, Doomed, stores
<1>1. ASSUME NEW s \in Sessions, ExpireIdle(s) PROVE IInv'
  BY <1>1 DEF ExpireIdle, Updated
<1>2. ASSUME NEW s \in Sessions, Lapse(s) PROVE IInv'
  BY <1>2 DEF Lapse
<1>3. ASSUME NEW s \in Sessions, RevokeRepeats(s) PROVE IInv'
  BY <1>3 DEF RevokeRepeats, Told
<1>4. CASE UserChanges
  BY <1>4 DEF UserChanges
<1>5. CASE HardDelete
  BY <1>5 DEF HardDelete, Updated
<1> QED  BY <1>1, <1>2, <1>3, <1>4, <1>5 DEF Background

LEMMA StepHolds == IInv /\ [Next]_vars => IInv'
<1> SUFFICES ASSUME IInv, [Next]_vars PROVE IInv'
  OBVIOUS
<1>1. CASE UNCHANGED vars
  BY <1>1 DEF vars, IInv, TypeOK, Placed, Minted, Fenced, OutStaysOut, Doomed
<1> QED
  BY <1>1, IssueHolds, ReadHolds, RevokeHolds, FailsHolds, BackgroundHolds DEF Next

LEMMA IInvHolds == Spec => []IInv
BY InitHolds, StepHolds, PTL DEF Spec

-----------------------------------------------------------------------------

(* The variables keep their types *)
THEOREM TypeCorrect == Spec => []TypeOK
BY IInvHolds, PTL DEF IInv

(* A session that a revocation put out of SessionDO's active set is never in *)
(* it again, however issuances, retried adds and other revocations overlap   *)
THEOREM OutHolds == Spec => []OutStaysOut
BY IInvHolds, PTL DEF IInv

(* A request that begins to read a session after SessionDO put it out is not *)
(* given that session                                                        *)
THEOREM NoLateAcceptHolds == Spec => []NoLateAccept
<1>1. IInv => NoLateAccept
  BY DEF IInv, Doomed, NoLateAccept
<1> QED  BY <1>1, IInvHolds, PTL

(* A session whose cookie was sent does not enter the active set again *)
THEOREM LeftForGoodHolds == Spec => LeftForGood
<1> DEFINE Stays == \A s \in delivered : s \in members' => s \in members
<1>1. IInv /\ [Next]_vars => [Stays]_vars
  <2> SUFFICES ASSUME IInv, Next PROVE Stays
    OBVIOUS
  <2>1. ASSUME NEW q \in Requests, AddMember(q) PROVE Stays
    BY <2>1 DEF IInv, TypeOK, Placed, Minted, AddMember, Persisted
  <2>2. (\E q \in Requests : AddMember(q)) \/ members' \subseteq members
    BY DEF Next, IssueStep, IssueStart, ReadGeneration, InsertRow, RetryAdd,
       Deliver, Refuse, ReadStep, ReadRow, CheckUser, AskMember, UseSession,
       CompleteMfa, RevokeStep, MarkRow, RevokeLookup, DropMember, CloseRow,
       Fence, SweepRows, Reply, Fails, Background, ExpireIdle, Lapse,
       RevokeRepeats, UserChanges, HardDelete, Persisted, stores
  <2> QED  BY <2>1, <2>2
<1> QED  BY <1>1, IInvHolds, PTL DEF Spec, LeftForGood

-----------------------------------------------------------------------------
(* The refinement.  AddMember enters a session, AskMember and CheckUser     *)
(* judge one, DropMember and Fence bar; everything else lets a session lapse*)
(* or forgets a verdict, or does not touch the register.                    *)

Barred == {s \in Sessions : fate[s] = "out"}
Verdicts == [q \in Requests |-> Verdict(q)]
registerVars == <<InForce, Barred, delivered, Verdicts>>

LEMMA EnterStep ==
    ASSUME IInv, NEW q \in Requests, AddMember(q)
    PROVE  [Register!Next]_registerVars
<1>0. PICK s \in Sessions : s = arg[q]
  BY DEF AddMember, IInv, Placed
<1>1. UNCHANGED <<delivered, Barred, Verdicts>>
  BY DEF AddMember, Goto, Barred, Verdicts, Verdict, IInv, TypeOK
<1>2. CASE stamp[q] = generation
  <2>1. s \notin Barred \cup delivered
    BY <1>0, <1>2 DEF AddMember, IInv, Placed, Fenced, Minted, Barred
  <2>2. InForce' = InForce \/ InForce' = InForce \cup {s}
    BY <1>0, <1>2 DEF AddMember, InForce, Persisted
  <2>3. CASE InForce' = InForce
    BY <1>1, <2>3 DEF registerVars
  <2>4. CASE InForce' = InForce \cup {s}
    <3>1. Register!Enter(s)
      BY <1>1, <2>1, <2>4 DEF Register!Enter, Barred, Verdicts
    <3> QED  BY <3>1 DEF Register!Next
  <2> QED  BY <2>2, <2>3, <2>4
<1>3. CASE stamp[q] # generation
  BY <1>1, <1>3 DEF AddMember, InForce, registerVars
<1> QED  BY <1>2, <1>3

(* A step that leaves the register alone changes the verdict of q at most:  *)
(* it keeps it, gives it up, or judges a session in force                   *)
LEMMA ReaderStep ==
    ASSUME IInv, NEW q \in Requests,
           UNCHANGED <<InForce, Barred, delivered>>,
           \A r \in Requests \ {q} : pc'[r] = pc[r] /\ arg'[r] = arg[r],
           \/ Verdict(q)' = Verdict(q)
           \/ Verdict(q)' = NoSession
           \/ Verdict(q) = NoSession /\ \E s \in InForce : Verdict(q)' = s
    PROVE  [Register!Next]_registerVars
<1>1. \A r \in Requests \ {q} : Verdict(r)' = Verdict(r)
  BY DEF Verdict
<1>2. Verdicts' = [Verdicts EXCEPT ![q] = Verdict(q)']
  BY <1>1 DEF Verdicts
<1>3. CASE Verdict(q)' = Verdict(q)
  BY <1>1, <1>3 DEF registerVars, Verdicts
<1>4. CASE Verdict(q)' = NoSession
  <2>1. Register!Forget(q)
    BY <1>2, <1>4 DEF Register!Forget, Verdicts, Barred
  <2> QED  BY <2>1 DEF Register!Next
<1>5. CASE Verdict(q) = NoSession /\ \E s \in InForce : Verdict(q)' = s
  <2>1. PICK s \in InForce : Verdict(q)' = s
    BY <1>5
  <2>2. Register!Judge(q, s)
    BY <1>2, <1>5, <2>1 DEF Register!Judge, Verdicts, Barred
  <2>3. s \in Sessions
    BY DEF InForce, IInv, TypeOK
  <2> QED  BY <2>2, <2>3 DEF Register!Next
<1> QED  BY <1>3, <1>4, <1>5

LEMMA BarStep ==
    ASSUME IInv, NEW S \in SUBSET Sessions,
           InForce' = InForce \ S, Barred' = Barred \cup S,
           UNCHANGED <<delivered, Verdicts>>
    PROVE  Register!Next
<1>1. Register!Bar(S)
  BY DEF Register!Bar, Barred, Verdicts
<1> QED  BY <1>1 DEF Register!Next

LEMMA IssueImplements ==
    ASSUME IInv, NEW q \in Requests, IssueStep(q)
    PROVE  [Register!Next]_registerVars
<1> USE DEF IInv, TypeOK, Placed, stores, Begin, Goto, End
<1>1. ASSUME NEW s \in Sessions, IssueStart(q, s)
      PROVE  [Register!Next]_registerVars
  BY <1>1, ReaderStep DEF IssueStart, Verdict, InForce, Barred
<1>2. CASE ReadGeneration(q)
  BY <1>2, ReaderStep DEF ReadGeneration, Verdict, InForce, Barred
<1>3. CASE InsertRow(q)
  BY <1>3, ReaderStep DEF InsertRow, Verdict, InForce, Barred
<1>4. CASE AddMember(q)
  BY <1>4, EnterStep
<1>5. CASE RetryAdd(q)
  BY <1>5, ReaderStep DEF RetryAdd, Verdict, InForce, Barred
<1>6. CASE Deliver(q)
  <2>0. PICK s \in Sessions : s = arg[q]
    BY <1>6 DEF Deliver
  <2>1. /\ delivered' = delivered \cup {s}
        /\ UNCHANGED <<InForce, Barred>>
    BY <1>6, <2>0 DEF Deliver, InForce, Barred
  <2>2. Verdicts' = Verdicts
    BY <1>6 DEF Deliver, Verdicts, Verdict
  <2>3. Register!Hand(s)
    BY <2>1, <2>2 DEF Register!Hand, Verdicts, Barred
  <2> QED  BY <2>3 DEF Register!Next
<1>7. CASE Refuse(q)
  BY <1>7, ReaderStep DEF Refuse, Verdict, InForce, Barred
<1> QED  BY <1>1, <1>2, <1>3, <1>4, <1>5, <1>6, <1>7 DEF IssueStep

LEMMA ReadImplements ==
    ASSUME IInv, NEW q \in Requests, ReadStep(q)
    PROVE  [Register!Next]_registerVars
<1> USE DEF IInv, TypeOK, Placed, stores, Begin, Goto, End, Accept
<1>1. ASSUME NEW s \in Sessions, NEW o \in {"read", "mfa"}, ReadRow(q, s, o)
      PROVE  [Register!Next]_registerVars
  BY <1>1, ReaderStep DEF ReadRow, Verdict, InForce, Barred
<1>2. CASE CheckUser(q)
  <2>1. \/ Verdict(q)' = Verdict(q)
        \/ Verdict(q)' = NoSession
    BY <1>2 DEF CheckUser, Verdict
  <2> QED  BY <1>2, <2>1, ReaderStep DEF CheckUser, InForce, Barred
<1>3. CASE AskMember(q)
  <2>1. \/ Verdict(q)' = NoSession
        \/ Verdict(q) = NoSession /\ \E s \in InForce : Verdict(q)' = s
    BY <1>3 DEF AskMember, Verdict, InForce
  <2> QED  BY <1>3, <2>1, ReaderStep DEF AskMember, InForce, Barred
<1>4. CASE UseSession(q)
  BY <1>4, ReaderStep DEF UseSession, Verdict, InForce, Barred
<1>5. CASE CompleteMfa(q)
  BY <1>5, ReaderStep DEF CompleteMfa, Verdict, InForce, Barred
<1> QED  BY <1>1, <1>2, <1>3, <1>4, <1>5 DEF ReadStep

LEMMA RevokeImplements ==
    ASSUME IInv, NEW q \in Requests, RevokeStep(q)
    PROVE  [Register!Next]_registerVars
<1> USE DEF IInv, TypeOK, Placed, stores, Begin, Goto, End
<1>1. ASSUME NEW s \in Sessions, MarkRow(q, s)
      PROVE  [Register!Next]_registerVars
  BY <1>1, ReaderStep DEF MarkRow, Verdict, InForce, Barred
<1>2. ASSUME NEW s \in Sessions, NEW o \in {"revoke", "revokeOwn"},
             RevokeLookup(q, s, o)
      PROVE  [Register!Next]_registerVars
  BY <1>2, ReaderStep DEF RevokeLookup, Verdict, InForce, Barred
<1>3. CASE DropMember(q)
  <2>0. PICK s \in Sessions : s = arg[q]
    BY <1>3 DEF DropMember
  <2>1. InForce' = InForce \ {s} /\ delivered' = delivered
    BY <1>3, <2>0 DEF DropMember, InForce, Persisted
  <2>2. Verdicts' = Verdicts
    BY <1>3 DEF DropMember, Verdicts, Verdict
  <2>3. CASE \E r \in Requests : Adding(r, s)
    <3>1. Barred' = Barred
      BY <1>3, <2>0, <2>3 DEF DropMember, Barred
    <3>2. Register!Leave(s)
      BY <2>1, <2>2, <3>1 DEF Register!Leave, Verdicts, Barred
    <3> QED  BY <3>2 DEF Register!Next
  <2>4. CASE ~\E r \in Requests : Adding(r, s)
    <3>1. Barred' = Barred \cup {s}
      BY <1>3, <2>0, <2>4 DEF DropMember, Barred
    <3>2. PICK B \in SUBSET Sessions : B = {s}
      OBVIOUS
    <3> QED  BY <2>1, <2>2, <3>1, <3>2, BarStep
  <2> QED  BY <2>3, <2>4
<1>4. CASE CloseRow(q)
  BY <1>4, ReaderStep DEF CloseRow, Verdict, InForce, Barred
<1>5. ASSUME NEW keep \in Sessions \cup {NoSession}, NEW o \in Sweeps,
             Fence(q, o, keep)
      PROVE  [Register!Next]_registerVars
  <2> DEFINE S == Covered(keep)
  <2>1. S \in SUBSET Sessions
    BY DEF Covered
  <2>2. /\ InForce' = InForce \cap {keep}
        /\ delivered' = delivered
        /\ fate' = [s \in Sessions |-> IF s \in S THEN "out" ELSE fate[s]]
    BY <1>5 DEF Fence, InForce, Persisted
  <2>3. InForce \cap {keep} = InForce \ S
    BY DEF InForce, Covered, Minted
  <2>4. Barred' = Barred \cup S
    BY <2>1, <2>2 DEF Barred
  <2>5. Verdicts' = Verdicts
    BY <1>5 DEF Fence, Verdicts, Verdict
  <2> HIDE DEF S
  <2>6. PICK B \in SUBSET Sessions : InForce' = InForce \ B /\ Barred' = Barred \cup B
    BY <2>1, <2>2, <2>3, <2>4
  <2> QED  BY <2>2, <2>5, <2>6, BarStep
<1>6. CASE SweepRows(q)
  BY <1>6, ReaderStep DEF SweepRows, Verdict, InForce, Barred
<1>7. CASE Reply(q)
  <2>1. Barred' = Barred
    BY <1>7 DEF Reply, Told, Barred
  <2> QED  BY <1>7, <2>1, ReaderStep DEF Reply, Verdict, InForce
<1> QED  BY <1>1, <1>2, <1>3, <1>4, <1>5, <1>6, <1>7 DEF RevokeStep

LEMMA BackgroundImplements ==
    ASSUME IInv, Background
    PROVE  [Register!Next]_registerVars
<1> USE DEF IInv, TypeOK, stores
<1>1. ASSUME NEW s \in Sessions, ExpireIdle(s)
      PROVE  [Register!Next]_registerVars
  BY <1>1 DEF ExpireIdle, registerVars, InForce, Barred, Verdicts, Verdict
<1>2. ASSUME NEW s \in Sessions, Lapse(s) PROVE [Register!Next]_registerVars
  <2>1. Register!Leave(s)
    BY <1>2 DEF Lapse, Register!Leave, InForce, Verdict
  <2> QED  BY <2>1 DEF Register!Next
<1>3. ASSUME NEW s \in Sessions, RevokeRepeats(s)
      PROVE  [Register!Next]_registerVars
  <2>1. Barred' = Barred
    BY <1>3 DEF RevokeRepeats, Told, Barred
  <2> QED  BY <1>3, <2>1 DEF RevokeRepeats, registerVars, InForce, Verdicts, Verdict
<1>4. CASE UserChanges
  BY <1>4 DEF UserChanges, registerVars, InForce, Barred, Verdicts, Verdict
<1>5. CASE HardDelete
  BY <1>5 DEF HardDelete, registerVars, InForce, Barred, Verdicts, Verdict
<1> QED  BY <1>1, <1>2, <1>3, <1>4, <1>5 DEF Background

(* SessionDO with its generation, the D1 rows, the retries and the order of *)
(* the stores implement the register of SessionRegister: revocations are    *)
(* single steps of it, nobody enters after the cookie or a revocation, and  *)
(* every session a request is given was in it at one moment of the read     *)
THEOREM ImplementsRegisterHolds == Spec => ImplementsRegister
<1>1. Init => Register!Init
  BY DEF Init, Register!Init, InForce, Verdict
<1>2. IInv /\ [Next]_vars => [Register!Next]_registerVars
  <2> SUFFICES ASSUME IInv, [Next]_vars PROVE [Register!Next]_registerVars
    OBVIOUS
  <2>1. CASE UNCHANGED vars
    BY <2>1 DEF vars, registerVars, InForce, Barred, Verdicts, Verdict
  <2>2. ASSUME NEW q \in Requests, Fails(q) PROVE [Register!Next]_registerVars
    BY <2>2, ReaderStep DEF Fails, End, stores, Verdict, InForce, Barred, IInv, TypeOK
  <2> QED
    BY <2>1, <2>2, IssueImplements, ReadImplements, RevokeImplements,
       BackgroundImplements DEF Next
<1> QED
  BY <1>1, <1>2, IInvHolds, PTL
     DEF Spec, ImplementsRegister, Register!Spec, Register!vars, registerVars,
         Barred, Verdicts

=============================================================================
