-------------------------- MODULE TokenFamilyProofs --------------------------
(***************************************************************************)
(* What TLAPS proves of TokenFamily, for any numbers of codes, tokens and  *)
(* requests.                                                               *)
(*                                                                         *)
(* The argument: a code or a refresh token that is spent leaves one right  *)
(* to issue, which the request that spent it holds until the next refresh  *)
(* token of the grant is written; while it is held nothing of the grant is *)
(* live (Chain).  A condemned code is replayed or deleted, and a condemned *)
(* family has its first row fenced: the statements that would issue more   *)
(* read just that (Dead).                                                  *)
(***************************************************************************)
EXTENDS TokenFamily, TLAPS

(* A row is in the family of a first row, and only that one has the code *)
Lineage ==
    \A t \in Tokens :
        /\ row[t] = "none" <=> family[t] = None
        /\ family[t] # None => /\ family[t] \in Tokens
                               /\ family[family[t]] = family[t]
                               /\ origin[family[t]] \in Codes
        /\ origin[t] # None => family[t] = t

(* Where a request stands tells what it carries *)
Placed ==
    /\ \A q \in Requests :
        /\ pc[q] \in {"consume", "codeReplay", "mint", "refresh"}
              => arg[q] \in Codes
        /\ pc[q] \in {"rotate", "lapse", "successor", "track", "familyReplay"}
              => arg[q] \in Tokens /\ row[arg[q]] # "none"
        /\ IF pc[q] \in {"refresh", "track", "answer"}
           THEN new[q] \in Tokens
           ELSE new[q] = None
        /\ pc[q] = "refresh" => row[new[q]] = "none" /\ link[new[q]] = arg[q]
        /\ pc[q] = "track" => row[new[q]] # "none" /\ link[new[q]] = None
    /\ \A q, r \in Requests : new[q] = new[r] /\ new[q] # None => q = r

(* Request q may still write a refresh token of grant c *)
Holds(q, c) ==
    \/ pc[q] \in {"mint", "refresh"} /\ arg[q] = c
    \/ pc[q] = "successor" /\ Grant(arg[q]) = c

Chain ==
    /\ \A q \in Requests, c \in Codes :
          Holds(q, c) =>
              /\ code[c] # "issued"
              /\ \A t \in Tokens : Grant(t) = c => row[t] # "live"
              /\ \A r \in Requests : Holds(r, c) => q = r
    /\ \A q \in Requests, t \in Tokens :
          /\ pc[q] \in {"mint", "refresh"} => origin[t] # arg[q]
          /\ pc[q] = "mint" => link[t] # arg[q]
    /\ \A t \in Tokens, c \in Codes :
          Grant(t) = c \/ link[t] = c => code[c] # "issued"

Dead ==
    /\ \A c \in condemned \cap Codes : code[c] \in {"replayed", "deleted"}
    /\ \A t \in Tokens : origin[t] \in condemned => t \in condemned
    /\ \A f \in condemned \cap Tokens : family[f] = f

IInv == /\ TypeOK /\ Lineage /\ Placed
        /\ Chain /\ OneLive /\ RedeemedOnce
        /\ Dead /\ CondemnedStaysDead /\ NoCollateral

-----------------------------------------------------------------------------

USE ConstantsOK DEF CodeStates, RowStates, Waits

LEMMA InitHolds == Init => IInv
BY DEF Init, IInv, TypeOK, Lineage, Placed, Chain, OneLive, RedeemedOnce,
       Dead, CondemnedStaysDead, NoCollateral, Grant, Holds

LEMMA ExchangeHolds ==
    ASSUME IInv, NEW q \in Requests, ExchangeStep(q)
    PROVE  IInv'
<1> USE DEF IInv, TypeOK, Lineage, Placed, Chain, OneLive, RedeemedOnce,
            Dead, CondemnedStaysDead, NoCollateral, Grant, Holds,
            stores, ghosts, Begin, Goto, Mint, End
<1>1. ASSUME NEW c \in Codes, PresentCode(q, c) PROVE IInv'
  BY <1>1 DEF PresentCode
<1>2. CASE Consume(q)
  BY <1>2 DEF Consume
<1>3. CASE RevokeForCode(q)
  BY <1>3 DEF RevokeForCode, Fence, Deny, FamiliesOf
<1>4. ASSUME NEW t \in Tokens, TrackByCode(q, t) PROVE IInv'
  <2>1. TypeOK'
    BY <1>4 DEF TrackByCode, Fresh, Unreplayed
  <2>2. Lineage' /\ Placed'
    BY <1>4 DEF TrackByCode, Fresh, Unreplayed
  <2>3. Chain'
    BY <1>4 DEF TrackByCode, Fresh, Unreplayed
  <2>4. OneLive' /\ RedeemedOnce'
    BY <1>4 DEF TrackByCode, Fresh, Unreplayed
  <2>5. Dead' /\ CondemnedStaysDead' /\ NoCollateral'
    BY <1>4 DEF TrackByCode, Fresh, Unreplayed
  <2> QED  BY <2>1, <2>2, <2>3, <2>4, <2>5
<1>5. CASE IssueRefresh(q)
  <2>1. TypeOK'
    BY <1>5 DEF IssueRefresh, Unreplayed
  <2>2. Lineage' /\ Placed'
    BY <1>5 DEF IssueRefresh, Unreplayed
  <2>3. Chain'
    BY <1>5 DEF IssueRefresh, Unreplayed
  <2>4. OneLive' /\ RedeemedOnce'
    BY <1>5 DEF IssueRefresh, Unreplayed
  <2>5. Dead' /\ CondemnedStaysDead' /\ NoCollateral'
    <3>1. \A t \in Tokens : row'[t] = "fenced" =>
             row[t] = "fenced" /\ family'[t] = family[t]
      BY <1>5 DEF IssueRefresh
    <3>2. condemned' = condemned
      BY <1>5 DEF IssueRefresh
    <3>3. NoCollateral'
      BY <3>1, <3>2
    <3>4. Dead' /\ CondemnedStaysDead'
      BY <1>5 DEF IssueRefresh, Unreplayed
    <3> QED  BY <3>3, <3>4
  <2> QED  BY <2>1, <2>2, <2>3, <2>4, <2>5
<1>6. CASE Answer(q)
  BY <1>6 DEF Answer
<1> QED  BY <1>1, <1>2, <1>3, <1>4, <1>5, <1>6 DEF ExchangeStep

LEMMA RefreshHolds ==
    ASSUME IInv, NEW q \in Requests, RefreshStep(q)
    PROVE  IInv'
<1> USE DEF IInv, TypeOK, Lineage, Placed, Chain, OneLive, RedeemedOnce,
            Dead, CondemnedStaysDead, NoCollateral, Grant, Holds,
            stores, ghosts, Begin, Goto, Mint, End
<1>1. ASSUME NEW t \in Tokens, PresentRefresh(q, t) PROVE IInv'
  BY <1>1 DEF PresentRefresh
<1>2. CASE Lapse(q)
  <2>1. TypeOK' /\ Lineage' /\ Placed'
    BY <1>2 DEF Lapse
  <2>2. Chain' /\ OneLive' /\ RedeemedOnce'
    BY <1>2 DEF Lapse
  <2>3. Dead' /\ CondemnedStaysDead' /\ NoCollateral'
    BY <1>2 DEF Lapse
  <2> QED  BY <2>1, <2>2, <2>3
<1>3. CASE Rotate(q)
  <2>1. TypeOK' /\ Lineage' /\ Placed'
    BY <1>3 DEF Rotate
  <2>2. Chain' /\ OneLive' /\ RedeemedOnce'
    BY <1>3 DEF Rotate
  <2>3. Dead' /\ CondemnedStaysDead' /\ NoCollateral'
    BY <1>3 DEF Rotate
  <2> QED  BY <2>1, <2>2, <2>3
<1>4. ASSUME NEW t \in Tokens, InsertSuccessor(q, t) PROVE IInv'
  <2> DEFINE f == family[arg[q]]
  <2>a. /\ pc[q] = "successor" /\ arg[q] \in Tokens /\ new[q] = None
        /\ f \in Tokens /\ family[f] = f /\ origin[f] \in Codes
        /\ Holds(q, origin[f])
    BY <1>4 DEF InsertSuccessor
  <2>b. CASE ~Unfenced(f)
    <3>1. /\ UNCHANGED <<stores, new, arg, ghosts>>
          /\ pc' = [pc EXCEPT ![q] = "familyReplay"]
      BY <1>4, <2>b DEF InsertSuccessor
    <3> QED  BY <3>1, <2>a
  <2>c. CASE Unfenced(f)
    <3>1. /\ row[t] = "none" /\ family[t] = None /\ link[t] = None
          /\ \A r \in Requests : new[r] # t
          /\ f # t
      BY <1>4, <2>a, <2>c DEF InsertSuccessor, Fresh
    <3>2. /\ row' = [row EXCEPT ![t] = "live"]
          /\ family' = [family EXCEPT ![t] = f]
          /\ pc' = [pc EXCEPT ![q] = "track"]
          /\ new' = [new EXCEPT ![q] = t]
          /\ UNCHANGED <<code, origin, link, denied, sent, arg, ghosts>>
      BY <1>4, <2>c DEF InsertSuccessor
    <3>3. f \notin condemned /\ origin[f] \notin condemned
      BY <2>a, <2>c DEF Unfenced
    <3>4. \A u \in Tokens : u # t => Grant(u)' = Grant(u)
      BY <3>1, <3>2
    <3>5. Grant(t)' = origin[f]
      BY <3>1, <3>2, <2>a
    <3>6. TypeOK'
      BY <3>1, <3>2, <3>4, <3>5, <2>a
    <3>7. Lineage' /\ Placed'
      BY <3>1, <3>2, <2>a
    <3>8. Chain'
      BY <3>1, <3>2, <3>4, <3>5, <2>a
    <3>9. OneLive' /\ RedeemedOnce'
      BY <3>1, <3>2, <3>4, <3>5, <2>a
    <3>10. Dead' /\ CondemnedStaysDead' /\ NoCollateral'
      BY <3>1, <3>2, <3>3, <3>4, <3>5, <2>a
    <3> QED  BY <3>6, <3>7, <3>8, <3>9, <3>10
  <2> QED  BY <2>b, <2>c
<1>5. CASE TrackByFamily(q)
  <2> DEFINE f == family[arg[q]]
  <2>a. /\ pc[q] = "track" /\ f \in Tokens /\ new[q] \in Tokens
        /\ UNCHANGED <<code, row, family, origin, denied, sent, ghosts>>
    BY <1>5 DEF TrackByFamily
  <2>b. CASE ~Unfenced(f)
    <3>1. UNCHANGED link /\ End(q)
      BY <1>5, <2>b DEF TrackByFamily
    <3> QED  BY <2>a, <3>1
  <2>c. CASE Unfenced(f)
    <3>1. /\ link' = [link EXCEPT ![new[q]] = f]
          /\ Goto(q, "answer")
      BY <1>5, <2>c DEF TrackByFamily
    <3>2. f \notin condemned
      BY <2>a, <2>c DEF Unfenced
    <3>3. TypeOK' /\ Lineage'
      BY <2>a, <3>1
    <3>4. Placed'
      BY <2>a, <3>1
    <3>5. Chain' /\ OneLive' /\ RedeemedOnce'
      BY <2>a, <3>1
    <3>6. Dead' /\ CondemnedStaysDead' /\ NoCollateral'
      BY <2>a, <3>1, <3>2
    <3> QED  BY <3>3, <3>4, <3>5, <3>6
  <2> QED  BY <2>b, <2>c
<1>6. CASE RevokeFamily(q)
  BY <1>6 DEF RevokeFamily, Fence, Deny
<1> QED  BY <1>1, <1>2, <1>3, <1>4, <1>5, <1>6 DEF RefreshStep

LEMMA OtherHolds ==
    ASSUME IInv, OtherStep
    PROVE  IInv'
<1> USE DEF IInv, TypeOK, Lineage, Placed, Chain, OneLive, RedeemedOnce,
            Dead, CondemnedStaysDead, NoCollateral, Grant, Holds,
            stores, ghosts
<1>1. ASSUME NEW q \in Requests, Fails(q) PROVE IInv'
  BY <1>1 DEF Fails, End
<1>2. ASSUME NEW C \in SUBSET Codes, RevokeUser(C) PROVE IInv'
  <2>1. TypeOK' /\ Lineage' /\ Placed'
    BY <1>2 DEF RevokeUser, Fence, Deny
  <2>2. Chain' /\ OneLive' /\ RedeemedOnce'
    BY <1>2 DEF RevokeUser, Fence, Deny
  <2>3. Dead' /\ CondemnedStaysDead' /\ NoCollateral'
    BY <1>2 DEF RevokeUser, Fence, Deny
  <2> QED  BY <2>1, <2>2, <2>3
<1>3. ASSUME NEW t \in Tokens, ClientRevokes(t) PROVE IInv'
  BY <1>3 DEF ClientRevokes
<1>4. ASSUME NEW c \in Codes, DeleteCode(c) PROVE IInv'
  BY <1>4 DEF DeleteCode
<1> QED  BY <1>1, <1>2, <1>3, <1>4 DEF OtherStep

LEMMA StutterHolds == IInv /\ UNCHANGED vars => IInv'
BY DEF IInv, TypeOK, Lineage, Placed, Chain, OneLive, RedeemedOnce, Dead,
       CondemnedStaysDead, NoCollateral, Grant, Holds, vars

LEMMA StepHolds == IInv /\ [Next]_vars => IInv'
BY ExchangeHolds, RefreshHolds, OtherHolds, StutterHolds DEF Next

LEMMA IInvHolds == Spec => []IInv
BY InitHolds, StepHolds, PTL DEF Spec

-----------------------------------------------------------------------------

(* The variables keep their types, and rows belong to families of codes *)
THEOREM TypeCorrect == Spec => []TypeOK
BY IInvHolds, PTL DEF IInv

(* Whatever requests overlap, a grant has at most one usable refresh token *)
THEOREM OneLiveHolds == Spec => []OneLive
BY IInvHolds, PTL DEF IInv

(* A code is exchanged for an access token at most once *)
THEOREM RedeemedOnceHolds == Spec => []RedeemedOnce
BY IInvHolds, PTL DEF IInv

(* After a replay or the user's revocation no refresh token of the grant or *)
(* family is usable and no access token tied to it escapes the denylist,    *)
(* the ones that requests under way would have issued included              *)
THEOREM CondemnedHolds == Spec => []CondemnedStaysDead
BY IInvHolds, PTL DEF IInv

(* Families fall only by a replay of their own or the user's revocation *)
THEOREM NoCollateralHolds == Spec => []NoCollateral
BY IInvHolds, PTL DEF IInv

-----------------------------------------------------------------------------
(* The refinement.  A grant has one bearer at most, so that a step which    *)
(* adds no bearer either leaves the right where it was or loses it.  Four   *)
(* steps pass it on: the two that spend and the two that write a row.       *)

Written == {t \in Tokens : row[t] # "none"}

LEMMA Bears ==
    ASSUME NEW c \in Codes
    PROVE  /\ code[c] = "issued" => "code" \in Bearers(c)
           /\ \A q \in Requests : MayWrite(q, c) => q \in Bearers(c)
           /\ \A t \in Tokens :
                 row[t] = "live" /\ Grant(t) = c => t \in Bearers(c)
           /\ \A x \in Bearers(c) :
                 \/ x = "code" /\ code[c] = "issued"
                 \/ x \in Requests /\ MayWrite(x, c)
                 \/ x \in Tokens /\ row[x] = "live" /\ Grant(x) = c
BY DEF Bearers

(* A request that may write holds the grant, and a usable row is in no      *)
(* fenced family                                                            *)
LEMMA LiveUnfenced ==
    ASSUME IInv, NEW t \in Tokens, row[t] = "live"
    PROVE  Unfenced(family[t])
BY DEF IInv, NoCollateral, CondemnedStaysDead, Unfenced

AtMostOne == \A c \in Codes : \A x, y \in Bearers(c) : x = y

LEMMA OneBearer == IInv => AtMostOne
<1> SUFFICES ASSUME IInv, NEW c \in Codes, NEW x \in Bearers(c), NEW y \in Bearers(c)
             PROVE  x = y
  BY DEF AtMostOne
<1>1. \A q \in Requests : MayWrite(q, c) => Holds(q, c)
  BY DEF MayWrite, Holds
<1>2. code[c] = "issued" => /\ \A q \in Requests : ~Holds(q, c)
                            /\ \A t \in Tokens : Grant(t) # c
  BY DEF IInv, Chain
<1>3. \A q, r \in Requests : Holds(q, c) /\ Holds(r, c) => q = r
  BY DEF IInv, Chain
<1>4. \A q \in Requests, t \in Tokens :
         Holds(q, c) /\ Grant(t) = c => row[t] # "live"
  BY DEF IInv, Chain
<1>5. \A t, u \in Tokens :
         row[t] = "live" /\ row[u] = "live" /\ Grant(t) = c /\ Grant(u) = c
             => t = u
  BY DEF IInv, OneLive
<1> QED  BY <1>1, <1>2, <1>3, <1>4, <1>5, Bears

LEMMA OneBearerNext == IInv' => AtMostOne'
BY OneBearer, PTL

LEMMA SpendStep ==
    ASSUME IInv, IInv', NEW q \in Requests, NEW c \in Codes,
           NEW b \in {"code"} \cup Tokens,
           b \in Bearers(c), q \in Bearers(c)', Written' = Written,
           \A d \in Codes \ {c} : Bearers(d)' = Bearers(d)
    PROVE  Right!Next
<1>1. Bearers(c) = {b}
  BY OneBearer DEF AtMostOne
<1>2. Bearers(c)' = {q}
  BY OneBearerNext DEF AtMostOne
<1>3. Right!Spend(q, c)
  BY <1>1, <1>2 DEF Right!Spend, Written
<1> QED  BY <1>3 DEF Right!Next

LEMMA IssueRightStep ==
    ASSUME IInv, IInv', NEW q \in Requests, NEW c \in Codes, NEW t \in Tokens,
           q \in Bearers(c), t \in Bearers(c)',
           t \notin Written, Written' = Written \cup {t},
           \A d \in Codes \ {c} : Bearers(d)' = Bearers(d)
    PROVE  Right!Next
<1>1. Bearers(c) = {q}
  BY OneBearer DEF AtMostOne
<1>2. Bearers(c)' = {t}
  BY OneBearerNext DEF AtMostOne
<1>3. Right!Issue(q, c, t)
  BY <1>1, <1>2 DEF Right!Issue, Written
<1> QED  BY <1>3 DEF Right!Next

LEMMA ShrinkStep ==
    ASSUME IInv, Written' = Written,
           \A c \in Codes : Bearers(c)' \subseteq Bearers(c)
    PROVE  Right!Next
<1> DEFINE C == {c \in Codes : Bearers(c)' # Bearers(c)}
<1>1. \A c \in C : Bearers(c)' = {}
  BY OneBearer DEF AtMostOne
<1>2. Right!Lose(C)
  BY <1>1 DEF Right!Lose, Written
<1> QED  BY <1>2 DEF Right!Next

(* When no row is written, no bearer is new if no code becomes issued, no    *)
(* row usable, and no request able to write                                  *)
LEMMA Shrinks ==
    ASSUME IInv, IInv', Written' = Written,
           UNCHANGED <<family, origin>>,
           \A c \in Codes : code'[c] = "issued" => code[c] = "issued",
           \A t \in Tokens : row'[t] = "live" => row[t] = "live",
           \A q \in Requests, c \in Codes : MayWrite(q, c)' => MayWrite(q, c)
    PROVE  Right!Next
<1>1. \A t \in Tokens : Grant(t)' = Grant(t)
  BY DEF Grant
<1>2. \A c \in Codes : Bearers(c)' \subseteq Bearers(c)
  BY <1>1 DEF Bearers
<1> QED  BY <1>2, ShrinkStep

LEMMA ExchangeImplements ==
    ASSUME IInv, IInv', NEW q \in Requests, ExchangeStep(q)
    PROVE  Right!Next
<1> USE DEF stores, ghosts, Begin, Goto, Mint, End
<1> DEFINE May == \A r \in Requests, c \in Codes : MayWrite(r, c)' => MayWrite(r, c)
<1>t. TypeOK
  BY DEF IInv
<1>1. ASSUME NEW c \in Codes, PresentCode(q, c) PROVE Right!Next
  <2>1. May
    BY <1>1, <1>t DEF PresentCode, MayWrite, Grant, Unfenced, Unreplayed, TypeOK
  <2> QED  BY <1>1, <2>1, Shrinks DEF PresentCode, Written
<1>2. CASE Consume(q)
  <2>0. PICK c \in Codes : c = arg[q]
    BY <1>2 DEF Consume, IInv, Placed
  <2>1. c = arg[q] /\ pc[q] = "consume"
    BY <1>2, <2>0 DEF Consume
  <2>2. CASE code[c] = "issued"
    <3>1. /\ code' = [code EXCEPT ![c] = "consumed"]
          /\ pc' = [pc EXCEPT ![q] = "mint"]
          /\ UNCHANGED <<row, family, origin, arg>>
      BY <1>2, <2>1, <2>2 DEF Consume
    <3>2. Written' = Written /\ \A t \in Tokens : Grant(t)' = Grant(t)
      BY <3>1 DEF Written, Grant
    <3>3. "code" \in Bearers(c)
      BY <2>1, <2>2 DEF Bearers
    <3>4. MayWrite(q, c)'
      BY <2>1, <3>1, <1>t DEF MayWrite, Unreplayed, TypeOK
    <3>5. q \in Bearers(c)'
      BY <3>4 DEF Bearers
    <3>6. \A d \in Codes \ {c} : Bearers(d)' = Bearers(d)
      <4> SUFFICES ASSUME NEW d \in Codes \ {c} PROVE Bearers(d)' = Bearers(d)
        OBVIOUS
      <4>1. \A r \in Requests : MayWrite(r, d)' <=> MayWrite(r, d)
        BY <2>1, <3>1, <3>2, <1>t DEF MayWrite, Unreplayed, Unfenced, Grant, TypeOK
      <4>2. code'[d] = code[d] /\ row' = row
        BY <3>1, <1>t DEF TypeOK
      <4> QED  BY <4>1, <4>2, <3>2 DEF Bearers
    <3> QED  BY <2>1, <3>2, <3>3, <3>5, <3>6, SpendStep
  <2>3. CASE code[c] # "issued"
    <3>1. /\ pc' = [pc EXCEPT ![q] = "codeReplay"]
          /\ UNCHANGED <<code, row, family, origin, arg>>
      BY <1>2, <2>1, <2>3 DEF Consume
    <3>2. May
      BY <2>1, <3>1, <1>t DEF MayWrite, Unreplayed, Unfenced, Grant, TypeOK
    <3> QED  BY <3>1, <3>2, Shrinks DEF Written
  <2> QED  BY <2>2, <2>3
<1>3. CASE RevokeForCode(q)
  <2>1. /\ \A c \in Codes : Unreplayed(c)' => Unreplayed(c)
        /\ \A f \in Tokens : Unfenced(f)' => Unfenced(f)
        /\ UNCHANGED <<family, origin>>
    BY <1>3, <1>t DEF RevokeForCode, Unreplayed, Unfenced, Fence, TypeOK
  <2>2. May
    BY <1>3, <2>1, <1>t DEF RevokeForCode, MayWrite, Grant, TypeOK, IInv, Placed, Lineage
  <2>3. Written' = Written
    BY <1>3, <1>t DEF RevokeForCode, Fence, FamiliesOf, Written, IInv, Lineage, TypeOK
  <2>4. /\ \A c \in Codes : code'[c] = "issued" => code[c] = "issued"
        /\ \A t \in Tokens : row'[t] = "live" => row[t] = "live"
    BY <1>3, <1>t DEF RevokeForCode, Fence, TypeOK
  <2> QED  BY <2>1, <2>2, <2>3, <2>4, Shrinks
<1>4. ASSUME NEW t \in Tokens, TrackByCode(q, t) PROVE Right!Next
  <2>1. /\ UNCHANGED <<code, row, family, origin, arg>> \/ End(q)
        /\ UNCHANGED <<code, row, family, origin>>
        /\ pc[q] = "mint" /\ pc' \in {[pc EXCEPT ![q] = "refresh"],
                                      [pc EXCEPT ![q] = "idle"]}
        /\ pc' = [pc EXCEPT ![q] = "refresh"] => arg' = arg
    BY <1>4, <1>t DEF TrackByCode, TypeOK
  <2>2. \A r \in Requests : r # q => pc'[r] = pc[r] /\ arg'[r] = arg[r]
    BY <1>4, <1>t DEF TrackByCode, TypeOK
  <2>3. May
    BY <2>1, <2>2, <1>t DEF MayWrite, Grant, Unfenced, Unreplayed, TypeOK
  <2> QED  BY <2>1, <2>3, Shrinks DEF Written
<1>5. CASE IssueRefresh(q)
  <2>0. PICK c \in Codes, t \in Tokens : c = arg[q] /\ t = new[q]
    BY <1>5 DEF IssueRefresh, IInv, Placed
  <2>1. /\ c = arg[q] /\ pc[q] = "refresh" /\ t = new[q]
        /\ row[t] = "none" /\ family[t] = None
    BY <1>5, <2>0 DEF IssueRefresh, IInv, Placed, Lineage
  <2>2. /\ pc' = [pc EXCEPT ![q] = "answer"]
        /\ UNCHANGED <<code, arg>>
    BY <1>5 DEF IssueRefresh
  <2>3. CASE UNCHANGED <<row, family, origin>>
    <3>1. May
      BY <2>1, <2>2, <2>3, <1>t DEF MayWrite, Grant, Unfenced, Unreplayed, TypeOK
    <3> QED  BY <2>2, <2>3, <3>1, Shrinks DEF Written
  <2>4. CASE /\ Unreplayed(c)
             /\ row' = [row EXCEPT ![t] = "live"]
             /\ family' = [family EXCEPT ![t] = t]
             /\ origin' = [origin EXCEPT ![t] = c]
    <3>1. q \in Bearers(c)
      BY <2>1, <2>4 DEF Bearers, MayWrite
    <3>2. /\ row'[t] = "live" /\ Grant(t)' = c /\ c # None
          /\ \A u \in Tokens : u # t => row'[u] = row[u] /\ family'[u] = family[u]
      BY <2>1, <2>4, <1>t DEF Grant, TypeOK
    <3>3. t \in Bearers(c)'
      BY <3>2 DEF Bearers
    <3>4. t \notin Written /\ Written' = Written \cup {t}
      BY <2>1, <2>4, <1>t DEF Written, TypeOK
    <3>5. \A u \in Tokens : u # t => Grant(u)' = Grant(u) /\ family[u] # t
      BY <2>1, <2>4, <1>t DEF Grant, TypeOK, IInv, Lineage
    <3>6. ASSUME NEW d \in Codes \ {c} PROVE Bearers(d)' = Bearers(d)
      <4>1. \A u \in Tokens : row'[u] = "live" /\ Grant(u)' = d
                               <=> row[u] = "live" /\ Grant(u) = d
        BY <2>1, <3>2, <3>5
      <4>2. ASSUME NEW r \in Requests PROVE MayWrite(r, d)' <=> MayWrite(r, d)
        <5>1. CASE r = q
          BY <5>1, <2>1, <2>2, <1>t DEF MayWrite, TypeOK
        <5>2. CASE r # q
          <6>1. pc'[r] = pc[r] /\ arg'[r] = arg[r]
            BY <5>2, <2>2, <1>t DEF TypeOK
          <6>2. ASSUME pc[r] = "successor"
                PROVE  /\ Grant(arg[r])' = Grant(arg[r])
                       /\ Unfenced(family[arg[r]])' <=> Unfenced(family[arg[r]])
            <7>1. arg[r] \in Tokens /\ arg[r] # t /\ family[arg[r]] # t
              BY <6>2, <2>1, <3>5 DEF IInv, Placed
            <7>2. family'[arg[r]] = family[arg[r]] /\ arg'[r] = arg[r]
              BY <7>1, <3>2, <6>1
            <7>3. Grant(arg[r])' = Grant(arg[r])
              BY <7>1, <3>5, <6>1 DEF Grant
            <7>4. Unfenced(family[arg[r]])' <=> Unfenced(family[arg[r]])
              BY <7>1, <7>2, <3>2, <2>1, <2>4, <1>t DEF Unfenced, TypeOK
            <7> QED  BY <7>3, <7>4
          <6>3. Unreplayed(d)' <=> Unreplayed(d)
            BY <2>2 DEF Unreplayed
          <6> QED  BY <6>1, <6>2, <6>3 DEF MayWrite
        <5> QED  BY <5>1, <5>2
      <4> QED  BY <4>1, <4>2, <2>2 DEF Bearers
    <3> QED  BY <2>1, <3>1, <3>3, <3>4, <3>6, IssueRightStep
  <2> QED  BY <1>5, <2>1, <2>3, <2>4 DEF IssueRefresh
<1>6. CASE Answer(q)
  <2>1. May
    BY <1>6, <1>t DEF Answer, MayWrite, Grant, Unfenced, Unreplayed, TypeOK
  <2> QED  BY <1>6, <2>1, Shrinks DEF Answer, Written
<1> QED  BY <1>1, <1>2, <1>3, <1>4, <1>5, <1>6 DEF ExchangeStep

LEMMA RefreshImplements ==
    ASSUME IInv, IInv', NEW q \in Requests, RefreshStep(q)
    PROVE  Right!Next
<1> USE DEF stores, ghosts, Begin, Goto, Mint, End
<1> DEFINE May == \A r \in Requests, c \in Codes : MayWrite(r, c)' => MayWrite(r, c)
<1>t. TypeOK
  BY DEF IInv
<1>1. ASSUME NEW t \in Tokens, PresentRefresh(q, t) PROVE Right!Next
  <2>1. May
    BY <1>1, <1>t DEF PresentRefresh, MayWrite, Grant, Unfenced, Unreplayed, TypeOK
  <2> QED  BY <1>1, <2>1, Shrinks DEF PresentRefresh, Written
<1>2. CASE Lapse(q)
  <2>1. /\ \A t \in Tokens : /\ row'[t] = "live" => row[t] = "live"
                             /\ row'[t] = "none" <=> row[t] = "none"
                             /\ row'[t] = "fenced" <=> row[t] = "fenced"
        /\ UNCHANGED <<code, family, origin>>
    BY <1>2, <1>t DEF Lapse, TypeOK
  <2>2. May
    BY <1>2, <2>1, <1>t DEF Lapse, MayWrite, Grant, Unfenced, Unreplayed, TypeOK
  <2> QED  BY <2>1, <2>2, Shrinks DEF Written
<1>3. CASE Rotate(q)
  <2>0. PICK t \in Tokens : t = arg[q]
    BY <1>3 DEF Rotate, IInv, Placed
  <2>1. /\ t = arg[q] /\ pc[q] = "rotate" /\ row[t] # "none"
        /\ family[t] \in Tokens /\ Grant(t) \in Codes
    BY <1>3, <2>0 DEF Rotate, IInv, Placed, Lineage, Grant
  <2>2. CASE row[t] = "live"
    <3>1. /\ row' = [row EXCEPT ![t] = "revoked"]
          /\ pc' = [pc EXCEPT ![q] = "successor"]
          /\ UNCHANGED <<code, family, origin, arg>>
      BY <1>3, <2>1, <2>2 DEF Rotate
    <3>2. /\ \A u \in Tokens : u # t => row'[u] = row[u]
          /\ row'[t] = "revoked"
          /\ \A u \in Tokens : Grant(u)' = Grant(u)
          /\ \A f \in Tokens : Unfenced(f)' <=> Unfenced(f)
      BY <2>2, <3>1, <1>t DEF Grant, Unfenced, TypeOK
    <3>3. Written' = Written
      BY <2>2, <3>2 DEF Written
    <3>4. PICK c \in Codes : c = Grant(t)
      BY <2>1
    <3>5. t \in Bearers(c)
      BY <2>2, <3>4 DEF Bearers
    <3>6. MayWrite(q, c)'
      <4>1. Unfenced(family[t])'
        BY <2>1, <2>2, <3>1, <3>2, LiveUnfenced
      <4> QED  BY <2>1, <3>1, <3>2, <3>4, <4>1, <1>t DEF MayWrite, TypeOK
    <3>7. q \in Bearers(c)'
      BY <3>6 DEF Bearers
    <3>8. ASSUME NEW d \in Codes \ {c} PROVE Bearers(d)' = Bearers(d)
      <4>1. \A u \in Tokens : row'[u] = "live" /\ Grant(u)' = d
                               <=> row[u] = "live" /\ Grant(u) = d
        BY <3>2, <3>4
      <4>2. ASSUME NEW r \in Requests PROVE MayWrite(r, d)' <=> MayWrite(r, d)
        <5>1. CASE r = q
          BY <5>1, <2>1, <3>1, <3>2, <3>4, <1>t DEF MayWrite, TypeOK
        <5>2. CASE r # q
          <6>1. pc'[r] = pc[r] /\ arg'[r] = arg[r]
            BY <5>2, <3>1, <1>t DEF TypeOK
          <6>2. pc[r] = "successor" => /\ arg[r] \in Tokens
                                       /\ family[arg[r]] \in Tokens
            BY DEF IInv, Placed, Lineage
          <6> QED  BY <6>1, <6>2, <3>1, <3>2 DEF MayWrite, Unreplayed
        <5> QED  BY <5>1, <5>2
      <4> QED  BY <4>1, <4>2, <3>1 DEF Bearers
    <3> QED  BY <3>3, <3>5, <3>7, <3>8, SpendStep
  <2>3. CASE row[t] # "live"
    <3>1. /\ pc' = [pc EXCEPT ![q] = "familyReplay"]
          /\ UNCHANGED <<code, row, family, origin, arg>>
      BY <1>3, <2>1, <2>3 DEF Rotate
    <3>2. May
      BY <2>1, <3>1, <1>t DEF MayWrite, Unreplayed, Unfenced, Grant, TypeOK
    <3> QED  BY <3>1, <3>2, Shrinks DEF Written
  <2> QED  BY <2>2, <2>3
<1>4. ASSUME NEW t \in Tokens, InsertSuccessor(q, t) PROVE Right!Next
  <2>0. PICK u \in Tokens, f \in Tokens : u = arg[q] /\ f = family[u]
    BY <1>4 DEF InsertSuccessor, IInv, Placed, Lineage
  <2>1. /\ pc[q] = "successor" /\ family[f] = f /\ origin[f] \in Codes
        /\ Grant(u) = origin[f] /\ row[t] = "none" /\ family[t] = None
        /\ t # u /\ t # f
    BY <1>4, <2>0 DEF InsertSuccessor, Fresh, IInv, Placed, Lineage, Grant
  <2>2. PICK c \in Codes : c = origin[f]
    BY <2>1
  <2>3. CASE ~Unfenced(f)
    <3>1. /\ pc' = [pc EXCEPT ![q] = "familyReplay"]
          /\ UNCHANGED <<code, row, family, origin, arg>>
      BY <1>4, <2>0, <2>3 DEF InsertSuccessor
    <3>2. May
      BY <2>1, <3>1, <1>t DEF MayWrite, Unreplayed, Unfenced, Grant, TypeOK
    <3> QED  BY <3>1, <3>2, Shrinks DEF Written
  <2>4. CASE Unfenced(f)
    <3>1. /\ row' = [row EXCEPT ![t] = "live"]
          /\ family' = [family EXCEPT ![t] = f]
          /\ pc' = [pc EXCEPT ![q] = "track"]
          /\ UNCHANGED <<code, origin, arg>>
      BY <1>4, <2>0, <2>4 DEF InsertSuccessor
    <3>2. q \in Bearers(c)
      BY <2>0, <2>1, <2>2, <2>4 DEF Bearers, MayWrite
    <3>3. /\ row'[t] = "live" /\ family'[t] = f
          /\ \A v \in Tokens : v # t => row'[v] = row[v] /\ family'[v] = family[v]
      BY <3>1, <1>t DEF TypeOK
    <3>4. Grant(t)' = c /\ \A v \in Tokens : v # t => Grant(v)' = Grant(v)
      BY <2>1, <2>2, <3>1, <3>3 DEF Grant
    <3>5. t \in Bearers(c)'
      BY <3>3, <3>4 DEF Bearers
    <3>6. t \notin Written /\ Written' = Written \cup {t}
      BY <2>1, <3>3 DEF Written
    <3>7. ASSUME NEW d \in Codes \ {c} PROVE Bearers(d)' = Bearers(d)
      <4>1. \A v \in Tokens : row'[v] = "live" /\ Grant(v)' = d
                               <=> row[v] = "live" /\ Grant(v) = d
        BY <2>1, <3>3, <3>4
      <4>2. ASSUME NEW r \in Requests PROVE MayWrite(r, d)' <=> MayWrite(r, d)
        <5>1. CASE r = q
          BY <5>1, <2>0, <2>1, <2>2, <3>1, <1>t DEF MayWrite, TypeOK
        <5>2. CASE r # q
          <6>1. pc'[r] = pc[r] /\ arg'[r] = arg[r]
            BY <5>2, <3>1, <1>t DEF TypeOK
          <6>2. ASSUME pc[r] = "successor"
                PROVE  /\ Grant(arg[r])' = Grant(arg[r])
                       /\ Grant(arg[r]) = d =>
                            (Unfenced(family[arg[r]])' <=> Unfenced(family[arg[r]]))
            <7>1. PICK v \in Tokens, g \in Tokens : v = arg[r] /\ g = family[v]
              BY <6>2 DEF IInv, Placed, Lineage
            <7>2. v # t /\ g # None /\ Grant(v) = origin[g]
              BY <7>1, <6>2, <2>1 DEF IInv, Placed, Grant, TypeOK
            <7>3. arg'[r] = v /\ family'[v] = g /\ Grant(v)' = Grant(v)
              BY <7>1, <7>2, <6>1, <3>3, <3>4
            <7>4. g # f => (Unfenced(g)' <=> Unfenced(g))
              BY <3>3, <7>2, <2>1 DEF Unfenced
            <7>5. Grant(v) = d => g # f
              BY <7>2, <2>2
            <7> QED  BY <7>1, <7>3, <7>4, <7>5
          <6>3. Unreplayed(d)' <=> Unreplayed(d)
            BY <3>1 DEF Unreplayed
          <6> QED  BY <6>1, <6>2, <6>3 DEF MayWrite
        <5> QED  BY <5>1, <5>2
      <4> QED  BY <4>1, <4>2, <3>1 DEF Bearers
    <3> QED  BY <3>2, <3>5, <3>6, <3>7, IssueRightStep
  <2> QED  BY <2>3, <2>4
<1>5. CASE TrackByFamily(q)
  <2>1. /\ UNCHANGED <<code, row, family, origin>>
        /\ \A r \in Requests : r # q => pc'[r] = pc[r] /\ arg'[r] = arg[r]
        /\ pc'[q] \in {"answer", "idle"}
    BY <1>5, <1>t DEF TrackByFamily, TypeOK
  <2>2. May
    BY <2>1 DEF MayWrite, Grant, Unfenced, Unreplayed
  <2> QED  BY <2>1, <2>2, Shrinks DEF Written
<1>6. CASE RevokeFamily(q)
  <2>0. PICK f \in Tokens : f = family[arg[q]]
    BY <1>6 DEF RevokeFamily, IInv, Placed, Lineage
  <2>1. /\ \A t \in Tokens : /\ row'[t] = "live" => row[t] = "live"
                             /\ row'[t] = "none" <=> row[t] = "none"
                             /\ row[t] = "fenced" => row'[t] = "fenced"
        /\ UNCHANGED <<code, family, origin>>
        /\ \A r \in Requests : r # q => pc'[r] = pc[r] /\ arg'[r] = arg[r]
        /\ pc'[q] = "idle"
    BY <1>6, <2>0, <1>t DEF RevokeFamily, Fence, TypeOK, IInv, Lineage
  <2>2. May
    BY <2>1 DEF MayWrite, Grant, Unfenced, Unreplayed
  <2> QED  BY <2>1, <2>2, Shrinks DEF Written
<1> QED  BY <1>1, <1>2, <1>3, <1>4, <1>5, <1>6 DEF RefreshStep

LEMMA OtherImplements ==
    ASSUME IInv, IInv', OtherStep
    PROVE  Right!Next
<1> USE DEF stores, ghosts
<1> DEFINE May == \A r \in Requests, c \in Codes : MayWrite(r, c)' => MayWrite(r, c)
<1>t. TypeOK
  BY DEF IInv
<1>1. ASSUME NEW q \in Requests, Fails(q) PROVE Right!Next
  <2>1. May
    BY <1>1, <1>t DEF Fails, End, MayWrite, Grant, Unfenced, Unreplayed, TypeOK
  <2> QED  BY <1>1, <2>1, Shrinks DEF Fails, Written
<1>2. ASSUME NEW C \in SUBSET Codes, RevokeUser(C) PROVE Right!Next
  <2>1. /\ \A t \in Tokens : /\ row'[t] = "live" => row[t] = "live"
                             /\ row'[t] = "none" <=> row[t] = "none"
                             /\ row[t] = "fenced" => row'[t] = "fenced"
        /\ UNCHANGED <<code, family, origin, pc, arg>>
    BY <1>2, <1>t DEF RevokeUser, Fence, Grant, TypeOK, IInv, Lineage
  <2>2. May
    BY <2>1 DEF MayWrite, Grant, Unfenced, Unreplayed
  <2> QED  BY <2>1, <2>2, Shrinks DEF Written
<1>3. ASSUME NEW t \in Tokens, ClientRevokes(t) PROVE Right!Next
  <2>1. /\ \A u \in Tokens : /\ row'[u] = "live" => row[u] = "live"
                             /\ row'[u] = "none" <=> row[u] = "none"
                             /\ row[u] = "fenced" => row'[u] = "fenced"
        /\ UNCHANGED <<code, family, origin, pc, arg>>
    BY <1>3, <1>t DEF ClientRevokes, TypeOK
  <2>2. May
    BY <2>1 DEF MayWrite, Grant, Unfenced, Unreplayed
  <2> QED  BY <2>1, <2>2, Shrinks DEF Written
<1>4. ASSUME NEW c \in Codes, DeleteCode(c) PROVE Right!Next
  <2>1. May
    BY <1>4, <1>t DEF DeleteCode, MayWrite, Grant, Unfenced, Unreplayed, TypeOK
  <2> QED  BY <1>4, <2>1, <1>t, Shrinks DEF DeleteCode, Written, TypeOK
<1> QED  BY <1>1, <1>2, <1>3, <1>4 DEF OtherStep

RightVars == <<[c \in Codes |-> Bearers(c)], {t \in Tokens : row[t] # "none"}>>

LEMMA RightStep == IInv /\ IInv' /\ [Next]_vars => [Right!Next]_RightVars
<1> SUFFICES ASSUME IInv, IInv', [Next]_vars PROVE [Right!Next]_RightVars
  OBVIOUS
<1>1. CASE Next
  BY <1>1, ExchangeImplements, RefreshImplements, OtherImplements
     DEF Next, RightVars
<1>2. CASE UNCHANGED vars
  BY <1>2 DEF vars, Bearers, MayWrite, Grant, Unfenced, Unreplayed, RightVars
<1> QED  BY <1>1, <1>2

(* The rows, fences and conditional updates implement one right per grant,   *)
(* which is passed on or lost: no overlap of requests doubles it, and after  *)
(* a revocation, an expiry or a failure none gives it back                   *)
THEOREM ImplementsRightHolds == Spec => ImplementsRight
<1>1. Init => Right!Init
  <2> SUFFICES ASSUME Init PROVE Right!Init
    OBVIOUS
  <2>1. \A c \in Codes : Bearers(c) = {"code"}
    BY DEF Init, Bearers, MayWrite
  <2> QED  BY <2>1 DEF Init, Right!Init
<1> QED  BY <1>1, RightStep, IInvHolds, PTL
            DEF Spec, ImplementsRight, Right!Spec, RightVars

(* Once nothing can lead to another refresh token of a grant, nothing will    *)
RightStays == \A c \in Codes : Bearers(c) = {} => Bearers(c)' = {}

LostForGood == [][RightStays]_vars

LEMMA LostStep ==
    ASSUME [Right!Next]_RightVars, NEW c \in Codes, Bearers(c) = {}
    PROVE  Bearers(c)' = {}
<1> DEFINE right == [d \in Codes |-> Bearers(d)]
<1>1. right[c] = {} /\ right'[c] = Bearers(c)'
  OBVIOUS
<1>2. CASE UNCHANGED RightVars
  BY <1>1, <1>2 DEF RightVars
<1>3. ASSUME NEW C \in SUBSET Codes, Right!Lose(C) PROVE Bearers(c)' = {}
  BY <1>3 DEF Right!Lose
<1>4. ASSUME NEW q \in Requests, NEW d \in Codes, Right!Spend(q, d)
      PROVE  Bearers(c)' = {}
  <2>1. d # c /\ right' = [right EXCEPT ![d] = {q}]
    BY <1>1, <1>4 DEF Right!Spend
  <2> QED  BY <1>1, <2>1
<1>5. ASSUME NEW q \in Requests, NEW d \in Codes, NEW t \in Tokens,
             Right!Issue(q, d, t)
      PROVE  Bearers(c)' = {}
  <2>1. d # c /\ right' = [right EXCEPT ![d] = {t}]
    BY <1>1, <1>5 DEF Right!Issue
  <2> QED  BY <1>1, <2>1
<1> QED  BY <1>2, <1>3, <1>4, <1>5 DEF Right!Next

(* A grant whose right was lost ends there: no request that was under way,   *)
(* no retry and no other token of the family leads to a refresh token again  *)
THEOREM LostForGoodHolds == Spec => LostForGood
<1>1. IInv /\ IInv' /\ [Next]_vars => [RightStays]_vars
  BY RightStep, LostStep DEF RightStays
<1> QED  BY <1>1, IInvHolds, PTL DEF Spec, LostForGood

=============================================================================
