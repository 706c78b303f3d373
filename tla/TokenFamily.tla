---------------------------- MODULE TokenFamily ----------------------------
(***************************************************************************)
(* The tokens of one user: authorization codes, the refresh tokens rotated *)
(* from them in families, the access tokens issued beside them, and what   *)
(* revokes them.  All of it is rows of D1, which runs one statement, or    *)
(* one batch, at a time; a request is a slot of Requests that waits for D1 *)
(* at every label below while other requests take their steps.             *)
(*                                                                         *)
(* A token id stands for the refresh token and the access token of one     *)
(* answer.  A family is named after its first refresh token.  Time is left *)
(* out: any code or refresh token read may be found expired.  Client,      *)
(* redirect, PKCE, DPoP and scope checks precede every write of theirs and *)
(* end the request, so that a request here is one that passed them.        *)
(***************************************************************************)
EXTENDS Naturals

CONSTANTS
    Codes,          \* authorization codes
    Tokens,         \* ids of issued tokens
    Requests,       \* slots for requests in progress
    None            \* SQL NULL, and the argument of an idle request

ASSUME ConstantsOK == /\ None \notin Codes \cup Tokens
                      /\ Codes \cap Tokens = {}

VARIABLES
    code,           \* code[c]: the row of c in authorization_codes
    row,            \* row[t]: the row of t in refresh_tokens
    family,         \* family[t]: its family_id
    origin,         \* origin[t]: its authorization_code, in first rows only
    link,           \* link[t]: what access_token_issuances ties t's jti to
    denied,         \* jtis in access_token_revocations
    sent,           \* tokens a client has been answered with
    pc,             \* pc[q]: what request q waits for
    arg,            \* arg[q]: the code or refresh token presented to q
    new,            \* new[q]: the id q has minted
    condemned,      \* codes and families a replay or the user's revocation met
    disowned        \* families a client has revoked at /revoke

stores == <<code, row, family, origin, link, denied, sent>>
ghosts == <<condemned, disowned>>
vars == <<code, row, family, origin, link, denied, sent, pc, arg, new,
          condemned, disowned>>

-----------------------------------------------------------------------------
(* Mutants: slips the properties below must notice; more of them follow *)

\* revokeFamily marks only rows whose revoked_at is null
FenceLiveRows(F) ==
    [t \in Tokens |->
        IF family[t] \in F /\ row[t] = "live" THEN "fenced" ELSE row[t]]

\* The denylist statement of a batch reads the codes and not the families
DenyCodes(L) == denied \cup {t \in Tokens : link[t] \in L \cap Codes}

\* The families of a code, without the condition on authorization_code
AllFamilies(C) == {family[t] : t \in {u \in Tokens : origin[u] # None}}

-----------------------------------------------------------------------------
(* Data *)

\* "replayed": consumed_at and replay_detected_at are set
CodeStates == {"issued", "consumed", "replayed", "deleted"}

\* "revoked": revoked_at is set; "fenced": family_revoked_at too
RowStates == {"none", "live", "revoked", "fenced"}

Waits == {"idle", "consume", "codeReplay", "mint", "refresh", "answer",
          "rotate", "lapse", "successor", "track", "familyReplay"}

Grant(t) == IF family[t] = None THEN None ELSE origin[family[t]]

\* SELECT family_id FROM refresh_tokens WHERE authorization_code IN C
FamiliesOf(C) == {family[t] : t \in {u \in Tokens : origin[u] \in C}}

\* No row of family f has family_revoked_at set
Unfenced(f) == \A t \in Tokens : family[t] = f => row[t] # "fenced"

\* replay_detected_at IS NULL, in a row that is still there
Unreplayed(c) == code[c] \in {"issued", "consumed"}

\* SET revoked_at, family_revoked_at on every row of the families F, ancestors
\* that were rotated away included
Fence(F) == [t \in Tokens |-> IF family[t] \in F THEN "fenced" ELSE row[t]]

\* INSERT OR IGNORE INTO access_token_revocations SELECT ... of what L issued
Deny(L) == denied \cup {t \in Tokens : link[t] \in L}

\* createPersistedId and the random jti: an id nothing has yet
Fresh(t) == row[t] = "none" /\ link[t] = None /\ \A q \in Requests : new[q] # t

Init ==
    /\ code = [c \in Codes |-> "issued"]
    /\ row = [t \in Tokens |-> "none"]
    /\ family = [t \in Tokens |-> None]
    /\ origin = [t \in Tokens |-> None]
    /\ link = [t \in Tokens |-> None]
    /\ denied = {}
    /\ sent = {}
    /\ pc = [q \in Requests |-> "idle"]
    /\ arg = [q \in Requests |-> None]
    /\ new = [q \in Requests |-> None]
    /\ condemned = {}
    /\ disowned = {}

Begin(q, x, l) ==
    /\ pc[q] = "idle"
    /\ pc' = [pc EXCEPT ![q] = l]
    /\ arg' = [arg EXCEPT ![q] = x]
    /\ UNCHANGED new

Goto(q, l) ==
    /\ pc' = [pc EXCEPT ![q] = l]
    /\ UNCHANGED <<arg, new>>

Mint(q, t, l) ==
    /\ pc' = [pc EXCEPT ![q] = l]
    /\ new' = [new EXCEPT ![q] = t]
    /\ UNCHANGED arg

\* The handler answers an error or throws
End(q) ==
    /\ pc' = [pc EXCEPT ![q] = "idle"]
    /\ arg' = [arg EXCEPT ![q] = None]
    /\ new' = [new EXCEPT ![q] = None]

-----------------------------------------------------------------------------
(* Mutants: slips the properties below must notice *)

\* The update of a code does not ask for consumed_at IS NULL
ConsumeAgain(q) ==
    /\ pc[q] = "consume"
    /\ code[arg[q]] # "deleted"
    /\ code' = [code EXCEPT ![arg[q]] = "consumed"]
    /\ Goto(q, "mint")
    /\ UNCHANGED <<row, family, origin, link, denied, sent, ghosts>>

\* atomicRevokeOld without revoked_at IS NULL
RotateAgain(q) ==
    /\ pc[q] = "rotate"
    /\ row' = [row EXCEPT ![arg[q]] = IF @ = "fenced" THEN @ ELSE "revoked"]
    /\ Goto(q, "successor")
    /\ UNCHANGED <<code, family, origin, link, denied, sent, ghosts>>

\* persistRotatedRefresh does not look for family_revoked_at
InsertAnyway(q, t) ==
    /\ pc[q] = "successor"
    /\ Fresh(t)
    /\ row' = [row EXCEPT ![t] = "live"]
    /\ family' = [family EXCEPT ![t] = family[arg[q]]]
    /\ Mint(q, t, "track")
    /\ UNCHANGED <<code, origin, link, denied, sent, ghosts>>

\* The first refresh token is written without its family
IssueOrphan(q) ==
    /\ pc[q] = "refresh"
    /\ row' = [row EXCEPT ![new[q]] = "live"]
    /\ origin' = [origin EXCEPT ![new[q]] = arg[q]]
    /\ Goto(q, "answer")
    /\ UNCHANGED <<code, family, link, denied, sent, ghosts>>

-----------------------------------------------------------------------------
(* grant_type=authorization_code *)

PresentCode(q, c) ==
    /\ code[c] # "deleted"
    /\ Begin(q, c, "consume")
    /\ UNCHANGED <<stores, ghosts>>

\* The conditional update of consumed_at; no row updated means a replay
Consume(q) ==
    /\ pc[q] = "consume"
    /\ IF code[arg[q]] = "issued"
       THEN code' = [code EXCEPT ![arg[q]] = "consumed"] /\ Goto(q, "mint")
       ELSE code' = code /\ Goto(q, "codeReplay")
    /\ UNCHANGED <<row, family, origin, link, denied, sent, ghosts>>

\* revokeFamiliesForCode, one batch
RevokeForCode(q) ==
    LET c == arg[q]
        F == FamiliesOf({c})
    IN  /\ pc[q] = "codeReplay"
        /\ code' = IF code[c] = "deleted" THEN code
                   ELSE [code EXCEPT ![c] = "replayed"]
        /\ row' = Fence(F)
        /\ denied' = Deny({c} \cup F)
        /\ condemned' = condemned \cup {c} \cup {t \in Tokens : origin[t] = c}
        /\ End(q)
        /\ UNCHANGED <<family, origin, link, sent, disowned>>

\* The access token is signed, and recorded unless a replay was detected
TrackByCode(q, t) ==
    /\ pc[q] = "mint"
    /\ \/ /\ Unreplayed(arg[q])
          /\ Fresh(t)
          /\ link' = [link EXCEPT ![t] = arg[q]]
          /\ Mint(q, t, "refresh")
       \/ ~Unreplayed(arg[q]) /\ link' = link /\ End(q)
    /\ UNCHANGED <<code, row, family, origin, denied, sent, ghosts>>

\* issueRefreshIfAllowed begins the family.  The answer goes out without a
\* refresh token when none is allowed, or when a replay was detected.
IssueRefresh(q) ==
    /\ pc[q] = "refresh"
    /\ \/ /\ Unreplayed(arg[q])
          /\ row' = [row EXCEPT ![new[q]] = "live"]
          /\ family' = [family EXCEPT ![new[q]] = new[q]]
          /\ origin' = [origin EXCEPT ![new[q]] = arg[q]]
       \/ UNCHANGED <<row, family, origin>>
    /\ Goto(q, "answer")
    /\ UNCHANGED <<code, link, denied, sent, ghosts>>

Answer(q) ==
    /\ pc[q] = "answer"
    /\ sent' = sent \cup {new[q]}
    /\ End(q)
    /\ UNCHANGED <<code, row, family, origin, link, denied, ghosts>>

-----------------------------------------------------------------------------
(* grant_type=refresh_token *)

\* detectReplay on the row as read; a live one may be found expired
PresentRefresh(q, t) ==
    /\ t \in sent
    /\ \/ row[t] = "live" /\ \E l \in {"rotate", "lapse"} : Begin(q, t, l)
       \/ row[t] \in {"revoked", "fenced"} /\ Begin(q, t, "familyReplay")
    /\ UNCHANGED <<stores, ghosts>>

Lapse(q) ==
    /\ pc[q] = "lapse"
    /\ row' = [row EXCEPT ![arg[q]] = IF @ = "live" THEN "revoked" ELSE @]
    /\ End(q)
    /\ UNCHANGED <<code, family, origin, link, denied, sent, ghosts>>

\* atomicRevokeOld; no row updated means another request has rotated it
Rotate(q) ==
    /\ pc[q] = "rotate"
    /\ IF row[arg[q]] = "live"
       THEN row' = [row EXCEPT ![arg[q]] = "revoked"] /\ Goto(q, "successor")
       ELSE row' = row /\ Goto(q, "familyReplay")
    /\ UNCHANGED <<code, family, origin, link, denied, sent, ghosts>>

\* persistRotatedRefresh: the successor, unless the family is fenced
InsertSuccessor(q, t) ==
    LET f == family[arg[q]]
    IN  /\ pc[q] = "successor"
        /\ Fresh(t)
        /\ IF Unfenced(f)
           THEN /\ row' = [row EXCEPT ![t] = "live"]
                /\ family' = [family EXCEPT ![t] = f]
                /\ Mint(q, t, "track")
           ELSE UNCHANGED <<row, family>> /\ Goto(q, "familyReplay")
        /\ UNCHANGED <<code, origin, link, denied, sent, ghosts>>

TrackByFamily(q) ==
    LET f == family[arg[q]]
    IN  /\ pc[q] = "track"
        /\ IF Unfenced(f)
           THEN link' = [link EXCEPT ![new[q]] = f] /\ Goto(q, "answer")
           ELSE link' = link /\ End(q)
        /\ UNCHANGED <<code, row, family, origin, denied, sent, ghosts>>

\* revokeFamily, one batch
RevokeFamily(q) ==
    LET f == family[arg[q]]
    IN  /\ pc[q] = "familyReplay"
        /\ row' = Fence({f})
        /\ denied' = Deny({f})
        /\ condemned' = condemned \cup {f}
        /\ End(q)
        /\ UNCHANGED <<code, family, origin, link, sent, disowned>>

-----------------------------------------------------------------------------
(* Everybody else *)

\* Any wait may end the request: D1 is unavailable, the user is inactive, the
\* grant context is gone, the isolate stops
Fails(q) ==
    /\ pc[q] # "idle"
    /\ End(q)
    /\ UNCHANGED <<stores, ghosts>>

\* revokeUserCredentials and revokeClientTokens, one batch: the grants C are
\* all of the user's, or those of one client.  Codes are left as they are.
RevokeUser(C) ==
    LET F == {family[t] : t \in {u \in Tokens : Grant(u) \in C}}
    IN  /\ row' = Fence(F)
        /\ denied' = Deny(C \cup F)
        /\ condemned' = condemned \cup F
        /\ UNCHANGED <<code, family, origin, link, sent, pc, arg, new, disowned>>

\* POST /revoke with a refresh token: revoked_at on the rows of its family
ClientRevokes(t) ==
    /\ t \in sent
    /\ row[t] # "none"
    /\ row' = [u \in Tokens |-> IF family[u] = family[t] /\ row[u] = "live"
                                THEN "revoked" ELSE row[u]]
    /\ disowned' = disowned \cup {family[t]}
    /\ UNCHANGED <<code, family, origin, link, denied, sent, pc, arg, new,
                   condemned>>

\* The hourly cron deletes expired codes
DeleteCode(c) ==
    /\ code[c] # "deleted"
    /\ code' = [code EXCEPT ![c] = "deleted"]
    /\ UNCHANGED <<row, family, origin, link, denied, sent, pc, arg, new, ghosts>>

ExchangeStep(q) ==
    \/ \E c \in Codes : PresentCode(q, c)
    \/ Consume(q)
    \/ RevokeForCode(q)
    \/ \E t \in Tokens : TrackByCode(q, t)
    \/ IssueRefresh(q)
    \/ Answer(q)

RefreshStep(q) ==
    \/ \E t \in Tokens : PresentRefresh(q, t)
    \/ Lapse(q)
    \/ Rotate(q)
    \/ \E t \in Tokens : InsertSuccessor(q, t)
    \/ TrackByFamily(q)
    \/ RevokeFamily(q)

OtherStep ==
    \/ \E q \in Requests : Fails(q)
    \/ \E C \in SUBSET Codes : C # {} /\ RevokeUser(C)
    \/ \E t \in Tokens : ClientRevokes(t)
    \/ \E c \in Codes : DeleteCode(c)

Next == \/ \E q \in Requests : ExchangeStep(q) \/ RefreshStep(q)
        \/ OtherStep

Spec == Init /\ [][Next]_vars

-----------------------------------------------------------------------------
(* Properties *)

\* The variables have their types, and a row exists exactly when it is in a
\* family that began with a code (persistAuthorizationCodeRefresh writes the
\* two with the first row, persistRotatedRefresh inherits the family).
TypeOK ==
    /\ code \in [Codes -> CodeStates]
    /\ row \in [Tokens -> RowStates]
    /\ family \in [Tokens -> Tokens \cup {None}]
    /\ origin \in [Tokens -> Codes \cup {None}]
    /\ link \in [Tokens -> Codes \cup Tokens \cup {None}]
    /\ denied \subseteq Tokens /\ sent \subseteq Tokens
    /\ pc \in [Requests -> Waits]
    /\ arg \in [Requests -> Codes \cup Tokens \cup {None}]
    /\ new \in [Requests -> Tokens \cup {None}]
    /\ condemned \subseteq Codes \cup Tokens /\ disowned \subseteq Tokens
    /\ \A t \in Tokens : row[t] = "none" <=> Grant(t) = None

\* A grant has at most one usable refresh token, whatever requests present its
\* code and its tokens at once: the compare-and-set of consumed_at and that of
\* revoked_at (rotateAndIssue) make the tokens of a grant a chain.
OneLive ==
    \A t, u \in Tokens :
        row[t] = "live" /\ row[u] = "live" /\ Grant(t) = Grant(u) => t = u

\* One code yields one first access token, and no second one later on
\* (grantAuthorizationCode: the code is consumed conditionally).
RedeemedOnce ==
    \A t, u \in Tokens : link[t] \in Codes /\ link[t] = link[u] => t = u

\* What a replay, or the user's revocation, has met is dead for good: no
\* refresh token of the family lives or will be written by a rotation or an
\* exchange under way, and every access token tied to it is on the denylist or
\* will not be issued (the fences of revokeFamiliesForCode, revokeFamily and
\* revokeUserCredentials).
CondemnedStaysDead ==
    \A t \in Tokens :
        /\ {family[t], Grant(t)} \cap condemned # {} => row[t] = "fenced"
        /\ link[t] \in condemned => t \in denied

\* A fence reaches only the families it was meant for: replaying a code
\* leaves the families of the user's other codes alone (revokeFamiliesForCode
\* revokes only the family first issued from that code).
NoCollateral ==
    \A t \in Tokens : row[t] = "fenced" => family[t] \in condemned

\* Request q has spent the code of c, or a token of it, and what it reads when
\* it writes the next token still lets it
MayWrite(q, c) ==
    \/ pc[q] \in {"mint", "refresh"} /\ arg[q] = c /\ Unreplayed(c)
    \/ /\ pc[q] = "successor" /\ Grant(arg[q]) = c
       /\ Unfenced(family[arg[q]])

\* Whoever a further refresh token of grant c could come from
Bearers(c) == {x \in {"code"} : code[c] = "issued"}
                \cup {q \in Requests : MayWrite(q, c)}
                \cup {t \in Tokens : row[t] = "live" /\ Grant(t) = c}

Right == INSTANCE GrantRight WITH right <- [c \in Codes |-> Bearers(c)],
                                  issued <- {t \in Tokens : row[t] # "none"}

\* The conditional updates of consumed_at and revoked_at and the fences pass one
\* right from hand to hand: at any time one code, request or refresh token can
\* lead to the next refresh token of a grant, and once a revocation, an expiry
\* or a failure leaves none, no request under way brings it back
\* (grantAuthorizationCode, rotateAndIssue, persistRotatedRefresh).
ImplementsRight == Right!Spec

\* A family some client has revoked at /revoke has no usable token: "if any
\* token of the family is revoked the whole family is" (revokeRefreshToken).
DisownedIsDead ==
    \A t \in Tokens : family[t] \in disowned => row[t] # "live"

=============================================================================
