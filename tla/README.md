# Verification of xid

This directory holds TLA+ modules that model the parts of xid whose correctness
depends on the order in which Durable Objects, D1 and the queues take their
steps, the TLC configurations that check them on small instances, and proofs
that TLAPS checks for every instance.

## 1. The system

xid is an identity platform. One Cloudflare Worker (`src/apps/server/worker`)
serves the HTTP API, the hosted pages, the queue consumers and the cron jobs.
Durable state is in D1 (SQL, many statements per request, no transaction that
spans two of them except `batch`) and in Durable Objects (single threaded, own
storage, an input gate that holds other events back during storage operations
but not while the object waits for D1, a digest or a fetch).

Three facts decide how everything below is modelled:

- a D1 statement or `batch` is one atomic step, and between two of them any
  other request, cron job or consumer may run;
- a Durable Object call that only touches its storage is one atomic step, one
  that awaits D1 or a digest is several;
- an invocation may end anywhere, and the answer of any call may be lost after
  the call took effect.

### Components

| Component | State | Operations | What makes it correct | Module |
|---|---|---|---|---|
| Audit chain (`durable-objects/audit-seq-do.ts`) | `next`, `lastHash`, `pending`; D1 `audit_events`, `audit_dead_letters` | `append`, `terminalize` | no gap, no fork, one fate per event, no tenant blocked for good | `AuditChain`, `AuditLog` |
| Audit delivery (`platform/audit-outbox.ts`, `queues/audit.ts`, `queues/dead-letter.ts`, `platform/dead-letters.ts`) | outbox rows, queue, dead-letter queue, quarantine rows with a replay lease | insert, send, mark, redeliver, consume, quarantine, replay, recover | no accepted event is lost, no row claims what did not happen, one audited replay | `AuditDelivery` |
| Sessions (`lib/session.ts`, `durable-objects/session-do.ts`, `lib/mfa-session.ts`, `v1/sessions.ts`) | D1 `sessions`; SessionDO's active set and generation; cookies | issue, read, complete MFA, revoke one, revoke all, expire, sweep | what was revoked stays out, whatever is under way | `SessionRevocation`, `SessionRegister` |
| Codes and refresh tokens (`oidc/token-grants.ts`, `oidc/token-issue.ts`, `lib/revoke-user-credentials.ts`, `oauth/revoke.ts`) | D1 `authorization_codes`, `refresh_tokens`, `access_token_revocations` | exchange, rotate, detect replay, revoke by family, user or client, clean up | one live token per grant, fences hold and reach only their family | `TokenFamily`, `GrantRight` |
| CIBA (`durable-objects/ciba-store.ts`, `oidc/ciba.ts`) | one request with a reservation lease; D1 `refresh_tokens` | create, decide, poll, reserve, finalize, abort, sweep | tokens handed out at most once, a failed attempt gives the request back and leaves no row | `CibaIssuance`, `Redemption` |
| Notification delivery (`queues/notification-*.ts`) | outbox row with status, lease and attempts; failure records; queue messages | enqueue, claim, call the provider, settle, audit, give up, replay | never sent twice on purpose, an unknown outcome stays unknown, none is lost | `NotificationDelivery`, `ProviderCalls` |
| Invitation claims (`me-auth/invitation-claim-*.ts`, `auth/invitations.ts`, `v1/invitations.ts`, `crons/hourly.ts`) | D1 invitation, user, membership and session rows; SessionDO; a cookie | mail the proof, consume or recover it, reserve and issue a session, accept, revoke, expire | accepted once and wholly, its session can always be found and ended | `InvitationClaim`, `InvitationFate` |
| DeviceFlowStore, ChallengeStore, ParStore, OAuthFlowDO, SessionHandoffDO, ImpersonationGrantDO | one value with an expiry | put, poll, consume, claim | consumed at most once | not modelled |
| RateLimitStore, MeteringDO, GuestStore | counters, month members, guest bindings | count, reserve, evict, bind, collect | limits all-or-nothing, a user counted once a month | not modelled |
| Everything else (HTTP layer, admin CRUD, SAML, SCIM, billing, privacy, SDKs, UI) | D1 rows | mostly one statement per request | see `PROJECT.json` | not modelled, reasons there |

### How they interact

Every administrative write puts a platform audit in the outbox; the outbox sends
it to the audit queue; the consumer calls the audit chain's object of the
tenant; what the consumer cannot deliver goes to the dead-letter queue and from
there to the quarantine, from which an operator replays it, and the replay is
itself audited through the outbox. `AuditDelivery` composes these steps with
`AuditLog`, the abstract specification that `AuditChain` is checked to implement.

Sign-in issues a session (`SessionRevocation`), a session authorizes a code, and
a code starts a family of refresh tokens (`TokenFamily`). Sign-out, password
reset, suspension and deletion revoke both, through separate statements: no
step of one module reads a variable of the other, so the two are checked apart.

A CIBA request (`CibaIssuance`) is another way to a family of refresh tokens: it
writes the family's first row itself, before its client has the token, and
deletes it when it cannot finish. It meets the other families only in the table.

An invitation (`InvitationClaim`) is mailed through the notification outbox
(`NotificationDelivery`) and ends in a browser session. The claim's session is
issued with the same calls as any other, but from an id that was reserved
beforehand; `InvitationClaim` therefore has the row and the active set of its
own sessions, and `SessionRevocation` the generation, the reads and MFA. A
notification that was sent is audited over the queue of `AuditDelivery`, which
takes it like an event of `Plain`.

### What is hard to test here

`PROJECT.json` lists the hazards line by line. In short: two requests that have
both read the same row before either writes it; a revocation between the steps
of an issuance; a SessionDO or queue call that took effect but whose answer was
lost; a restart between a D1 write and the storage write that remembers it; a
replay, a call to a provider or an issuance that outlives its lease; a batch
whose guards must all fail together; a message or a lease whose owner never
returns.

## 2. The plan

1. `AuditChain`, its abstract specification `AuditLog`, proofs, the refinement
   included. **Done.**
2. `SessionRevocation`, proofs. **Done.**
3. `TokenFamily`, proofs. **Done.**
4. `AuditDelivery`, which composes the outbox, the queue, the consumer and the
   quarantine with `AuditLog`, proofs. **Done.**
5. `CibaIssuance` and its abstract specification `Redemption`, proofs, the
   refinement included. **Done.**
6. `NotificationDelivery`, proofs. **Done.**
7. `InvitationClaim`, proofs. **Done.**
8. Abstract specifications for the components that had none: `SessionRegister`,
   `GrantRight`, `ProviderCalls` and `InvitationFate`, the refinements checked
   and proved. **Done.**
9. `DeviceGrant` as another implementation of `Redemption`; the one-shot stores
   as implementations of "given out at most once"; `RateLimit`, `Metering` and
   `AuditVerify` as operators checked against reference definitions.

Bounds stay at the smallest instance in which every hazard of the module
happens: two of what competes, one more than that of what is consumed.
RECURSIVE operators stay out of every module, so that all can be proved about.

## 3. The modules

Each component module is a plain state machine: constants for the sets of ids,
variables for the durable state and for the requests in progress (`pc[q]` names
the call a request waits for), one action per step between two waits. Each `MC`
module adds only the values and the symmetry set TLC needs. Operators marked as
mutants are not used by any specification: each is a plausible slip in one
definition, and putting it in that definition's place makes a property fail.

### AuditChain and AuditLog

`events` and `deadLetters` are the two D1 tables; `chain` is `next`, `lastHash`
and `pending`. The object assigns each of its fields together with the storage
write that makes it durable and its constructor reads them back, so memory and
storage are one variable and a restart loses only the runs. A *run* is one call
of `append` or `terminalize`; it can be interrupted at every D1 call and digest.
D1 commands are either applied or lost, and either answer may be lost; none is
delayed past a crash. `attempted` abstracts the time since the last attempt to
unknown, recent or stale. The digest is an arbitrary operator: no property
depends on it being injective.

`AuditLog` is what the component promises: an append-only sequence in which
every event has one place for ever, beside the set of events given up.
`ImplementsLog` is the refinement (`LogOfEvents` is the chain in the order of
its seq).

*Concurrency of one is load-bearing.* `OneFate`, `PendingAtHead` and
`ImplementsLog` are checked, and proved for all sources, with a single run, the
deployment that `max_concurrency: 1` in `wrangler.jsonc` gives; with two
overlapping runs they do not hold, because `isBlockedByPending` judges a snapshot
of `pending` that another run can replace. `ChainIntact` and `HeadConfirmed` hold
for any number of runs: TLAPS proves both in general, and TLC checks the first
with two runs.

### SessionRevocation and SessionRegister

One user. `row`, `members` and `generation` are the D1 rows and SessionDO's
active set and generation; `delivered` are the sessions whose cookie left. A
call of SessionDO is one step: its memory is a cache of its storage and its
writes coalesce. The statuses `pending_mfa` and `pending_mfa_setup` are one
("pending"); idleness and expiry may strike whenever they can; the at most three
attempts of `doAddSession` are any number, since an attempt that takes effect and
is repeated is the interesting case; the user's own status changes freely.
`generation` is capped by `MaxGeneration` in the guard of the revoke-all.
`fate[s]` and `began[q]` are history: what has been promised about a session,
and what had been promised when a request began.

`SessionRegister` is what is left of this from outside: one register of the
sessions in force. A revocation, of one session or of many, is one step of it
(`Bar`); a session enters it only until its cookie is sent or it is barred; a
reader gets a verdict by one look. `ImplementsRegister` is the refinement:
`InForce` is what SessionDO would answer for, `barred` the sessions whose `fate`
is "out", `handed` the cookies that left, and a reader has its verdict from its
`AskMember` until it is done. Rows, generations and retries are stutters.

Left out: the reservation of a claim session before its rows exist, SAML single
logout's fallback (`sso/saml-slo.ts:58-85`, which writes the row without
SessionDO), tenant moves, the rows deleted by privacy erasure and the guest
e-mail verification sweep.

### TokenFamily and GrantRight

One user. `code`, `row`, `family`, `origin`, `link` and `denied` are the columns
of the codes, refresh tokens and revocations that the statements read. One token
id stands for the refresh token and the access token of the same answer; a
family has the name of its first refresh token. Time is left out: any code or
token that is read may be found expired, and any code may be deleted by the
hourly cron. Client authentication, PKCE, DPoP, scopes and the status of the
user may fail a request anywhere (`Fails`). `RevokeUser(C)` covers the
revocation of a whole user and of one application. `condemned` and `disowned`
are history: what a replay or a revocation, or the client at `/revoke`, has met.

`GrantRight` says what rotation is for: the right to the next refresh token of a
grant has one bearer, the code, a request or a refresh token, and is passed on
or lost for good. `ImplementsRight` is the refinement: `Bearers(c)` are the code
while it is unspent, the requests whose conditional insert would still succeed,
and the live tokens of the grant.

Left out: the families of the device, CIBA and token-exchange grants, `/revoke`
of an access token, privacy erasure, and the case of a user revocation while a
code waits to be exchanged: the code survives and begins a new family.
`src/docs/design/01-authentication.md:297-300` promises only the families that
exist; the hazard list keeps it.

### AuditDelivery

`outbox` is the status of the platform audits' rows; `body`, `place` and the
consumer's `stage` are the queue and where each message is; `quarantine`, `holder`
and `expired` are the dead-letter rows, `replay_requested_at` (seen as the worker
that set it) and whether its lease is over; `replayOf` tells which audit reports
which replay. Messages are numbered in the order they are sent. The consumer has
concurrency one and works on one message at a time, in the stages append (or
terminalize), complete the outbox row, acknowledge; the chain is `AuditLog`'s
state, taken in by INSTANCE, which `AuditChain` implements under that same
concurrency. Events of `Audits` have an outbox row and a `sourceMessageId`,
those of `Plain` have neither, like the sign-in audits of `lib/login-audit.ts`.

Attempts are not counted: every failed delivery may be the last, and every
failed append may be followed by `terminalize`. A send that fails may have been
accepted. Any invocation may end anywhere. The times at which a row becomes due
are left out, so any row may be redelivered at any time. Malformed audit
messages, which nothing in the repository builds, redaction and encryption are
left out. `MaxSends` bounds the messages ever sent. Nothing consumes the queue of
the dead letters that could not be persisted, and the supply of messages is
bounded, so the system may stop (`CHECK_DEADLOCK FALSE`).

### CibaIssuance and Redemption

One CIBA request. `status`, `holder`, `leaseEnd` and `finalizedBy` are the record
in its CibaStore object, whose handlers each run in one transaction and are one
step; a token request (`pc[r]`) is named by the reservation its poll is given. It
waits for the object or for D1 between checking the user, writing the refresh
token's row, finalizing (a second time and by a read when the answers are lost)
and answering; whatever throws sends it to roll the row back and to abort.
`inactive`, `winner` and `fault` are history: whose user was inactive, who finalized,
and what went wrong that no recovery of this request could mend. A poll brings
the clock reading it began with, at most `MaxLag` old, so a lease may be short
by that much. Left out: the polling interval, the client id every call repeats,
and what is in the tokens.

`Redemption` is what a grant that a user must approve promises: one decision,
one winner, tokens for it alone. `RedeemedAtMostOnce` is the refinement: finalizing
is `Redeem`, answering is `Serve`, and reservations, leases and recoveries are
stutters.

### NotificationDelivery and ProviderCalls

One notification. `row`, `lease`, `attempts` and `queued` are its row in
`notification_delivery_outbox`, `failure` and `noted` its rows in the two failure
tables; `msg[m]`, `deliveries[m]` and `pc[m]` are a queue message that carries its
delivery id and the consumer that has it; `enq` are the producer and the hourly
job. `calls`, `last` and `audited` are history: what was really asked of the
provider and of the audit queue. An e-mail's row is written with the business
change and any number of messages may be sent for it; an SMS or a WhatsApp
message is only queued, and the first consumer writes its row. A message is
delivered `max_retries` + 1 times (six in `wrangler.jsonc`) and the provider is
called `PROVIDER_SEND_ATTEMPT_LIMIT` times (five); the instance scales both down
and keeps their order for the SMS queues.

`ProviderCalls` is the provider's side: a call takes a turn, a turn comes back
only with an answer that allows another one and while the limit does, and the
notification ends once, in what was said. `ImplementsProviderCalls` is the
refinement: the turn is free while the row may be claimed to send (`Turn`),
taken while a consumer is about to call, and spent otherwise; `Fate` is the row's
status without the leases.

What the code does and a reader may not expect, and the model keeps: every error
of the e-mail binding is indeterminate, so an e-mail is never sent twice; a
lease that a consumer read as over may be one that another consumer has just
taken anew, which ends the delivery as unknown though a call may succeed; a
message without a template is recorded and dropped and its row stays as it is;
a replayed SMS dead letter has a new message id and is a new notification, so
`Replay` is for e-mail alone. Left out: rendering, the choice of a provider, the
delays between deliveries and the one-time code that travels with a message.

### InvitationClaim and InvitationFate

One invitation whose invitee has no account. The columns of the invitation that
the statements compare are variables (`status`, `recovery`, `claimSession`,
`lease`, `acceptedBy`, `used`), and so are the claim sessions' rows and the
SessionDO's active set. A verify request (`pc[v]`) belongs to a browser (`key[v]`,
the recovery key in its cookie); `mine`, `prev` and `seen` are its local variables.
`manager` and `cron` are the revocation and the hourly job between their
statements. A batch of `invitation-claim-finalize.ts` is one step: its statements
are guarded by one finalization id and a failing insert rolls it back. `raced` is
history: the sessions that were revoked while they were being issued, the
exception that `SessionIsNamed` and `ImplementsFate` make and that the run
`invitation_two_sessions` is about.

`InvitationFate` is what the invitation promises: one end, at most one session
that can be used and none that was gone, a membership only for a claim that was
given a session, and nothing that opens once who ended the invitation was told
that no session is left (`sealed`). `ImplementsFate` is the refinement: usable
are the active rows, gone the revoked ones, and the sessions of `raced` count
as gone: nothing is promised of them. Sealed is a manager who was
answered, or an expiry whose claim session was cleared.

What the model keeps and a reader may not expect: the proof can be consumed by
one batch only, so a request that comes late finds another consumption id and is
refused; a session that is reserved but not issued is revoked by its id although
neither store has it; when the cleanup after `/revoke` throws, the manager's
second attempt is answered 409 and nothing repeats the cleanup (`ManagerFails`):
the invitation is sealed only by what was confirmed. Left out: the account an
unverified address is taken from, quotas, policies, MFA of the claim session, and
how invitations are made.

## 4. The runs

| Run | Instance | What it asks | Distinct states |
|---|---|---|---|
| `audit_serial` | 1 run, 3 events, fair | `HeadConfirmed`, `OneFate`, `PendingAtHead`, the refinement of `AuditLog` and `NeverBlockedForGood` | 27 000 |
| `audit_overlap` | 2 runs, 2 events | `ChainIntact` when calls overlap | 210 000 |
| `session_revocation` | 1 session, 3 requests, 2 revoke-alls | `OutStaysOut`, `NoLateAccept` and the refinement of `SessionRegister` | 1.1 million |
| `session_durable_row` | 1 session, 2 requests | a comment's claim, violated (finding) | |
| `token_family` | 2 codes, 4 tokens, 2 requests | `OneLive`, `RedeemedOnce`, `CondemnedStaysDead`, `NoCollateral` and the refinement of `GrantRight` | 1.0 million |
| `token_disowned` | 1 code, 2 tokens, 2 requests | a comment's claim, violated (finding) | |
| `audit_delivery` | 2 audits, 2 workers, 2 messages | `NothingLost`, `OutboxHonest`, `LeaseHeld`, `ReplayAudited` | 2.5 million |
| `audit_replay_ends` | 1 audit, 1 plain event, 1 worker, 2 messages, fair | `ReplayEnds` | 140 000 |
| `ciba_issuance` | 3 reservations, lease 2, request 5, clock to 6 | `FailedLeavesNoRow`, `NotUsedInVain`, `NoStrayLease`, `LeaseHeld` and the refinement of `Redemption` | 970 000 |
| `notification_delivery` | 1 notification, 2 messages, 2 calls, 2 or 3 deliveries, fair | `OneCaller`, `ResendOnlyWhenTold`, `RowIsTrue`, `Carried`, `Settles` and the refinement of `ProviderCalls` | 390 000 |
| `invitation_claim` | 2 requests, 2 browsers, 2 sessions | `OneAcceptance`, `SessionIsNamed` and the refinement of `InvitationFate` | 2.6 million |
| `invitation_two_sessions` | the same | a comment's claim, violated (finding) | |

*Why the bounds are enough.* The chain needs a blocked event, the one that blocks
it and one that comes later: three sources. The race of a session
has an issuance, a read or MFA completion, and a revocation: three requests on
one session, which a revoke-all may or may not keep; the properties speak of one
session at a time, and sessions meet only in the generation. A replay of a code needs the
exchange and the replay, and `NoCollateral` a second code; four tokens let one
grant rotate twice while the other exists. A replay of a dead letter needs the
message, its copy, two workers to compete for the claim and a second audit to
report it. A CIBA lease must run out under its holder, be taken by a second poll
and run out again before the request does: three reservations and a request two
leases long, with a clock that passes its end. A second message is what makes
two consumers of one notification, and a message is delivered as often as the
provider may be called, or once more. A claim needs a session that was issued, one
that replaces it, and two requests that are of one browser or of two, which
`Init` leaves open. What lies beyond is covered by the proofs, which bound
nothing.

*Fairness.* `AuditChain!FairSpec` has weak fairness of every step of a run (an
await that is over resumes) and of the stale window (time passes);
`NeverBlockedForGood` itself assumes that the queue keeps delivering the message
in question and that failures stop, so a message that used up its deliveries is
promised nothing. It is the sentence of
`src/docs/design/07-platform-operations.md` §5.1.4: "one stuck message cannot
block a tenant indefinitely". `AuditDelivery!FairSpec` has weak fairness of a
lease's end (time passes) and strong fairness of the hourly recovery: the cron
runs every hour, and operators do not retake the lease just before each of its
runs. The hourly jobs run one after the other without isolation
(`crons/hourly.ts`), so this assumes that the ones before it do not fail for
good. `NotificationDelivery!FairSpec` has weak fairness of the consumers (the
queue delivers what it holds, and a consumer goes on or stops), of the
producer and the hourly job, and strong fairness of a send to the queue: one that
is tried every hour succeeds in the end. Leases need none, since a message that
finds a running lease is delivered again until it is a dead letter. The other
specifications state no fairness, because the code retries nothing in them and
nothing in them is promised to happen: a CIBA client and an invitee may stop.

*Deadlock.* It is checked except where the system may stop: `audit_delivery` and
`audit_replay_ends` (no message left to send), `ciba_issuance` (the request is
over), `notification_delivery` (it has ended) and the invitation runs (it is
over and nobody comes back).

## 5. The proofs

All theorems hold for every value of the constants. Their assumptions are the
modules' own ASSUMEs (the null values lie outside of the sets they stand beside,
and bounds are numbers) and, in `AuditChainSerialProofs`, two hypotheses that
each theorem there states.

- **`AuditChainProofs`** — `TypeCorrect`, `ChainStaysIntact`,
  `HeadStaysConfirmed`, for any number of overlapping runs. `ChainIntact` alone
  is not inductive: a run may be about to insert a row it drafted long ago. The
  strengthening says that *every* place that holds a pair (seq, prev), the head,
  the pending event and the one in each run's local variable, got it from the
  chain (`Linked`); `events` only grows, so what once was linked stays linked,
  and INSERT OR IGNORE lets only one row take a seq.
- **`AuditChainSerialProofs`** — `OneFateHolds`, `PendingAtHeadHolds`,
  `ImplementsLogHolds`, `HeadAdvancesHolds`, `HeadAtEndHolds`, under two
  hypotheses: `Serial` (calls do not overlap, at most one member of `Runs`) and
  `NullsApart` (`NoRow` is no row and `NoPending` no pending event; sets of rows
  are too large for TLC to evaluate it as an ASSUME, and the instances use model
  values for both). `Placed` and `Above` say where the pending event is and that
  no other row of D1 is at or above `next`; `Stage` says, wait by wait, what the
  run has asked D1 and that nobody changed the answer since: its own source is
  open from `find` to the insert, the source it gives up was not found. For the
  refinement the seqs of D1 are shown to be 1..n (`Counted`), so the row the
  insert adds is the n+1st and `LogOfEvents` is appended to. `HeadAdvances`: no
  step moves `next` back or over a seq that D1 has not; `HeadAtEnd`: at most one
  row is not below `next`, and it is the pending event at `next`, which is why
  commitPersisted never throws that the sequence advanced outside the object
  (`NeverOutside`; a row beyond `next` would leave a gap in 1..n). With two runs
  `HeadAdvances` is false, as TLC shows: a run that read the table while it was
  empty finishes `initialize` after another one's commit and puts `next` back.
- **`SessionRevocationProofs`** — `TypeCorrect`, `OutHolds`,
  `NoLateAcceptHolds`, `LeftForGoodHolds`, `ImplementsRegisterHolds`. `Fenced`:
  an issuance that may still add an "out" session holds a generation that has
  passed. `Minted`: an issuance is the only one of its session and is over when
  the cookie leaves. `Doomed`: a read that began on an "out" session is still at
  or before its question to SessionDO. The refinement needs no more than these:
  an add is `Enter` because of `Fenced` and `Minted`, and each handler of
  SessionDO that revokes bars its sessions in the step in which it removes them.
- **`TokenFamilyProofs`** — `TypeCorrect`, `OneLiveHolds`,
  `RedeemedOnceHolds`, `CondemnedHolds`, `NoCollateralHolds`,
  `ImplementsRightHolds`, `LostForGoodHolds`. `Chain`: a grant has one right to
  issue, held by the request that spent its code or its last token, and while it
  is held nothing of the grant is live. `Dead`: a condemned code is replayed or
  deleted and a condemned family has its first row fenced, which is just what
  the conditional inserts read. For the refinement, `OneBearer` follows from
  both; then a step that adds no bearer keeps or loses the right (`ShrinkStep`),
  and only two spends and two inserts are left.
- **`AuditDeliveryProofs`** — `TypeCorrect`, `NothingLostHolds`,
  `OutboxHonestHolds`, `LeaseHeldHolds`, `ReplayAuditedHolds`, `OnePlaceHolds`,
  `NothingTakenBackHolds`. `Consumed`: how far the consumer has come is visible
  in the chain and the outbox. `Carried`: the latest message of each event is
  kept; messages are numbered as they are sent, so a completed replay always
  leaves a later one and can never be its own excuse. `UsesLogHolds` is the link
  to the audit chain: the composition only takes the steps of `AuditLog` that
  `ImplementsLogHolds` provides, and every source it hands over is one.
- **`CibaIssuanceProofs`** — `TypeCorrect`, `FailedLeavesNoRowHolds`,
  `NotUsedInVainHolds`, `NoStrayLeaseHolds`, `LeaseHeldHolds`, `Implements`. The
  invariant says, for each reservation, where its request may stand while it
  holds the lease (`LeaseInv`), has the row (`RowInv`) or has won (`WinnerInv`,
  `VainInv`); each failure that recovery cannot mend appears there as the fault
  that excuses it. `Implements` maps each step to a step of `Redemption` or a
  stutter: only the first finalize of a holder changes `winner`.
- **`NotificationDeliveryProofs`** — `TypeCorrect`, `OneCallerHolds`,
  `ResendOnlyWhenToldHolds`, `CallsBoundedHolds`, `RowIsTrueHolds`,
  `CarriedHolds`, `ImplementsProviderCallsHolds`, `EndsForGoodHolds`.
  `SenderInv`: one consumer is between its claim and the end of its send, and
  meanwhile the row can only become unknown. `LastInv`: what the row, or the
  consumer that settles, says of the latest call is true. `CountInv`: every call
  was counted when the row was claimed for it, so other counts only lower the
  limit. `HeldInv`: whoever is about to mark the row as queued has sent a
  message. `AuditorInv`: who audits does so after the provider accepted and
  while nobody sends, so that what it announces is true and its row no longer
  claimable for a call.
  `EndsForGood` is what the refinement leaves no doubt about: an ended row stays
  and the provider is not called for it again, except by a consumer that was
  about to when the delivery was given up.
- **`InvitationClaimProofs`** — `TypeCorrect`, `OneAcceptanceHolds`,
  `SessionIsNamedHolds`, `EndedIsClosedHolds`, `OneBrowserHolds` (a session is
  issued only to the browser that consumed the proof), `ImplementsFateHolds`,
  `EndsForGoodHolds`. `RequestInv`: who owns a session that is being issued, and
  that it is one request. `ClosedInv`: whoever replaces or clears a reservation
  has closed its session, and closed stays closed (`ClosedStays`) because ids are
  not used again. `IssuedInv`: a session that may still become active is named or
  was hit. `OpenInv`: a row is inserted once, and no request is under way after
  an account accepted. For the refinement, a usable session is the one the
  invitation names (`UsableIsNamed`), so inserting one finds none usable, and a
  seal is never broken since the requests that could insert have been hit or
  find the invitation ended. `EndsForGood` says it of each step: an end stays, a
  gone session stays gone, and none opens after the seal.

`LeftForGood`, `CallsBounded`, `EndedIsClosed`, `OneBrowser`, `HeadAdvances`,
`HeadAtEnd`, `OnePlace`, `NothingTakenBack`, `LostForGood` and the two
`EndsForGood` are proved without a run of their own. Where the first three bear
on what can be seen from outside, the refinements of `SessionRegister`,
`ProviderCalls` and `InvitationFate`, which runs do check, say the same.

*Only model-checked:* the liveness properties (`NeverBlockedForGood`,
`ReplayEnds`, `Settles`), since the prover does not handle ENABLED and fairness.
Induction over data and RECURSIVE operators are out of the installed
provers' reach; no module needs either.

## 6. Where code and documents disagree

Each of these is a run whose property states the sentence and that TLC violates;
the traces are a few steps of two or three actors.

- `DisownedIsDead` (`token_disowned`): `/revoke` of a refresh token revokes the
  rows its family has at that moment but does not set `family_revoked_at`, so a
  rotation under way writes a usable successor afterwards
  (`oauth/revoke.ts:149`; the comment at line 130 says the whole family dies).
- `DurableRowCloses` (`session_durable_row`): an MFA completion that read the
  session earlier writes its row back to active after a revocation marked it
  (`lib/mfa-session.ts:111`; comment at `lib/session.ts:799-800`).
- `OneSession` (`invitation_two_sessions`): an issuance that outlives the 30
  seconds of its reservation ends with a second usable session of the claim, as
  the session that was revoked did not exist yet
  (`me-auth/invitation-claim-session.ts:117`; the comment at line 2 says the
  lease keeps two from being issued).

The models also show these, without a run:

- the access token of a code's exchange is recorded under the code and not under
  the family, so revoking the family leaves it valid (`oidc/token-grants.ts:488`;
  `docs/design/03-oidc-oauth.md:794-795`);
- `POST /v1/sessions/:id/revoke` answers from an already revoked row without
  calling SessionDO, so with an earlier failed revocation and an MFA completion
  under way the session lives on (`v1/sessions.ts:137`;
  `docs/design/05-users-sessions.md:204`);
- a replay slow enough to outlive its lease sends after another one completed
  (`queues/dead-letter.ts:500`; `docs/design/07-platform-operations.md:520`);
- an event without a `sourceMessageId` is known by its message's id, which a
  replay changes, so it can be in the chain twice (`queues/audit.ts:115`;
  `docs/design/07-platform-operations.md:519`);
- no code keeps the answer of a rotation for 30 seconds, as
  `docs/design/05-users-sessions.md:450-453` says; a second request with the same
  refresh token revokes the family.

Nothing promises otherwise, but an operator should know: credentials revoked
while a code waits to be exchanged leave the code usable
(`oidc/token-issue.ts:410`); one hourly job that fails keeps the recoveries behind
it from running (`crons/hourly.ts:393`); a failed cleanup after an invitation's
revocation is never repeated (`v1/invitations.ts:428`).

## 7. Not modelled

The components listed as `not_modelled` in `PROJECT.json`, with the reason for
each. Most of the repository's lines are browser applications, client SDKs,
parsers, schemas, generated content and CRUD handlers of one statement each: the
models cover the small share of it in which the order of steps matters. Of the
Durable Objects left, DeviceFlowStore, ChallengeStore, ParStore, OAuthFlowDO,
SessionHandoffDO and RateLimitStore keep one value per key and change it within
one event, so that no interleaving of theirs can be seen from outside; what can
go wrong is a stop after a value was consumed, which loses the attempt. Inside
the modelled components the omissions are named in section 3. Formatting,
logging, HTTP parsing and cryptography are outside of every model: a digest is
an operator, a token an id.
