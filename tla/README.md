# idp-center in TLA+

A verification project for the identity provider idp-center: the server in `server/`
(Express, Drizzle on PostgreSQL, optional Redis), its React console in `src/` and the
Vue relying party in `example/`. Paths below are relative to the repository root.

The server is a set of identical replicas over one database. Almost every handler is a
straight line of awaited SQL statements *without a transaction*, so what makes the
system correct is which statements are conditional (`UPDATE ... WHERE used = false
RETURNING`), in what order the statements come, and the few advisory locks. The pages
have no transactions either: each keeps its own copy of what the server said and
handles answers in whatever order they arrive.

That is what the modules model: **one step is one SQL statement, one cache call, or one
answer handled by a page, together with the synchronous code up to the next `await`**.
Any two requests, jobs, replicas, tabs and pages interleave between steps, and a process
may die between any two of them where the code would leave something behind.

Conventions, in all modules:

- A row is named by the request that inserted it: the code draws a random UUID, so a
  request inserts at most one row per table, and "code k", "refresh token t" are
  requests. A credential can be presented once the response that carries it was sent:
  nobody guesses.
- What a check computes (a digest, a signature, a solved puzzle, a health probe) is a
  free choice of right or wrong; what the code does with the outcome is modelled.
- A throwing statement and a dying process are the same step (`Crash`, `Break`) where no
  handler undoes anything.
- History variables record what a property needs to know (`raced`, `straddled`,
  `overtaken`, `attempts`, ...). No guard of the code's actions reads them.
- A property that holds "unless two requests overlapped" says so in its formula. The
  exception is part of the finding: the code does not keep more, and the section "What
  reading the code showed" lists what goes wrong there.

## Inventory

| Part (code) | State | Operations | Talks to | Hard because |
|---|---|---|---|---|
| Token endpoint and grants (`server/oauth/grants/*`, `oauth/issue.ts`) | `auth_codes`, `access_tokens`, `refresh_tokens`, `device_codes` | authorize, redeem, refresh with rotation and reuse detection, device flow | OIDC sessions, signing keys, risk engine, audit | check-then-act across awaits, single use, replay, crash between claim and insert |
| OIDC sessions, logout, revocation (`oauth/sessions.ts`, `routes/oidc.ts`) | `oidc_sessions`, `sessions`, delivery queue | getOrCreateOidcSession, end_session/confirm, RFC 7009 revoke | tokens, back-channel delivery | several tables changed in turn; concurrent logouts; requests in flight |
| SPA login sessions (`routes/auth/session.ts`) | the same token tables | `/api/auth/refresh`, `/api/auth/logout` | tokens, users | a second rotation with other rules over the same rows |
| User administration (`routes/admin/users.ts`) | `users` | ban, unban, update, reset password | tokens, history | ban racing token issue |
| Signing keys, JWKS (`services/keys.service.ts`) | `signing_keys`, one cached signer per replica | boot, rotate, sign, purge, publish | cleanup job, every token | replicas, caches, overlapping rotations, crash in a rotation, grace arithmetic |
| Audit chain (`utils/audit.ts`, `routes/admin/audit.ts`) | `audit_logs`, its sequence | append, retention purge, verify | all handlers | total order under concurrency, sequence gaps |
| Back-channel logout delivery (`services/backchannel-logout.service.ts`) | `backchannel_logout_deliveries` | enqueue, drain, retry with backoff | logout, scheduler, relying parties | overlapping drainers, crash after POST, retries |
| Scheduler and leader election (`server/jobs/*`) | advisory locks, the connection pool | runIfLeader, cleanup, UEBA, health, auto-heal jobs | cleanup, keys, delivery | the lock's connection is not the one that works |
| Login and lockout (`routes/auth/login.ts`) | `users.failed_login_attempts`, `locked_until` | login, mfa/challenge, mfa/verify | cache, second factors, tokens | counter read before bcrypt and written after it |
| Passwords, e-mail, deletion (`routes/auth/*`, `routes/user.ts`) | `password_resets`, `password_history`, `email_verifications`, `account_deletion_requests` | forgot, reset, change, expired, forced, register, verify | tokens, sessions | one-time rows, several statements each |
| Second factors (`services/mfa.service.ts`, `routes/mfa.ts`) | `mfa_factors`, `mfa_challenges`, recovery codes | enrol, send, verify, disable, regenerate, backfill | login | read, judge, write back in turn |
| Captcha, cache, rate limits (`captcha.service.ts`, `cache.service.ts`) | counters, puzzles, passes with expiry | issue, verify, consume | login | non-atomic read and write |
| Federation (`routes/federation/*`, `routes/github.ts`, `services/identity-link.service.ts`) | `oauth_states`, `linked_accounts`, exchange codes | start, callback, link, unlink, exchange | users, tokens | concurrent first sign-ins |
| PAR, DPoP, client authentication (`oauth/par.ts`, `dpop.ts`, `client-auth.ts`) | request URIs, jti tables, client secrets | push, consume, check proof, rotate secret | token endpoint | single use, replay window, lazy hashing |
| RBAC, tenants, SCIM (`services/rbac.service.ts`, `routes/scim.ts`, `routes/admin/*`) | `roles`, `user_roles`, `tenants`, `user_groups` | backfill, grant, create, delete, replace members | login, guards | row after row without a transaction |
| Risk engine, UEBA (`services/risk.service.ts`, `jobs/ueba.job.ts`) | `user_behavior_baselines`, `login_events`, `risk_policies` | score, fold in, recompute | login, refresh | lost updates of the baseline |
| Feature flags, event bus (`services/feature.service.ts`, `event-bus.service.ts`) | flag rows, a snapshot per replica, a Redis stream | set, reset, load, resync, emit, consume | all guards | stale snapshots, one consumer group for all replicas |
| Alerts, health, auto-heal (`services/alert.service.ts`, `auto-heal.service.ts`) | `alerts`, `auto_heal_log`, cooldowns per replica | raise, acknowledge, tick | event bus, e-mail | memory looked at before an await and written after |
| Clients' token keeping (`src/utils/fetch.ts`, `example/src/utils/http.ts`, `stores/auth.ts`) | localStorage, a pending refresh per tab | call, refresh, sign in, sign out | server | several tabs over one storage |
| Sign-in pages (`src/pages/Login.tsx`, `components/*`, `example/src/views/Login.vue`) | a form, a puzzle, a second step | submit, solve, choose, verify | server | requests nobody cancels |
| Example relying party (`example/src/stores/auth.ts`, `views/*`) | tokens in storage and store | form, redirect and device sign-in, refresh, logout, iframe | server | a late answer of an older sign-in |
| Account pages (`src/pages/Profile.tsx`, `MfaFactorsManager.tsx`, `example/src/views/*`) | lists, profile, verdicts, codes | load, revoke, save, cancel | server | captured lists, unordered answers |
| Administrator's pages (`src/pages/admin/*`, `src/hooks/*`) | a list, a form, a query, live counts | load, search, edit, delete; alert stream | server | loads neither ordered nor cancelled |
| Decision pages and the start (`DeviceVerify.tsx`, `Authorize.tsx`, `Logout.tsx`, `App.tsx`) | what is being decided, and as whom | look up, approve, deny, sign out | server, other tabs | details of one request, decision on another |
| Static pages, AI, e-mail, SMS, GeoIP, images, validation, logging, metrics | none of interest | | | |

`PROJECT.json` lists every part with its status, and under `hazards` every place where
this code is hard to test, with the properties aimed at it.

## Modules

| Module | Models | Proofs |
|---|---|---|
| `OAuthTokens` | the token, session and ban handlers of one user with several browsers and clients | `OAuthTokensProofs` |
| `SingleUse` | the abstract contract of a credential that is worth one grant | (refined by the above) |
| `SigningKeys` | boot, rotation, cached signer, purge, publication, on any number of replicas | `SigningKeysProofs` |
| `AuditChain` | logAudit, purge and verify | `PlatformProofs` |
| `LogoutDelivery` | the back-channel queue, the job that drains it on every replica, the maintenance endpoint | `LogoutDeliveryProofs` |
| `SecondFactor` | enrolment, challenges, recovery codes, backfill of authenticators | `AccountProofs` |
| `AuthAccount` | one password account: login, lockout, tokens, four ways to change a password, verification, deletion | `AccountProofs` |
| `Captcha` | failure counter, puzzles, passes read and then deleted, the fixed-window limiter | `AccessProofs` |
| `Federation` | state rows, find-or-create, linking, minting, the one-time exchange, the account's tokens from elsewhere | `AccessProofs` |
| `Operations` | alerts, event rules, auto-heal ticks | `ServicesProofs` |
| `ClientAuth` | client secrets, assertions, DPoP, PAR, registration updates | `AccessProofs` |
| `Access` | roles at boot, administrators, users and their tenants, SCIM groups | `AccessProofs` |
| `Risk` | the baseline: merge and recomputation | `AccountProofs` |
| `FeatureFlags` | override rows, snapshots, edits, events, resyncs | `PlatformProofs` |
| `JobPool` | jobs that hold a connection for their lock and ask the pool for more | `PlatformProofs` |
| `Browser` | token renewal of console and example over one storage, several tabs, the check of the account | `AccessProofs` |
| `SignIn` | the console's and the example's sign-in forms | `ConsoleProofs` |
| `RelyingParty` | the example's sign-ins, refresh, logout and front-channel iframe | `ConsoleProofs` |
| `AccountPages` | the pages on which a user keeps the account | `ConsoleProofs` |
| `AdminPages` | the administrator's list and edit pages | `ConsoleProofs` |
| `LiveAlerts` | the alert page beside its event stream | `ConsoleProofs` |
| `Decisions` | device approval, consent, sign out everywhere, the console's start | `ConsoleProofs` |
| `MCOAuthTokens`, `MCSigningKeys`, `MCAuditChain`, `MCLogoutDelivery` | the modules TLC is started on, one component each | |
| `MCServices`, `MCPlatform`, `MCConsole` | components that share no state, one per behaviour (`part`) | `ServicesProofs` for `MCServices`, `PlatformProofs` for `MCPlatform`, `ConsoleProofs` for `MCConsole` |

Composition. Handlers that write the same rows are in one module, so that they interleave:
`OAuthTokens` holds every handler that writes the token, session and queue tables from the
OAuth side, `AuthAccount` every handler that writes a user's password, lockout and login
tokens. Between modules, what another part contributes is an action of the module that
keeps the table: `LogoutDelivery!Enqueue` is what `EnqueueLogout` of `OAuthTokens` does to
the queue; a federated sign-in is a choice in `AuthAccount` and worked out in `Federation`; a second factor's answer is a free choice in `AuthAccount` and computed in
`SecondFactor`; `RelyingParty` sees of the server the answers `OAuthTokens` may give. The
three `MC` modules that carry several components do not compose them: a behaviour is one
of one component while the variables of the others keep one value, which costs the sum of
the state spaces and not their product.

### OAuthTokens and SingleUse

The tables are functions from rows to records; a request has a program counter and the
values it read. Expiry is a flag set at any time by `Expire`; the cleanup job turns
expired rows into `"purged"` ones, which every SELECT misses. A decision about a device code
is two steps: `DecideDevice` is authentication, which looks at `is_active`, and `MarkDevice`
the UPDATE that comes later. `BanHolds` therefore starts from a banned account that no
request is past that look for, and with no device code approved. `Kinds` selects the
operations of an instance so that TLC's instances stay small; the theorems are about every
value of it.

Three promises are stated as refinements: `CodeIsSingleUse`, `RefreshIsSingleUse` and
`DeviceIsSingleUse` say that the handlers implement `SingleUse!Spec` for each code, each
refresh token in a family and each device code. The refinement mapping reads the owner off
the program counters and the rows: a request owns the credential from the moment its
conditional UPDATE has won.

### SigningKeys

The clock counts in arbitrary units; `Lag` bounds the time between the statements of one
operation. `turn`, `turns`, `disturbed` and `crashes` are history. `KidNeverMissed` is what
the implementation plan promises; `KidKnownUndisturbed` is what the code keeps, as long as
no two rotations overlap and none dies halfway. `Fail` is a statement of `rotateKeys` that
throws while the replica stays up (the cleanup job ends, the rotation stays halfway);
`Crash` is a dead process, which boots again.

### AuditChain

The hash is abstracted to what it was computed from: the `seq` the writer predicted
(`said`), the predecessor's hash (`prev`, `link`) and the version of the columns it covers
(`text` as the row has them, `hash` as they were hashed). `computeAuditHash`
(utils/audit.ts:33-41) covers seq, tenant, action, user, details, time and predecessor; an
edit of `target_id`, `ip_address` or `user_agent` changes nothing it covers and is no step
here, and no verification can see it. The hash has no key, so `Tamper` may also recompute
it. Verification is the operator `Issues`. `TamperingShows` says what it can show: an edit
that leaves the hash; and, while a newer row stands with the hash it was written with, a
deletion and an edit with its hash recomputed. `faults` and `late` are history.

### LogoutDelivery and JobPool

A `Drainer` is a run of `cleanupExpiredTokens`: a replica's timer (`Tick`, under the
advisory lock of `runIfLeader`) or an administrator's maintenance call (`Maintain`, under
none). `Rotate` stands for `rotateSigningKeyIfDue`, of which only "it may throw" matters
here; `Select`, `Post`, `MarkDelivered`, `Retry` and `Finish` are the statements of
`drainBackchannelQueue`. What a drainer writes comes from the attempts it read (`seen`).
A relying party's answer that comes after the timeout is the third disjunct of `Post`.
`LoseLock` is the loss of the connection that holds the lock while the job goes on with
others of the pool. The branch "session no longer exists" is left out: no code deletes rows
of `oidc_sessions`. `tries`, `accepted` and `events` are history.

`JobPool` looks at the same `runIfLeader` from below: it keeps one connection of the pool
for the lock while the job's body asks the same pool for others. Its assumption
`PoolMax > Cardinality(Job)` is a deployment condition: config.ts:104 admits smaller pools,
with which every job may wait for every other.

### AuthAccount, SecondFactor and Captcha

`AuthAccount`: a `Call` is one HTTP request; `accountCase` chooses the operations that meet
in a behaviour. `user` is the row, `history` the password history, `ins` the rows a call
inserted, `my` what a call has read and where it is. `AccountHolds` has three parts: no
credential of a password that was changed is left live by a change that no login straddled,
the lockout counts wrong passwords, a refresh token is exchanged for two only by renewals
under way together.

`SecondFactor`: a `Job` is a request or the start of a replica (the backfill of
authenticator secrets). The factor's status and the challenge are read, judged and written
back in separate statements. `FactorHolds` bounds what a challenge and a recovery code can
yield, `DisabledStaysDisabled` says by which writes a disabled factor can come back.

`Captcha`: a step is one cache call, and `getdel` is two (`ReadPass`, `DropPass`): the memory
cache, which is in use whenever REDIS_URL is not set, awaits its own `get` before it deletes
(cache.service.ts:53-59). With Redis the second follows the first at once. A pass that two
logins read before either deleted it is in `shared`, and `CaptchaHolds` claims single use of
the others. Counting wrong passwords is fired and not awaited. A
cache that does not answer, and a mode other than enforce, lets callers through
(`FailOpen`), as the code does.

### Federation, ClientAuth, Access

`Federation`: a `Visit` is one HTTP request. Find-or-create goes statement by statement, so
two first sign-ins of one identity may both insert an account; the unique link decides. The
GitHub callback looks neither at `jitProvisioning` nor at `is_active` (`GitHub`, `Welcome`).
The account lives on meanwhile: `/auth/refresh`, password sign-ins and grants insert tokens
(`MintElsewhere`), and each statement that revokes some is a step of its own, with the rows
it picks: `SpendRefresh`, `EndRefresh` and then `RevokeOwn` of a sign-out (session.ts:49-77),
`RevokeOthers` of a password change, which spares the token it came with, `EndAccess` of a
ban. `FederationHolds`: tokens minted for an identity are of the account it is linked to, and
the one-time code yields its own pair unless something else minted for the account after the
pair's first token (`crowded`), or the pair's access token was revoked before (`Struck`).

`ClientAuth`: secrets are numbered by rotation; the stored hash may be missing and is
written lazily by the login that finds it missing (`Upgrade`). Time is counted in units of
which a `Second` has several, against one `Life` of proofs. An assertion's age is judged in
whole seconds rounded down, as jose does (client-auth.ts:169-173, DPoP proofs are compared in
milliseconds, dpop.ts:62-65), while its jti row expires at the unit: within the last second
the row may be gone and the assertion is accepted again (`late`), which `ClientAuthHolds`
counts.

`Access`: an `Op` is a boot or an administrator's or SCIM request. `UpdateUser` sets the flag
and, from a platform administrator, a tenant that nobody looks for (users.ts:125);
`BeginCreate` and `InsertUser` carry both as well (users.ts:70, 83); an assignment of a role
may fail and be passed over (rbac.service.ts:109-113). `AccessHolds`: nobody is left in a
deleted tenant but who was written into it while or after it was deleted (`astray`), a start
whose inserts succeeded grants every flagged administrator it saw the role, a group has the
members of the last request that ran alone.

### Risk, Operations, FeatureFlags

`Risk`: devices, networks, countries and hours are one list, as the code treats them alike.
The baseline is read, folded into and written back; the nightly job recomputes it likewise.
The score and its bands are not modelled: which sign-ins succeed is a free choice, here and
in `AuthAccount`.

`Operations`: alerts are appended with their cause, node and time. Rules for events run on
the replica that emits and on the one that consumes. A heal tick looks at its cooldown
before the alert is stored and writes it after.

`FeatureFlags`: three ways a change reaches a snapshot: the request itself (`ApplyOwn`,
`Refresh`), the event (`Consume`, which hands it to one replica of the shared group,
`ReadEvent`, `ApplyEvent`) and the resync (`BeginLoad`, `EndLoad`). Each reads
rows and writes the snapshot in a later step. `DependsOn` is checked only when an edit
turns a flag on, in the snapshot of its replica; a hard requirement that is unmet (`Unmet`)
beats every row (`Clamp`).

### Browser, SignIn, RelyingParty

`Browser` models both clients' refresh-and-retry over one localStorage, and the check of the
account (GET /auth/me): when it fails, for any reason, the example's store logs out
(stores/auth.ts:230-239), and on 401 or 403 the console forgets its tokens
(App.tsx:137-142). `BrowserKeepsTokens` is about a user who did not sign out and whose checks
all succeeded. `RelyingParty`
models one tab of the example with its store, and the iframe that shares its storage.
`SignIn` models the forms: which request is under way, which form the answer meets; an LDAP
sign-in ends with a request of its own (Login.tsx:364-367, `SubmitLdap`). `signed`,
`requested`, `entangled`, `leftover`, `orphaned` are history.

### AccountPages, AdminPages, LiveAlerts, Decisions

Each is a page (or a kind of page) beside the rows it shows. A behaviour is about one page
(`topic`, `place`, `alertCase`, `subject`); other browsers and administrators change the rows
at any time. The properties say that a page *at rest* (nothing under way) shows what the
tables hold and that a user decides about what the page shows, and name the overlaps
after which this is no longer so.

`LiveAlerts`: one behaviour combines some of the cases `alertCase` names: who presses buttons,
twice and with lost answers, other administrators, alerts of other tenants (`abroad`), which
the stream of a platform administrator carries and the counts leave out
(alert.service.ts:103-107, events.ts:106-116), pushes of other processes, whose subscribers
are others (`away`), a list that the filter and the limit of 50 cut (`filter`), and a stream
that breaks. Whatever a page cannot count sets `drift` until a load that nothing disturbed.

`AdminPages`: of a form the field that is guarded (a secret, a flag, a permission) and one
plain field that is sent back as it was filled; one change is under way at a time, a bound of
the model where the lists' buttons stay enabled. `Decisions`: a sign-out everywhere ends the
OIDC sessions of the browser (`sso`), not the console's own tokens (`alive`).

## Runs

Every passing run is of safety only but `logout_delivery` and `platform`, which assume
fairness. `CHECK_DEADLOCK FALSE` is set in all of them because the instances do stop: a
request is served once and there are finitely many, and clocks, sequences and counts are
bounded.

| Run | Instance | Shows |
|---|---|---|
| `oauth_rotation` | 6 requests, 1 client; authorize, redeem, refresh, api | codes mint once, rotation is linear, dead families stay dead; code and refresh token are single-use |
| `oauth_revocation` | 4 requests, 2 clients in one browser; every kind of operation, among them device, ban, risk, crash, expiry (770 563 states) | tokens stay in their session, every logout is announced, closed sessions stay closed, device codes are single-use, a ban holds |
| `signing_keys` | 2 replicas of which 1 signs, 4 keys, 6 instants, 1 crash | an active key always exists, tokens verify until they expire, kids are known |
| `audit_chain` | 2 writers, 4 rows, 1 edit of each, every fault (826 974 states) | the chain neither forks nor raises false alarms undisturbed, and shows what tampering its hashes can show |
| `logout_delivery` | 2 replicas, 1 administrator, 2 rows, 2 attempts, batches of 1, 1 fault, fairness | nothing is given up early, the lock alone makes deliveries unique, settled rows stay settled, every logout is settled |
| `services` | nine components, one per behaviour (1 092 489 states) | `AccountHolds`, `FactorHolds`, `DisabledStaysDisabled`, `CaptchaHolds`, `FederationHolds`, `AlertsBounded`, `ClientAuthHolds`, `AccessHolds`, `BrowserKeepsTokens`, `BaselineHolds` |
| `platform` | flags: 2 replicas, 2 flags, 2 edits, 1 crash; pool: 4 calls of 2 jobs, 3 connections, 1 restart; fairness | snapshots settle on the table (`FlagsConverge`) ; `PlatformHolds`: unmet flags stay off (`UnmetStaysOff`), a pool with somebody in its queue has a connection or gets one back (`PoolNeverStuck`); every call of a job ends (`JobsFinish`) |
| `console` | six kinds of pages, one per behaviour (1 374 315 states) | `ConsoleHolds`: a page at rest shows what the tables hold; `BrowserHolds`: a sign-in leaves one account in the browser |
| `oauth_logout_leak` | violation | a code issued before a logout and redeemed after it yields live tokens |
| `oauth_link_lost` | violation | `/api/auth/refresh` drops the session link that the other rotation keeps on purpose |
| `signing_jwks_miss` | violation | two overlapping rotations sign with a key nobody could have fetched |
| `audit_false_alarm` | violation | a rollback makes an untouched row "content_tampered" |

### Why the bounds are enough

Six requests let one code be issued, redeemed by two racing requests, and its token be
rotated by three more, so a chain of two rotations, a race on each link and a reuse after
both occur. The revocation instance has two clients in one browser, so a logout works
through a list of two sessions while a grant of each is in flight. Four keys are two whole
rotations after boot, or three overlapping promotions; six instants exceed
`Period + Grace + CacheTTL + TokenLife`, so a key is created, activated, retired and deleted
while a token of its may still be alive. In TLC `Lag` is 0 (statements interleave freely
within an instant, none waits for the clock); the theorems hold for every `Lag` that
`GraceAssumption` admits. Four audit rows allow a hole in the middle with rows on both
sides; `Purge` deletes any of a tenant's rows, so that one tenant already makes every hole.
One edit of each row makes "as written" and "recomputed" differ. Two attempts are a first failure that is retried and a last one; batches of
one row make the second row wait for another run of the job; three drainers are two
replicas that compete for the lock and one caller that ignores it.

In `services` three requests are two that race and one that comes before or after them,
which is what read-judge-write hazards need; factors get four so that a code is sent,
answered twice at once and sent again. Limits are the smallest with a "below", an "at" and a
"beyond" (`MaxFailed` 2, `MaxAttempts` 2, `ListCap` 2), or 1 where one more is beyond.
`AccountCases` and the other sets of cases choose which operations meet: those that write
the same rows. Two nodes are one that emits and one that consumes. In `platform` f2 depends
on f1, so that a guard is judged in a stale snapshot; four calls of two jobs over three
connections have two winners and two that wait. In `console` two requests overlap in every
way; the third of three is judged as the second is. Two accounts, rows or entries are the
one meant and the other one. `MaxForeign`, `MaxElsewhere` let another person act before and
after one answer. The alert page is checked with one load at a time (`Load` = {l1}): a second
load multiplies the states beyond what a run can hold. A button may be pressed twice (`Try` =
{1, 2}), and `AlertCases` mixes what can meet: a partial list with presses, everything that
happens outside the page with presses, the stream with its breaks. A federated sign-in has two
visits, one of which exchanges what the other left while one token is minted elsewhere; tabs
have two calls under way at once (`Crowd`), which is a refresh and a waiter. `Life` is one
`Second` of two units and three units pass, so that an assertion can be shown within its age,
in the second that follows, and never again. Symmetry is over requests and over names
(`n1`, `n2`) that no constant tells apart; no run with symmetry checks liveness.

### Fairness

`logout_delivery`: some replica's `Tick` (setInterval keeps firing, and a free lock is taken
by whoever fires next), each begun job's `Step` (fetch is aborted after 5 s, so no await
lasts for ever) and `Elapse` (time passes). Nothing is assumed of crashes, faults,
maintenance calls, enqueueing or reboots. `LogoutsAreSettled` has the hypothesis
`<>[](rotation = "fine")` because the code needs it: see below.

`platform`: weak fairness of a begun edit's next statement, of the dispatch of an emitted
event, of the timer's resync and the end of a load, and, for the pool, of a lock attempt, a
query and the pool's service of its queue. None of `Consume`: without Redis there is no
consumer, and with it the message may go to another replica. Convergence therefore rests on
the resync alone, as it does in the code.

## Proofs

All proved with tlapm for every value of the constants; the list with one sentence each is
`theorems` in `PROJECT.json`. Components whose variables are disjoint share a proof module:
`OAuthTokensProofs`, `SigningKeysProofs`, `LogoutDeliveryProofs`, `PlatformProofs` (the audit
log, flags, the jobs' pool),
`AccountProofs` (second factors, the account, the baseline), `AccessProofs` (captcha,
federation, client authentication, roles and groups, browser tokens), `ServicesProofs`,
which extends these two with the alerts and proves the composition that the run `services`
checks, and `ConsoleProofs` (the pages, and their composition in the run `console`). In each the argument is the same: an inductive invariant, one lemma for the initial
state, one per conjunct (or per part of one) for every action that can disturb it, and
theorems that read the property off the invariant.

Assumptions, each named where the constant is declared and evaluated by TLC on the runs:

- Names are distinct: None is no row, browser or client (`NoneAssumption`), replicas are not
  administrators (`CallerAssumption`), the local account is no visit (`LocalAssumption`),
  `NoTenant` is no tenant (`TenantAssumption`), events are not rules (`RulesAssumption`),
  `NoTab` is no tab (`BrowserAssumption`). Back-channel clients are clients (`BcAssumption`),
  signing replicas are replicas (`SigningAssumption`).
- Limits are numbers, positive where the code divides or counts down by them
  (`TimeAssumption`, `MaxAssumption`, `BoundAssumption`, `FactorAssumption`,
  `ProofAssumption`, `CapAssumption`, `BrowserAssumption`).
- There is a factor, a recovery code, a puzzle, an identity, an attempt to speak of
  (`SomeFactorAssumption`, `SomePuzzleAssumption`, `SomeAssumption`, `ProofAssumption`).
- `GraceAssumption`: `Grace >= 2 * Lag + CacheTTL + TokenLife`, which the code meets with 24 h
  against 60 s of cache and 15 min of token; `PeriodAssumption` likewise for 90 days against
  5 min of max-age.
- Of the pages, `AlertAssumption` (finitely many alerts, a connection to open, no connection
  called "none", the stream's list keeps at least one alert), `PagesAssumption`,
  `AccountPagesAssumption`, `SignInAssumption` and `DecisionAssumption` (the cases are pages and
  clients that exist; `NoThing` is no thing; bounds are numbers).
- `PoolAssumption`: more connections than jobs, finitely many jobs (see JobPool above);
  `CallAssumption`, `ReplicaAssumption`: there are jobs, replicas and flags, bounds are
  numbers, and the mark of a free lock is no call. `FlagAssumption`: the default of a flag
  whose requirement is unmet is off, as in features/registry.ts:105 and :158.

- `OAuthTokens`, grants (`OAuthTokensProofs`). `TypeOK` is not
  inductive: an insert that uses a request's local needs to know that the local is a row
  and not None at that program counter. `TypeInv` adds those facts, one conjunct per local.
  `CodeInv` then says what a request at each control point of the code grant owns, and
  `FamilyInv` what a rotation in progress owns and that a family is named by a token that
  exists; both are needed because the properties speak of rows while the danger is in
  requests between two statements. From them: `CodeMintsOnce`, `RotationIsLinear`, and the
  action properties `DeadFamilyStaysDead` and `BanHolds`.
- `OAuthTokens`, sessions. `SessionInv` is the inductive
  strengthening of `TokensStayInSession`: `SessionsInv` (a session exists before whatever
  refers to it), `LinksInv` (codes, tokens and requests in hand name sessions of their own
  client) and `RootsInv` (a family and the request that rotates it share the session and the
  client of its first token). `AnnounceInv` says who will still announce a terminated
  session, and gives `LogoutIsAnnounced`; `ClosedSessionStaysClosed` follows because a
  request that may feed a session must have read it from a row, and no row of it is left.
- `OAuthTokens` implements `SingleUse`, for every code, refresh token in
  a family and device code. `RowsInv` says that a code or device code is the last and only
  row of its request and that a request serves a credential some answered request inserted;
  `DeviceHolders` and `RefreshHolders` that whoever redeemed holds alone and what was
  redeemed is spent. A claim maps to a redemption; every other step maps to a `Spend` of the
  credentials that ceased to be fresh, or to a stutter.
- `SigningKeys`. `SomeKeyActive` is not inductive: retiring the row read long ago may hit
  the last active key. `OrderInv` orders keys by the turn in which they became active;
  `RotatorInv` says that between promotion and retirement the promoted key has a later turn
  than the retired one, so the last key in the order is never retired. `ClockInv`,
  `RetiredInv` and `PurgedInv` bound the time a retired key can still be read, cached and
  signed with, and give `SignedTokensVerify` from `GraceAssumption`. For
  `KidKnownUndisturbed`, `BootInv` says that a boot is alone and short; `AloneInv` that, as
  long as nothing was disturbed, one rotation runs at a time, promotes a row that is still
  "next" and leaves one active key; `EarlyInv` that the "next" row was made within `2 * Lag` of
  the activation of that key, by the rotation or by a boot that found none. By
  `PeriodAssumption` it is then older than max-age when the active key is due.
- `AuditChain`. `LockInv` (one writer at a time), `RowInv` (a writer's `last` is the newest
  row it will link to, links go back, a link is to no later version of a hash than there is),
  `LateInv` (of a hash recomputed after a newer row came, the row after names an older version
  unless its own hash was recomputed too) and `CleanInv` (with no fault, the sequence, the newest row and the prediction agree)
  give the three properties.
- `LogoutDelivery`. `NotGivenUpEarly` speaks of rows, but the count that is written was read
  by a drainer earlier. `LocalInv` ties a drainer's list, row in hand and counts together,
  `CountInv` says that no count anywhere, in a row or in a drainer, exceeds the tries made;
  that survives every overlap and lost update. `AloneInv` (without an overlap only one run
  is busy, and what it read is still so) and `AcceptInv` (without events a row was accepted
  only when it is delivered or about to be) give `AcceptedOnce` and `SettledIsFinal`.
- `SecondFactor`. `FactorInv` is `FactorTypeOK`, `ReadInv` (a job's reading names a
  challenge that was sent), `ChallengeInv` (the row's attempts and status against the tallies
  of right and wrong answers, and against every job that read them and has not written yet),
  `CodeInv` (the same for recovery codes) and `BatchInv` (which generation the live codes are
  of while one is being replaced). It gives `FactorHolds` and `DisabledStaysDisabled`.

- `AuthAccount`. `AccountHolds` speaks of rows; what endangers it is in calls that have read
  a row and not written yet. `AccountBase` ties a call's program counter to what it holds
  (`Shape`) and says that nothing exists before registration. `CleanInv` says of whoever may
  still come by a token (a login past its password, the holder of an `mfa_token`, a live
  refresh token and its renewal) that it proved the current password, or a revocation
  straddled it, or a change has still to revoke. `LockInv`: without overlap at most one login
  holds a reading, and the reading is the tally. `RenewInv`: without overlap at most one
  renewal of a token is between its check and its UPDATE, and a token exchanged is revoked.
- `Captcha`. `JudgeInv` (only what was read as unsolved is judged), `PassInv` (a pass no two
  logins shared is live and granted once more than used, or in one login's hands, or spent),
  `PuzzleInv`: a puzzle whose answers never overlapped has
  one judge, one request about to grant, or one pass, and the attempts left, in the cache or
  in the judge's hands, and the answers so far make `MaxSolves` together.
- `Federation`. `TokenInv`: every token of a visit was minted for the account its identity is
  linked to; after the first token of a visit nobody crowded all tokens of its account are its
  own, and its refresh token is dead only if all those before it are, because one that ends
  alone was spent by somebody who minted first and so crowded it.
  `VisitInv`: what a visit found, inserted or took from the exchange, by its step.
- `ClientAuth`. `SecretInv`: without an undone rotation the stored hash is of the stored secret,
  as is the one a call has read; a call that is past the comparison, with the hash or a jti
  still to write, did not present a secret rotated away before it began. `ProofInv`: the entry
  of an accepted proof is there until the proof is past its age, that of one accepted a second
  time (`late`) until nothing accepts it any more, and a call about to enter one found it in
  time. `ParInv`: a live request is unredeemed.
- `Access`. `PersonInv`: nobody who is not astray is in a tenant that is gone or that a deletion
  has emptied already. `BootInv`: of the administrators a lone start saw, each has the role or
  is in its queue. `GroupInv` (`Halfway`): how far the one request that changes a group has got
  from what was settled before it.
- `Risk`. `KnownInv`: everything a task holds or the baseline lists was recorded. `FreshInv`:
  what a task read is still so unless it was overtaken. `CoveredInv`: unless something was lost,
  what the look-back sees is usual or about to be folded in. The look-back is a suffix of the
  events and a merge drops the oldest, so these need lemmas on `SubSeq`, `ToSet` and sequences
  without duplicates.
- `Operations`. `EventInv`: an event that went to the stream raised alerts only where it was
  emitted. `MemoryInv`: every alert of a rule but the one whose row is being logged is in the
  memory of the rule on that replica, and what is being executed was allowed by it.
- `Browser`. `OneRefresh` (a tab has one refresh under way), `LoginInv`, `RefreshInv` (what each
  carries, against the storage and the server's grant), `KeptInv` (who still carries the token
  when the storage has not got it, and that a user who is signed out with tokens stored has a
  logout under way, the one a failing check began included).
- `JobPool`. `PoolInv`: `CountInv` (the connections in use are those of the calls that began
  and of those of them that run a query), `QueueInv` (who waits has not got what it waits for,
  and waits once), `OwnInv` (a body runs under its job's lock). `PoolNeverStuck` follows by
  counting: if the pool is empty and nobody is about to return a connection, every connection
  in use belongs to a body, bodies have different locks, and there are fewer locks than
  connections.
- `FeatureFlags`. `FlagInv`: `FitsInv` (a request writes a value the flag has) and `CarriedOff`
  (what a resync, a request or an event has read and will write is off for an unmet flag),
  without which `UnmetStaysOff` is not inductive. `PlatformInvHolds` carries both through the
  composition.
- Composition (`ServicesProofs`). `EachStep`: a step of `ServicesNext` is a step or a stutter
  of each component. `EachComponentRuns`: `ServicesSpec` implies each component's
  specification; this is the refinement that lets `ServicesTypesCorrect` and `ServicesHold`
  cite the components' theorems, and it shows that the run's composition adds no behaviour to
  any of them.

The pages (`ConsoleProofs`). What a page shows is a copy; what endangers it is an answer that is
still under way when what it answers has changed. So each invariant speaks of everything under way,
and TLC's one or two loads become any number of them:

- `LiveAlerts`. `WireInv` (an alert is written to the stream once and counted once), `StreamInv`
  (one connection at a time, but for those whose client left while they were asked for),
  `AlertLoadInv` (a load that nothing disturbed read the rows as they are, in the list as far
  as the filter goes, in the counts all of them), `AlertListInv`
  (without drift each count is the number of the tenant's alerts that have arrived, by the
  status the page has answers for; one press of an alert commits at a time; and a list that had
  every row shows each so).
- `AdminPages`. `OrderInv` (which loads were asked for before which), `FetchInv` (the newest
  load answers the last query with the row as it is, or is known to have missed a change),
  `FormInv` (the open form is the one whose change is under way, and starts from the row),
  `PageListInv` (the list as the answer under way will leave it).
- `AccountPages`. One invariant per topic: `ItemsInv` (a read that missed nothing holds the
  items), `ProfileInv`, `DeletionInv` (each screen is behind or shows the request),
  `PasswordInv` (the newest verdict under way is about the text typed), `CodesInv`.
- `SignIn`. `SignInFormInv` (what is under way, and what a document has parked, is of the account asked for
  last), `SecondStepInv` (the code under way is for the factor chosen), `PuzzleInv`.
- `RelyingParty`. `RpStoreInv` (an answer is stored whole; a refresh under way sends the token
  that is stored), `RpOwedInv` (a logout ends what its user had completed), `RpDeviceInv` (what
  the device page started belongs to it), and the property itself.
- `Decisions`. `DeviceInv` and `ConsentInv` (what is looked up is what the field or the address
  holds, and then what is decided), `AccountInv` (the account of page, decision and storage),
  `LogoutInv`, `StartInv`.
- Composition. `ConsoleSteps`: a step of `ConsoleNext` is a step or a stutter of each component;
  `ConsoleInvariant` follows, and from it `ConsoleTypesCorrect`, `ConsoleHoldsTheorem` and
  `BrowserHoldsTheorem`.

Every safety invariant a run checks is a theorem, and so is every action property. Only
model-checked, and out of the prover's reach: liveness under fairness (`LogoutsAreSettled`, `FlagsConverge`, `JobsFinish`), ENABLED, and
what a recursive definition computes for every input.

## What reading the code showed

Four disagreements between the code and what its comments or plans say are the violation
runs above. Further observations. Those about overlaps are the exceptions named in the
properties; the others were met while reading.

Tokens, sessions, keys, delivery:

- The device grant never looks at `is_active`: an approved device code outlives a ban, and an
  approval that was authenticated before the ban may be written after it (`BanHolds` is stated
  for what the code keeps).
- The audit hash covers neither `target_id`, `ip_address` nor `user_agent`, and has no key
  (utils/audit.ts:33-41): an edit of these columns, and one of the newest row with its hash
  recomputed, is not reported.
- A crash between the `terminatedAt` UPDATE and the revocation leaves a terminated
  session's tokens live, and a repeated logout does not find the session again.
- A crash between claiming a refresh token and inserting its successor loses the session;
  the client's retry looks like reuse.
- Replay of a code and reuse of a refresh token revoke the rows they find; rows a racing
  winner has not inserted yet survive.
- `/api/auth/refresh` compares no expiry, and its revocation of the old token is not
  conditional, so two racing calls both get tokens (`RenewedOnce`).
- `DELETE /sessions/:id` leaves the refresh token live; `/auth/logout` with `X-Session-Id`
  revokes only trusted-device tokens, and without it all of the user's.
- A crash, or a statement that throws, in a rotation leaves no "next" row; every later
  rotation throws until a replica restarts, and with two active keys `LIMIT 1` without
  ORDER BY may retire either. `rotateSigningKeyIfDue` is not in a try block, so such a
  rotation also keeps the rest of the cleanup job from running, although
  jobs/scheduler.ts:24-25 says the scheduler must never stop.
- The advisory lock is held for one run. Replicas whose timers are staggered each win
  theirs, so a job runs once per replica and period, not once per period.
- A logout that was accepted but whose UPDATE failed, or whose answer came late, is posted
  again; the relying party must tolerate it.

Accounts:

- Two wrong passwords at once count as one; the end of a lock does not reset the counter.
- A reset revokes only refresh tokens; an `mfa_token` survives a change of password; accounts
  made by an administrator or SCIM get no password history; `force-change-password` is
  reached only after a federated sign-in; registration is not in a transaction.
- `PUT /users/:id` can change an e-mail address without clearing its verification.
- A cancelled deletion request keeps its unique row, so a later request fails with a server
  error. `executeAccountDeletion` and `upsertTenantMfaPolicy` have no callers.
- `migrateLegacyTotpFactors` creates an active authenticator again at each start after it was
  disabled; the end of a WebAuthn registration checks no status; two overlapping
  regenerations of recovery codes leave two batches.
- The unique index on (email, tenant) counts '' as a value, so a second federated account
  without e-mail is never created; an account whose link could not be inserted stays behind;
  the GitHub callback does not check `is_active`.
- The exchange of the one-time code hands out the newest live tokens of the account, whoever
  they were minted for; a password change spares its caller's access token, which the exchange
  may then pair with another visit's refresh token.
- `MemoryCache.getdel` awaits its `get` before it deletes (cache.service.ts:53-59), although
  the interface says of `getdel` that it reads and deletes atomically (lines 10-14): two
  logins at once may both be let in by one captcha pass.

Clients, tenants, flags, operations:

- The lazy hash upgrade (client-auth.ts:61) can overwrite the hash of a secret rotated since,
  which admits the old one again and refuses the new one.
- A DPoP jti is kept 60 s from its use, while a proof dated ahead stays valid up to 120 s. The
  age of a client assertion is judged in whole seconds and its jti row expires at the
  millisecond: in the second after its age an assertion may be accepted once more.
- A platform administrator may create a user in, or move one to, a tenant that does not exist
  (users.ts:70, 125). An assignment of the tenant-admin role that fails at a start is logged as
  a warning, and the start goes on (rbac.service.ts:109-113).
- Deleting a tenant moves its users first and then may fail on foreign keys; users.tenant_id
  has none. Updating a tenant without `settings` stores `{}`; updating a deleted one succeeds.
- A crash between the insertion of the role and of its permissions leaves a tenant-admin role
  without `admin:*` for good. `PUT is_admin = false` leaves the `user_roles` row and
  `removeRoleFromUser` has no callers, although middleware/auth.ts:94-95 says a demoted
  administrator loses access at once. No code writes `group_roles`.
- SCIM's PUT of a group deletes and inserts without a transaction.
- The baseline is read and written in turn; the recomputation counts an event that is also
  folded in twice; a gap between two policy bands means allow (risk.service.ts:212).
- All replicas share one consumer group, so another replica gets a flag's event only by
  chance; own events are acknowledged and dropped. With two replicas one event may raise two
  alerts, although event-bus.service.ts:118-119 says "cross-instance dedup is preserved". The
  dead-letter rule "after 3 retries" never retries.
- A flag's dependencies are checked when it is turned on, in the local snapshot, and not when
  the other is turned off.
- Auto-heal: a failing log row aborts the tick (auto-heal.service.ts:157); an alert refused
  by the limit is logged as success and starts the cooldown; cooldowns, limits and the
  enabling of rules are per process.
- An SSE client that leaves while it is being authenticated leaves its subscriber and
  heartbeat behind (events.ts:95); a subscription keeps the tenant and the status of
  administrator it had at the start (events.ts:85).

Pages:

- Two tabs that refresh at once: the second's failure clears the tokens the first has just
  stored. A network failure in a refresh signs the user out; a refresh answered after a
  logout stores tokens again, and one of the previous account overwrites a newer sign-in.
- http.ts's give-up path leaves `id_token`, so a later logout sends an older hint; its path
  without a refresh token leaves `isRefreshing` set until a reload; the example's store does
  not learn of the tokens http.ts renewed.
- A front-channel iframe with a revoked token never reaches LogoutFrontchannel.vue, and the
  open tab's store keeps its token. A failing check at start clears the sign-in that follows
  it. Leaving DeviceLogin.vue does not stop a poll that is under way, and two overlapping
  starts leave two pollers.
- Login.tsx's buttons are not disabled while a request runs; a parked redirect survives
  sign-out and is resumed by the next account that enrols; "code sent" is shown for another
  factor after a change of choice; the 500 ms reset of the puzzle can cut a running drag.
- Admin pages show whichever load answers last; edit forms send back `is_admin` and
  `is_active` as they were filled; overlapping PUTs of a provider restore an old secret;
  OperationsCenter toggles locally even when refused. The alert page counts one open alert
  less for an alert somebody else had acknowledged, twice for one read between insert and push;
  it keeps counting an alert whose acknowledgement was done and not answered, and a platform
  administrator's page counts other tenants' alerts that come over the stream
  (alert.service.ts:103-107) until it loads the counts of its own.
- GET /auth/me that fails for any reason, also a timeout or a 500, signs the relying party out
  (stores/auth.ts:230-239).
- Profile.tsx filters a captured list and spreads a captured user, so overlapping actions
  restore what was removed; verdicts on a new password land in any order.
- Authorize.tsx may show an older request's details, and its approval carries the token of
  the moment; the console's DeviceVerify says "denied" although the denial failed; Logout.tsx
  says "Signed Out" when the request failed; a failed exchange starts the console as the
  account stored before.

## Not modelled

- Pages without state of their own: Home, About, Dashboard, Register, ForgotPassword,
  VerifyEmail, SetupOTP's drawing. Static text, or one form that sends one request.
- AI assistance, e-mail, SMS, GeoIP, cryptography, image drawing: external services and
  computations without state a step could disturb; where their answer matters, it is a choice.
- The risk engine's score, its signals and the policies' bands: a pure computation over what
  was read, whose verdict is a choice where it matters.
- The columns of `audit_logs` that the hash leaves out: nothing in the code detects their edit.
- Validation, wording, logging, metrics, configuration: a model starts from requests that
  passed validation; limits and life times are constants.
- Rows that only run out (`oauth_states`, `password_resets`, `trusted_devices`) are not purged
  in the models.
- The expiry of the refresh token in `/api/auth/refresh` (session.ts:83) is modelled (it is
  ignored) but no property is about it.

## Plan

Done: the modules above and their theorems. Left, in this order: SCIM's settings and the cleanup of short-lived rows; an absolute expiry
for `/api/auth/refresh`; the alert page with two loads.
