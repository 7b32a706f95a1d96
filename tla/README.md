# A formal model of api-watcher

api-watcher is a NestJS monorepo: a user application and an admin application over one PostgreSQL
database (Prisma) and one Redis. Users register HTTP endpoints; a scheduler checks them every 30
seconds, keeps a status per endpoint, stores a notification when the status changes and sends it to
the user's webhook channels. Around that stand accounts, sessions, posts and notifications.

This directory holds TLA+ specifications of that program, TLC configurations that check them on small
instances, and TLAPS proofs that hold for every value of the constants. `PROJECT.json` lists runs,
mutants, the source lines behind every definition, findings, hazards and theorems.

## 1. Inventory

| Component | State | Operations | Interacts with |
|---|---|---|---|
| Health-check scheduler (`libs/common/src/monitoring`) | rows of `api_endpoint`, `monitoring_log` | `handleCron`, `processResult`, `HealthCheckerService.check` | endpoint services (same rows), alerting |
| Alerting (`monitoring-alert.service.ts`) | Redis keys `monitoring:alert:<id>:<type>`, `notification` | `sendAlert` | webhook dispatch, called and not awaited |
| Webhook dispatch (`libs/common/src/webhook`) | memory of the process, `webhook_log` | `dispatchAll`, `dispatchTest`, `saveLog` | channel rows, external receivers |
| Endpoint registry (`apps/user/src/monitoring`, `apps/admin/src/monitoring`) | `api_endpoint` | create, update, delete, pause, resume | scheduler |
| Webhook channel registry (`apps/user/src/webhook`) | `webhook_channel`, the encryption key | create, update, remove, test | dispatch |
| Sessions and tokens (`auth.service.ts`, `token.service.ts`, `jwt-refresh.strategy.ts`) | Redis `rt:*`, the set of a user's sessions, table `token` | sign in, refresh, sign out, delete all | accounts |
| Password reset (`auth.service.ts`) | Redis token, two counters, `user.password` | request, verify, reset | sessions, mail |
| Accounts (`signup`, `apps/{user,admin}/src/user`) | `user` | sign up, look up, update, withdraw, set status | sessions |
| Notifications (`apps/{user,admin}/src/notification`) | `notification`, `notification_read` | create, read one, read all, delete | alerting inserts the same rows |
| Posts (`apps/{user,admin}/src/post`) | `post` | create, get (counts a view), update, delete | |
| Lists (`findMany` of every repository, `dto/pagination-*.ts`) | none: they read the tables | offset pages, cursor pages | every table |
| Rate limits (`custom-throttler.*.ts`, `checkRateLimit`) | Redis counters with expiry | increment | every request |
| Permissions (`jwt-access.guard.ts`, `permission.guard.ts`, decorators of the controllers) | none: it reads roles and grants | admit or refuse | every handler; the seed |
| Seed scripts (`libs/prisma/src/config/seed`) | `role`, `permission`, `role_permission`, `user_role`, `admin_role` | the statements of a run | permissions |
| Errors (`global-exception-handler.ts`, `exception.code.ts`) | none | exception to status | guards |

Two methods of the token service use a transaction: one inserts the two rows of a refresh token
(`token.service.ts:107`), the other looks a token's row up and deletes it (`token.service.ts:123`). No
other check shares a transaction or a lock with the write it is for, and of what the program checks only
the e-mail of a user has a unique index. What is hard is therefore what happens between two awaits:

* **Two schedulers.** Both applications import `MonitoringCommonModule`
  (`apps/{user,admin}/src/monitoring/monitoring.module.ts:11`) and `docker-compose.prod.yml` starts
  both: every endpoint is checked by two processes at the same firing.
* **Overlap.** The cron library starts a new `handleCron` although the previous one has not returned. One
  check may take 30 seconds (`create-endpoint.dto.ts:40`), which is the cron period, and chunks of ten are
  checked one after the other, so a run may last for several periods.
* **Stale snapshots.** A run computes every row from what `findMany` returned before the checks, and
  writes it without a condition; requests pause, resume, edit and delete rows meanwhile.
* **Lost tails.** Nothing in `handleCron` catches a rejected query, and retries of webhooks live in
  timers: what a crash interrupts is not resumed.
* **Checks before writes.** Limits, duplicate URLs, reset tokens, refresh tokens and read markers are
  looked up with one command and written with another, and rows are found while live and written by
  their id alone.
* **Two commands for one counter.** A rate limit increments and sets the expiry separately.
* **Lists that move.** A client takes the pages of a list one by one while rows come and go.
* **Time on a grid.** The shortest check interval equals the cron period.

## 2. Modules

| Module | Models | Composition and use |
|---|---|---|
| `Monitoring` | `handleCron`, `processResult`, `sendAlert`; `pause`, `resume`, `update`, `delete` of both applications | the system around one database and one Redis; `MCMonitoringShared`, `MCMonitoringSerial`, `MCMonitoringOverlap` |
| `MonitoringProofs` | proofs about `Monitoring` | |
| `CheckCadence` | the firing grid, the due condition and `lastCheckedAt` of one endpoint | `MCCheckCadence` |
| `CheckCadenceProofs` | proofs about `CheckCadence` | |
| `WebhookDispatch` | `dispatchAll`, `dispatchTest`, retries, `saveLog`, `update` and `remove` of channels | `MCWebhookDispatch` |
| `WebhookDispatchProofs` | proofs about `WebhookDispatch` | |
| `SoftDeleted` | abstract: what the repositories promise of a table with `isDeleted` | refined by the four table modules below |
| `Calls` | the invocations of handlers in progress | extended by the table modules and `RateLimits` |
| `EndpointRegistry` | `createEndpoint`, `updateEndpoint`, `deleteEndpoint` as far as limit and URLs go | `MCRegistry` |
| `ChannelRegistry` | `WebhookService.create`, `update`, `remove` | `MCRegistry` |
| `Posts` | `PostService`, `AdminPostService` | `MCRegistry` |
| `Notifications` | `NotificationService` of both applications | `MCRegistry` |
| `Accounts` | `signup`, `UserService`, `AdminUserService`, the look-up of `signin` and `refreshToken` | `MCRegistry` |
| `TablesProofs` | proofs about the four table modules above and their refinement of `SoftDeleted` | |
| `EndpointRegistryProofs` | proofs about `EndpointRegistry` | |
| `Sessions` | `signin`, `signout`, `refreshToken`, `requestPasswordReset`, `resetPassword`; `saveRefreshToken`, `deleteRefreshToken`, `deleteAllRefreshTokens`; the refresh guard | `MCSessions` |
| `SessionsProofs` | proofs about `Sessions` | |
| `FixedWindows` | abstract: what a rate limit promises | refined by `RateLimits` |
| `RateLimits` | `CustomThrottlerStorage`, `CustomThrottlerGuard`, `checkRateLimit` | `MCAccess` |
| `Answers` | `GlobalExceptionHandler`, `AUTH_ERROR` | extended by `Permissions` |
| `Permissions` | what every handler asks for, `JwtAccessGuard` | extended by `Seeding` |
| `Seeding` | the seed scripts, `PermissionGuard` | `MCAccess`, and by itself |
| `AccessProofs` | proofs about `RateLimits`, its refinement of `FixedWindows`, and about `Seeding` | |
| `Listing` | every paged query of the repositories | `MCAccess` |
| `ListingProofs` | proofs about `Listing` | |

### Monitoring

One variable per column of `api_endpoint`; `log` summarises `monitoring_log` per endpoint (failed
checks, slow checks, failed checks since the last success); `notified` counts the notification rows
per endpoint and type with the time of the last; `cooldown` is the Redis key, as the time it expires;
`dispatched` counts calls of `dispatchAll`. An invocation of `handleCron` is a *run*, a pair of a
scheduler and a slot; `pc` names the await it is at, and `at`, `todo`, `snap`, `verdict`, `cur`,
`alert` are its locals.

| Action | Code |
|---|---|
| `CronFire` | the cron library calls `handleCron` on a multiple of the period; `now` is read |
| `FindTargets` | `findMany` and the filter; the snapshot is taken |
| `CheckChunk` | `Promise.allSettled` over at most `MAX_CONCURRENT` targets; every verdict is possible |
| `LogResult` | `monitoringLog.create` |
| `UpdateRow` | `apiEndpoint.update`, computed from the snapshot; which alert follows |
| `SkipAlert`, `PassCooldown` | `redis.exists` and its early return |
| `Notify`, `SetCooldown`, `Dispatch` | `notification.create`, `setex`, the call of `dispatchAll` |
| `Abort` | a query or command rejects or the process dies: the rest of the run is lost |
| `RequestFind`, `RequestWrite` | the two queries of an endpoint request |

A check's outcome is one of `fast`, `slow`, `failed`; names, URLs, messages and HTTP details are not
modelled. The results of a chunk are processed in any order, which contains the order of the code.

### CheckCadence

One active endpoint and every process that fires at it. `nextFiring` is, per scheduler, the instant of the
cron grid that it has not handled yet; `runs` holds the invocations of `handleCron` that have, or may
have, the endpoint to check, each with its firing, the `now` it read (`at`) and its stage.

| Action | Code |
|---|---|
| `CronFire` | the cron library calls `handleCron`, whether or not earlier runs have ended; `now` is read |
| `MissFiring` | the process is down, or so late that the library skips the firing |
| `FindDue`, `FindNotDue` | `findMany` and the filter, on the row of this moment and the `now` of the firing |
| `StartCheck` | the chunks before the endpoint's own have been processed |
| `SendUpdate` | the request and the log row are behind; `new Date()` is taken |
| `UpdateRow` | the update takes effect, whatever the row holds by now |
| `Abort` | a query rejects, in this endpoint's turn or in one before it, or the process dies |
| `Tick` | time passes as long as no firing is overdue by more than `MaxJitter` |

Nothing bounds the time between two stages: `Tick` asks for firings only, so a run may take longer than a
period or an interval and later runs overtake it. `lost`, `freshest` and `checkedSince` are history: the
schedulers whose last firing came to nothing, the latest time ever written to the column, and the start of
the latest check whose result is in the row. Pauses and edits of the interval belong to `Monitoring`.

### WebhookDispatch

A *delivery* is one message on its way to one channel. `target`, `attempts`, `timer` are the locals of
`dispatchToChannel`; `accepted` is what the receivers know; `logged` is `webhook_log`; `readable` are
the channels whose ciphertext the process can decrypt (the key may have changed since).
`lastValid` remembers until when an active channel had a URL, for `RevocationTakesHold`.
`FindChannels` is the query of `dispatchAll` together with the synchronous start of every delivery;
`PostSucceeds`, `PostFails`, `Retry`, `SaveLog`, `SaveLogFails` are the awaits of the loop; `Restart`
loses whatever is in memory. Timers fire on time and a POST is settled by its timeout (the guards of
`Tick`); the delay of an event loop is not modelled.

### EndpointRegistry

A request has read the count (`CreateCount`), then the URL (`CreateFindUrl`), then inserts
(`CreateInsert`); an update finds the row, looks for the URL unless it equals the row's, and writes;
a deletion finds and writes. Requests are reused, and ids are not.

### The tables: ChannelRegistry, Posts, Notifications, Accounts

Each of these modules has the rows of one table, split into the live and the deleted ones, and one call
variable. A handler *finds* a row among the live ones (`FindOwnPost`, `FindForUser`, `FindAccount`,
`FindOwnChannel`) and acts on it by its id in a later step (`UpdatePost`, `SoftDeleteNote`,
`UpdateStatus`, `UpdateChannel`): between the two, other calls of either application do the same. A
refusal after a check and a query that rejects look the same to the table and are one `Abandon...`
action. A variable ending in `Late` counts what reaches a row after its deletion, which is what the
abstract `SoftDeleted` bounds: a row is added once, removed once, never comes back, and is written late
only by calls that had found it before, at most one less than there are calls at a time. All four modules
implement it (`...AreSoftDeleted`).

Beyond that, `ChannelRegistry` keeps which ciphertexts the present key decrypts: URLs are encrypted with
a fresh IV, so duplicates are found by decrypting every channel, and one that cannot be read counts as
different; `ReplaceKey` is a restart with another key. `Posts` has the view counter, incremented by one
statement but answered from the row read before. `Notifications` has the markers, per user, with
notifications for everyone; `readAll` remembers what a user's read-all covered. `Accounts` has the
e-mail, whose unique index covers deleted rows while every look-up leaves them out, and the status.

### RateLimits

A request is the sequence of counters it hits: the throttler of the guard, then the checks of the
service, one after the other up to the first that blocks. `Incr` is INCR with the decision made on the
number it returns, `Expire` the second command, sent on a count of one. `hits` and `ttl` are the Redis
key; `admitted`, `age` and `cut` are history: what the counter let through since its key came to be, for
how long the key has lived, and which counters a fault left without an expiry. `FixedWindows` says what
callers may count on, for all counters at once: at most `Limit` requests in a window that lasts at least
`Period`.

### Permissions, Answers and Seeding

`Permissions` has one record per controller, with what each handler needs; `Seeding` executes the seed
scripts statement by statement, as upserts. Roles are looked up by the id they should have but inserted
with the next value of the sequence; `LoseRoleId` is an insert that is rolled back. `Answer` is a request
to a handler: the two guards over what the seed has left, and the status that the exception handler makes
of a refusal. A token comes with the scheme of its header: Passport accepts any spelling of it, while
`CustomClsMiddleware` takes the caller from `Bearer ` alone, so with another spelling `JwtAccessGuard` lets
the request through and `PermissionGuard` finds nobody in the context and answers 403 (`ContextHasCaller`).

### Listing

A list is a record: offset or cursor pages, the sort key, the default order, whether a request may name
one, whether rows leave the list. The thirteen lists of the repositories are the initial states. A client
walks through the pages while `InsertRow`, `EditIn` and `RowLeaves` change the rows that match; the rows
of a page and the total are two queries (`FindManyOffset`, `Count`), and rows of equal key come in any
order. Filters are not modelled: they are what makes a row match.

### Sessions

One account stands for all, because no key, set or row is shared between two; an admin has sign-in,
refresh and sign-out only. A request mints at most one session (or one reset token), so the request's
name is the jti. `keyExpiry` is the key `rt:<owner>:<id>:<jti>` as the time it expires, `tokens` and
`listExpiry` are the set `<owner>:<id>:tokens`, `rows` is the table, `jwtExpiry` the `exp` claim.
`todo` holds the commands a request has sent with `Promise.all` or `allSettled` and awaits. Commands of
one Redis connection take effect in the order they were sent; the transaction on the table is
independent of them.

| Action | Code |
|---|---|
| `SignIn`, `SignOut`, `Refresh`, `ResetPassword` | a handler up to its first await that matters: token verification, the guard, the lookup of the reset token |
| `RequestPasswordReset` | the reset token is stored and mailed |
| `CreateRow`, `SetKey`, `AddToken`, `ExpireTokens`, `AnswerSave` | `saveRefreshToken` and the answer |
| `GetToken`, `DeleteKey`, `RemoveToken`, `DeleteRow`, `SettleOne` | `getRefreshToken`, `deleteRefreshToken` |
| `DeleteResetToken`, `UpdatePassword` | the middle of `resetPassword` |
| `ReadTokens`, `DeleteTokens`, `DeleteKeys`, `DeleteRows`, `SettleAll` | `deleteAllRefreshTokens` |
| `AwaitFails`, `CommandFails`, `Restart` | a query or command rejects; the process dies |
| `Tick` | times to live are minutes and days: time passes between requests |

Both controllers put `JwtRefreshGuard` before `refreshToken`, and the guard looks for `rt:<jti>`, a key
nothing writes; with `Guarded = TRUE` no refresh succeeds. `Guarded = FALSE` is the service alone, as
its unit tests call it and as it will run once the key is corrected; the passing run checks that, since
it has every behaviour of the guarded program and the rotation besides.

The history variables say what the clients and the requests know: `changedBy`, the reset tokens that
have changed the password; `earlier`, the sessions answered before a reset read the set; `overlapped`,
the sessions saved while a reset was deleting; `undeleted`, the sessions whose `del` failed unreported.
Rate limits let every request through, a wrong password changes nothing, access tokens are stateless.

## 3. Runs

| Run | Checks | Shows |
|---|---|---|
| `monitoring_shared` | `TypeOK`, `FailureCountBacked`, `AlertsJustified`, `DispatchBacked`, `DownAnnounced` | what survives two schedulers, a concurrent request and an aborted run |
| `monitoring_serial` | `CooldownRespected`, `DownOnConsecutive` | one scheduler without overlap keeps the cooldown and the consecutive count |
| `monitoring_overlap` | `TargetsChecked` | no target is lost between chunks of overlapping runs |
| `monitoring_duplicate` | `CooldownRespected`, violated | two schedulers store one alert twice |
| `cadence` | `NeverEarly`, `NeverForgotten` | what keeps two schedulers with overlapping runs from checking too often, and none from leaving an endpoint out |
| `cadence_sec30` | `CheckedEachInterval`, violated | an interval of one period is really two |
| `webhook` | `TypeOK`, `RevocationTakesHold`, `LogTruthful`, `NotResent`, `CallsSettle` | retries, log rows, revocation, and that every call settles |
| `registry` | `LimitOvershoot`, `UrlCopies`; `ChannelOvershoot`, `ChannelUrlCopies`; `ViewsCounted`; `MarkerCopies`, `ReadAllCovers`; `WithdrawnUnlessLate`; `ChannelsAreSoftDeleted`, `PostsAreSoftDeleted`, `NotesAreSoftDeleted`, `AccountsAreSoftDeleted` | how far concurrent requests overrun the checks of each table, what they never lose, and that the tables implement `SoftDeleted` |
| `access` | `StuckOnlyByFault`, `CountersAreWindows`, `BlockEnds`; `SeedConverges`, `RolesConfined`; `CursorWalkExact`, `OffsetWalkBounded` | rate limits implement `FixedWindows` and let blocked callers in again; a seed that is killed and started over converges and never grants too much; what a walk through pages may miss or repeat |
| `access_permissions` | `SuperAdminHasAll`, violated | the seed lacks permissions that admin handlers ask for |
| `sessions` | `TypeOK`, `ResetTokenSpent`, `EndedStaysEnded`, `SessionsTracked`, `ResetEndsSessions` | what sign-out, rotation and reset guarantee whatever runs beside them, fails or restarts |
| `sessions_refresh` | `RefusedOnlyIfEnded`, violated | behind the guard a refresh of a live session is refused |

Bounds. `monitoring_shared`: one endpoint (endpoints share no state, only a run's chunk, which
`monitoring_overlap` covers), two schedulers with one run each, thresholds 2 and 3 so that DOWN needs
checks of two firings, two firings, one request, one fault, a cooldown that covers one firing.
`monitoring_serial`: five firings with threshold 2 and a cooldown of three units, so that the key is
found alive, found expired, and set again. `monitoring_overlap`: two endpoints with chunks of one, two
slots, two firings. `cadence`: a unit of 15 seconds, a period and an interval of two units, firings up to
half a period late, two schedulers with four firings each, three runs at a time, one fault: enough for a
run that is overtaken by the next one of its own process while the other process checks as well. An
interval of two periods was tried with two runs at a time. `cadence_sec30` has one scheduler that fires on
time, without faults or overlap, which the violation does not need. `webhook`: one
channel shared by an alert and a test message, two URLs, two retries with growing delays, one fault;
the clock lasts for the last retry. `registry`: the five tables share no row, so each is driven by
itself (`part`); two calls at a time around a limit of two, four rows so that deletions make room again,
two URLs, two posts with at most three views each, two notifications and two readers, two accounts with
two e-mails, one replacement of the key. After that replacement `ChannelUrlCopies` allows for more copies
than `ChannelOvershoot` leaves room for, so that for a changed key it rests on the theorem
`ChannelUrlsBounded`. The rows, values and calls of the parts are the same model
values, which are only compared, hence the symmetry of them all. Three calls were tried on the endpoints.
`access`: the three parts are driven one at a time as well. Two calls on the counters of the reset
request with limits 2, 2 and 1, so that the service blocks some that the throttler lets through, periods
of two units and one fault; the limits are 5 and 3 in the code, and a higher one adds hits that differ in
nothing from the second. `GetMe` hits its counters by the same steps and is not driven. Two runs of the
scripts, one lost id. Three rows, pages of one row (the program demands five at least, which only scales
the walk), two changes during a walk. `sessions`: four requests, enough for two sessions,
a reset token and a reset that meets a sign-in, or for a session, two refreshes of it and a sign-out; a
session lives for two units and a reset token for one, so that both are found expired; one fault. Five
requests without faults were tried as well. The requests are interchangeable, hence the symmetry.

Fairness is assumed in three runs only. In `monitoring_overlap` every step of a run is weakly fair:
queries settle, and a check carries a timeout (`health-checker.service.ts:30`, at least one second by
`create-endpoint.dto.ts`). In `webhook` the steps of a delivery, the query of a call and the clock are
weakly fair: POSTs carry a timeout (`webhook-dispatch.service.ts:67`) and timers fire. Nothing is
assumed of requests, faults or firings. In `access` the clock of Redis and the command `expire` that a
process has sent are weakly fair: Redis expires keys by itself, and a command is answered or rejected
(`CommandFails`); `BlockEnds` needs both. The model stops at its bounds of time, so deadlock is not
checked.

### What the violated runs say

* `monitoring_duplicate` - `sendAlert` is described as "Redis 중복 방지"
  (`monitoring-alert.service.ts:19`), but `exists`, `create` and `setex` are three steps. With one
  scheduler without overlap the cooldown holds (`monitoring_serial`).
* `cadence_sec30` - FR-14 offers an interval of 30 seconds. `lastCheckedAt` is later than the firing,
  so the next firing, 30 seconds after the previous, is always too early: one process, on time, checks
  such an endpoint at every second firing.
* `sessions_refresh` - the guard's comment says "Redis에 저장된 리프레시 토큰 조회"
  (`jwt-refresh.strategy.ts:58`), but line 59 reads `rt:<jti>` and `token.service.ts:70` writes
  `rt:<owner>:<id>:<jti>`.
* `access_permissions` - "SUPER_ADMIN은 모든 권한" (`2_permission.ts:48`) grants every seeded
  permission, but no permission of the scopes `monitoring` and `webhook` is seeded, for which the admin
  handlers of endpoints, logs and webhooks ask. The same goes for the user application: creating an
  endpoint or a channel asks for such a permission, and `signup` gives no role at all (`RolesConfined`
  states it). The refusal is answered 500: the guard returns false, the framework throws a
  `ForbiddenException`, and `GlobalExceptionHandler` has no branch for it.

A run that dies after it has written DOWN never announces it, since the alert depends on the status of the
snapshot not being DOWN (FR-15 of the plan asks for "DOWN 판정 + 알림"); `DownAnnounced` says that this
happens in the hands of a fault only.

FR-09 (ten endpoints per user) has no run of its own: `LimitOvershoot` says exactly how it fails, by
n - 1 rows under n concurrent requests, and that it holds for one request at a time.

The tables keep their promises in a weaker form, too. A reader is told the number he read plus one, so
concurrent readers are told the same number, but none that the counter does not reach (`ViewsCounted`).
`notification_read` may hold as many markers of one user as calls ran at a time (`MarkerCopies`). Channel
URLs are unique per encryption key and call only (`ChannelUrlCopies`). An account that was withdrawn may
be given another status, or a session, by calls that had found it before (`WithdrawnUnlessLate`,
`AccountsAreSoftDeleted`), and its e-mail cannot be signed up again: the look-up misses the row, the index
does not. Offset pages miss or repeat up to one row per change (`OffsetWalkBounded`); cursor pages are
exact (`CursorWalkExact`). Both say nothing of a walk without an order, and the user application has two:
`order` is optional and documented as "기본: desc" for both kinds of page (`pagination-request.dto.ts:24`
and `:50`), but `findPostsOffset` (`post.repository.ts:85`) and `findPostsCursor` (`:107`) pass an
undefined one on, and the database may then return the rows in any order. The other lists fill in the
default.

No bound on the number of checks holds. Two processes at the same firing both find an endpoint due, and so
does a later run of one process as long as the result of an earlier one is not in the row. `NeverEarly`
says that this is the only reason: a run takes an endpoint no sooner than one interval after the start of
every check whose result has been written. It excepts a row that an update sent earlier has set back.
`NeverForgotten` is the other side: a scheduler whose last firing was not lost, and whose last run does not
have the endpoint in hand, vouches for a result no older than the interval, one period and the delay of a
firing. How old a result becomes while a run does have it in hand, nothing bounds.

Two promises of the sessions hold only in the weaker form that is checked. A reset token is called
single-use (`auth.service.ts:198`), but two requests that both read it before the first deletes it both
change the password; `ResetTokenSpent` says that it is gone once it has been used. The cookie is to
survive a failed sign-out (`auth.controller.ts:79`), but `allSettled` reports no failure;
`EndedStaysEnded` excepts exactly the sessions whose `del` failed.

## 4. Proofs

Every invariant and every refinement that a passing run checks is also a theorem, and so are the action
properties `NotResent`, `NeverEarly` and, under the hypothesis explained below, `CooldownRespected` and
`DownOnConsecutive`; only the three liveness properties are left to the runs. The theorems hold for all
values of the constants under the assumptions the modules name: `CadenceAssumption` and
`FiniteAssumption` (`Monitoring`), `TimingAssumption` (`CheckCadence`), `RetryAssumption`
(`WebhookDispatch`), `RegistryAssumption` (`EndpointRegistry`), `SessionAssumption` (`Sessions`),
`CallsAssumption` (`Calls`), `PostsAssumption` (`Posts`), `ChannelsAssumption` and `ChannelUrlsAssumption`
(`ChannelRegistry`), `RateLimitsAssumption` (`RateLimits`), `SeedingAssumption` (`Seeding`) and
`ListingAssumption` (`Listing`). They give the constants their types - numbers, finite sets, paths of
counters, values apart from each other - and relate no duration to another, so that timeouts, periods,
intervals and delays may stand in any proportion. TLC evaluates them in every run that uses the module.
`SerialCooldown` and `SerialDown` alone have a hypothesis besides.

* `MonitoringProofs`
  * `TypeCorrect`: `TypeOK` with `ControlOK`, which says what a run holds at each await.
  * `FailureCountCorrect`: a counter is written from a snapshot, so `FailureCountBacked` alone is not
    inductive; `SnapshotsBacked` says the same of every snapshot, strictly while a failed result is
    between its log row and the update.
  * `AlertsAlwaysJustified`: `AlertsJustified` with `SnapshotsJustified` and
    `AlertsInFlightJustified`; the cause of a status is handed from the log to the row, to snapshots,
    to the alert in flight and to the notification.
  * `DownAlwaysAnnounced`: `DownTracked` says that a DOWN of a row or a snapshot is notified or in the
    hands of a run, and that a live key means it was notified before.
  * `DispatchesBacked`: the runs between `notification.create` and `dispatchAll` are counted together
    with what was sent; an aborted run only leaves the sum smaller.
  * `SerialCooldown` and `SerialDown`: for `SerialSpec`, one scheduler whose runs do not overlap, and
    `MaxFaults = 0`. `OneRun` says that one run at most is awake, so that nothing happens to its alert or
    its snapshot behind its back. `CooldownTracked` ties the key to the time of the last notification:
    either the key lives until that time plus the cooldown, or the run is between `create` and `setex`.
    `StreakInv` says that the counters of a row and of a snapshot are at most the failed checks since the
    last success, unless that success is on its way to the row, and that DOWN had enough of them. The
    hypothesis is needed: a run aborted between `create` and `setex` leaves no key, and one aborted
    between the log row of a success and the update leaves a counter that goes on from before it.
* `CheckCadenceProofs`: nothing is assumed of the length of a run, the number of schedulers or the faults.
  * `TypeCorrect`.
  * `ChecksNeverEarly`: `NeverEarly`. A check starts before the time its update carries (`RunsInOrder`), so
    `checkedSince` is before `freshest` (`RowInOrder`); a run that finds the row due while the column holds
    `freshest` is an interval behind that.
  * `NeverLeftOut`: `NeverForgotten`. `FiringsInTime` says that no firing is overdue, and `Vouched` that a
    scheduler whose last firing has ended without loss leaves a result younger than an interval at that
    firing: the run either found the row so, or has written a later time since. `BusyGoesOn` and
    `BusyUnlessEnded` follow the last run through its stages.
* `WebhookDispatchProofs`
  * `TypesCorrect`, `LogsTruthful` and the action property `NeverResent`: `DeliveriesTracked` says what
    each await has behind it and `NotStarted` that a call has sent nothing before its query returns.
  * `RevocationIsBounded`: `RevInv` says that a delivery whose channel has changed is behind that change
    by no more than the timeouts and delays of the attempts it has made. That these sums exist
    (`RetrySpan` is a recursive function) and grow with the attempts is shown by induction over a set of
    numbers, which has a least member (`LeastMember`).
* `EndpointRegistryProofs`
  * `LimitBounded`: `LimitTracked` counts the requests that have passed the check together with the rows;
    a request that inserts gives up one and takes the other.
  * `UrlsBounded`: `UrlTracked` counts, per URL, the rows that have it or will be given it by an update,
    with the requests that are about to insert it. A check that finds no row leaves the requests only,
    itself among them.
* `SessionsProofs`
  * `TypeCorrect`: `TypeOK` with the two invariants below, which say whether `arg` is a request.
  * `ResetTokensSpent`: `ResetTracked` says that a reset token is set only by a request in state `new`,
    which its owner has left for good before anybody presents it.
  * `EndedStayEnded`: `EndingTracked` says that a presented session has been answered, so no request
    sets its key again, and that past the `del` its key is gone or the `del` has failed.
  * `SessionsStayTracked` and `ResetsEndSessions`: `StoreInv`. A session that was answered is stored in
    all three places or `Settled`, which lists the excuses: it has expired, it was saved while a reset was
    deleting, its `del` failed, or somebody is deleting it. `SavingTracked` says which of the three places
    a session on its way has reached, `ResetsTracked` and `EarlierTracked` what a reset has read and what
    it still has to delete.
* `TablesProofs`
  * `PostsRefineSoftDeleted`, `ChannelsRefineSoftDeleted`, `NotesRefineSoftDeleted`,
    `AccountsRefineSoftDeleted`: every step of the table is a step of `SoftDeleted` or a stutter. A late
    write needs a call that had found the row while it was live, so the invariant counts, per deleted row,
    the calls that still hold it together with its late writes: never more than all calls but the one
    that deleted it. A call that writes late stops holding, and nobody begins to hold a deleted row.
  * `ViewsAlwaysCounted`: a reader tells a number it has read before it increments, so for each number
    the readers that have told it or will tell it are counted, against those still to increment.
  * `ChannelsBounded`: as `LimitBounded`, counting the calls past the check together with the rows.
  * `ChannelUrlsBounded`: as `UrlsBounded` among the channels the present key decrypts; a new key turns
    them into rows that count as different (`LostCopies`), of which each key leaves as many as calls.
  * `MarkersBounded`: the calls about to insert a marker are counted together with the markers there are;
    `ReadAllAlwaysCovers` says what each call has found since it began.
  * `WithdrawnAlways`: only `UpdateStatus` writes the status of a deleted row, and that is a late write.
* `AccessProofs`
  * `LimitsRefineWindows`: each counter implements its window; `WindowOf` says that `admitted` is the
    number of hits up to the limit, and that the key has lived for as long as its expiry has run. The
    fairness of `LimitsSpec` is not used, since `FixedWindows` asks for none.
  * `StuckByFaultOnly`: `CutTracked` says that a counter above zero has an expiry, a call about to send
    one, or a fault behind it.
  * `SeedAlwaysConverges`: `StatementsListed` says of the scripts what matters: the roles come first, every
    role is looked up before it is given anything, and all grants and accounts are there. `Progress` says that, unless an id
    was lost, roles have the ids they should have (`RolesInPlace`) and what a run is past is done; since
    rows are only added, what one run has done stays done in the next.
  * `RolesAlwaysConfined`: `Confined` holds even with ids lost. An id that a run has found is a row
    with the name it looked for, and ids are not given twice, so that a grant and an account's role
    always meet in the role that the tables name for both.
* `ListingProofs`
  * `CursorWalksExact`: `CursorTracked` says that rows up to the cursor have been shown once, if they
    were there throughout, and that none behind it has been shown. The rows of a page are sorted and
    different, so the new cursor divides them in the same way.
  * `OffsetWalksBounded`: the place of a row is the number of rows before it (`Rank`; `PlaceInAnswer`
    shows that the query returns it there). `Missed` are the rows the walk has gone past without showing
    them, `Again` those it has shown and will meet again. A row that leaves moves those behind it back by
    one place, so only the row at the edge of the next page can slip past it; a row that enters can push
    only the last one of the previous page over it, or is itself one that was shown before. A page moves
    the edge and changes neither set. At the end, rows behind the edge have places of their own between
    it and the number of rows (`NoMoreThan`), which exceeds the count only by rows that entered since.

Only model-checked: `TargetsChecked`, `CallsSettle` and `BlockEnds`, which are liveness properties under
fairness, out of the prover's reach as is ENABLED; and the four violated properties, which are refuted by
a behaviour.

## 5. What is left, in order

1. `AlertSpec`, an abstract specification of alerting (an announcement per change, at most one per
   cooldown), refined by `Monitoring` under one scheduler.
2. `Monitoring` composed with `WebhookDispatch`: the order in which alerts of one endpoint arrive.

Not modelled: the uptime and response-time statistics, sums and roundings over one query each (one failed
check among more than 20000 rounds to 100 percent); DTO validation, serialisation and cookies; payload
formats; cryptography (a perfect box, except that a ciphertext may be unreadable); the database, Redis and
mail clients, whose failures appear as rejected queries and commands; logging and migrations. The passwords
of accounts are not told apart, so that a sign-in which compared an old one is a sign-in like any other.
