# VTV backend: TLA+ verification

TLA+ models, TLC runs and TLAPS proofs for the Go backend in `src/` (an Echo HTTP API over PostgreSQL and
Redis: accounts, roles and permissions, sessions, notifications with server-sent events, audit log, storage).
`PROJECT.json` lists every component, run, mutant, theorem and hazard, and the lines each definition models.

## 1. Inventory

| component | state | operations | interacts with |
|---|---|---|---|
| User accounts (`internal/usecase/user.go`, `auth.go`, `internal/repository/user.go`) | table `users` | update, reset password, toggle status, profile, change password, request and use a reset link, avatar upload, bulk lock / unlock / delete | `TxRunner` (Postgres), audit log, storage, mail |
| Onboarding (`Create`, `Invite`, `NextStaffCode`, `cmd/seed-admin`) | `users`, `user_permissions` | create or invite an account, next staff code | permissions, mail |
| Real-time notifications (`pkg/xnotify/hub.go`, `handler/sse.go`, `repository/notification_publishing.go`) | the hub's `conns`, one channel and two goroutines per stream, Redis subscriptions | open a stream, publish, forward, deliver, disconnect, `Close` | Redis pub/sub, notification repository, shutdown |
| Sessions (`Login`, `Logout`, `xauth/jwt.go`, `xauth/blacklist.go`, `middleware.go`) | tokens held by clients, Redis blacklist | login, logout, verify, forced password gate | accounts, Redis |
| Permissions (`usecase/permission.go`, `model/permission.go`, `RequirePermission`) | `user_permissions` | create, update, delete, effective permissions | accounts, sessions |
| Inbox and announcements (`usecase/notification.go`, `repository/notification.go`) | `announcements`, `notifications` | create, update, delete, publish to all, mark read | accounts, hub |
| IP ban guard (`pkg/xratelimit/ipban.go`) | Redis keys `scan:{ip}`, `ban:{ip}` | check, score, ban, unban | Redis |
| Login rate limiter (`middleware/ratelimit.go`) | one token bucket per address | allow, sweep | |
| Process life cycle (`cmd/api/main.go`) | whether it listens, serves, drains or closes | listen, signal, wait for handlers at most 30 s, close database, Redis and hub | hub, Redis, HTTP server |
| Storage (`handler/storage.go`, `pkg/xstorage`) | objects; the server keeps nothing of an upload token | sign an upload URL, direct upload, serve | MinIO, caches of browsers and CDNs |
| Lists (`List` of every repository, `NewPage`, `parsePage`, `PaginatedResponse`) | none | count and read a page | whatever changes the table |
| Audit log queries, settings, health | `audit_log`, `settings` | a list, single statements | |
| HTTP layer, infrastructure packages, worker | | binding, error mapping, wrappers of libraries | |

The database schema is not in the repository (`migrations/` is empty); what the models need of it, row locks and
READ COMMITTED visibility, comes from how the code uses it.

### What is hard, and what must be true

* **Accounts.** No handler locks the row it reads, and `Update` writes the whole struct back. Two handlers that
  overlap on a row overwrite each other's columns. What has to survive this: the forced rotation of an invited
  account, the death of a used reset link, the audit row beside every transactional change, a success that is only
  told after the commit, an avatar that exists; and every request has to be answered although writers queue for row
  locks.
* **Hub.** Each stream has a handler goroutine that may block in a write as long as the client likes and a loop
  goroutine that must never wait for it. Slots are limited per user, given back by the loop, and cleared by `Close`
  while streams are being opened, and a late request subscribes to the closed hub. Clients must see their own, stored
  events, in the order in which they were published and no more often than that.
* **Sessions.** A token outlives the row its claims were read from; the blacklist expires together with the token.
* **Permissions.** Two code paths compute what a user may do, one from the role in the token, one from the row. A save
  is made for the role of the moment; a token of another role must not get back what the save took away.
* **Announcements.** A whole-row save after a stale read can undo a delete.
* **Onboarding.** Names and codes are looked up first and inserted later; the only copy of an invited account's
  password leaves by a mail that is sent after the commit.
* **Shutdown.** Streams do not end by themselves, `Shutdown` waits for them, and what would end them is closed after it.
* **Storage.** An upload URL may be used again until it expires, answers may be cached for an hour, and an object can be
  replaced between the look at its headers and the copy of its bytes.
* **Lists.** Total and rows are two statements, and pages are requests of their own; rows move in between.
* **IP ban.** Checks and scores of one address interleave across requests; the counter's window is renewed by every
  hit.

## 2. Plan

| step | modules | what it adds | state |
|---|---|---|---|
| 1 | `UserAccounts`, `MCUserAccounts`, `UserAccountsProofs` | rows of `users` under overlapping handlers | modelled, checked, safety proved |
| 2 | `NotifyHub`, `EventFeed`, `ServerLife`, `MCServerLife`, `ServerLifeProofs` | hub and streams; `EventFeed` is the abstract specification, which `NotifyHub` implements (`INSTANCE`); `ServerLife` composes the hub with `main()` and the requests | modelled, checked, safety and refinement proved |
| 3 | `Permissions`, `MCPermissions`, `PermissionsProofs` | matrices, the handlers that save them, the gate | modelled, checked, proved |
| 4 | `Inbox`, `MCInbox`, `InboxProofs` | announcements, publication, marks | modelled, checked, proved |
| 5 | `Sessions`, `MCSessions`, `SessionsProofs` | login, logout, expiry against the blacklist, forced password gate, locks while logged in | modelled, checked, proved |
| 6 | `AddressGuards`, `MCAddressGuards`, `AddressGuardsProofs` | scan counter and ban with their expiry, the bucket of the login limiter | modelled, checked, proved |
| 7 | `Onboarding`, `MCOnboarding`, `OnboardingProofs` | creation, invitation with its mail, free usernames, next staff code, first administrator | modelled, checked, proved |
| 8 | `ResetLinks`, second half of `UserAccountsProofs` | what reset links promise, which `UserAccounts` implements; what a whole-row write keeps | modelled, checked, proved |
| 9 | `Uploads`, `MCUploads`, `UploadsProofs` | upload URLs, uploads, downloads and caches | modelled, checked, proved |
| 10 | `Paging`, `MCPaging`, last part of `InboxProofs` | lists read page by page while rows move | modelled, checked, proved |

Modules are written to be proved about: parameters are `CONSTANTS` with a named `ASSUME`, a step of the code is one
action, invariants are conjunctions of named parts, nothing is `RECURSIVE`.

## 3. How the models correspond to the code

In all models a request is handled once. The steps of its handler are the calls that leave the process (a SQL
statement, a commit, a Redis or storage call); what the code computes between two of them belongs to the step of the
first. Every such call may fail. Rows are numbered by the request that made them where the code uses generated
values (reset tokens, avatar objects, permission rows, notifications), which is what makes them distinct.

**`UserAccounts`.** `rows` and `reset` are table `users` (the two reset columns apart, as `Update` omits them);
`entity[r]` is the `model.User` in the memory of the handler of `r`, `at[r]` its position. The read and the domain
method are one action per route (`Update`, `AdminReset`, `ToggleStatus`, `UpdateProfile`, `ChangePassword`, `Redeem`,
`Upload`, `StartBulk`/`BulkLoad`); the writes are shared: `StoreRow`, `ClearResetToken`, `WriteAudit`, `Commit`,
`Rollback`. A transaction's effects become visible in `Commit`; the row lock is held from `StoreRow` on (`HoldsLock`),
and a second writer waits (`CanWrite`). A commit whose acknowledgement is lost is the outcome
"error" of `Commit`. `upload` and `forgot` run without a transaction: `PutObject`, `SaveAvatar`, `SaveResetToken`, `ReplySaved`.
`Expire` lets a reset link time out at any moment. `written` and `stale` only record.
`ResetLinks` is the abstract specification of the links: issued, expired, admitted, used, dropped. The mapping reads a
link as live while a look-up by its token finds a row (`LiveLinks`), as dead when it has been in a row and no look-up
finds it any more (`DeadLinks`), and as held by the requests between their look-up and the end of their transaction
(`HeldLinks`); `Commit` of a redemption is `Use`, its `Rollback` is `Drop`, `SaveResetToken` is `Issue`.

**`NotifyHub`.** Each stream has the handler goroutine of `sse.go` (`handler[s]`) and the loop of `hub.go`
(`loop[s]`); `buf[s]` is the channel of capacity `ChanBuf` (16), `wire[s]` what Redis has sent, `conns` the hub's map,
`cancelled` the cancelled contexts. Actions: `Insert` and `Publish` of the publishing repository; `Subscribe`,
`StartLoop`, `Forward`, `LeaveLoop`/`EndLoop`, `Release`, `LoseRedis` of the hub; `Deliver`, `Disconnect`,
`Leave`, `WriteFails` of the stream; `CloseRedis`, `CloseDone`, `CloseConns` at the end of the process. Redis is a
lossy ordered channel that forgets what nobody is subscribed to. `xredis.New` leaves the retries of go-redis at their
default: a PUBLISH whose reply is lost is sent again, up to three times, and other events may be published in between. So
an event is a pair of a notification and the number of the execution (`Events`, `MaxSends`); the number is history, the
message does not have it. Heartbeats are writes that may fail. `EventFeed` promises the events in the order in which
their publications were executed, each execution at most once, nothing from before the stream; the refinement mapping
is the identity on the variables they share.

**`ServerLife`** extends `NotifyHub` by `main()`: `listens` is the outcome of `e.Start`, whose failure is only logged;
`Signal`, `ShutdownReturns` or `ShutdownTimesOut`, `Close` are its statements in order; `running` are the requests that
use the database, one of which inserts and publishes notifications (`CreateNotification`). `NoHandlerOpen` is what
net/http's `Shutdown` waits for; it does not cancel handlers, and it lets connections that were accepted before bring
their requests. A request that is in the ban guard or the middleware is such a late one: what it passes there changes
nothing of this model, and its handler's first step may come while the process drains, after the 30 seconds (no read
timeout is set) or when the hub is closed. `Accepts` excludes it only when `Shutdown` has returned without an error,
which it does not do as long as such a request is there.

**`Uploads`.** `link[k]` is what a signed URL says of a key, kept by the client and not by the server; `put[p]` an
upload from its checks (`DirectUpload`, `Admits`) to `PutObject` (`Store`, `StoreFails`), `get[g]` a download from its
`Stat` (`Open`) to the last byte (`Read`, `Finish`, `CutShort`), `copy[k]` the copies that `Cache-Control` allows
(`FromCache`, `Fresh`). Types and lengths are small sets; a length may be left undeclared, and then only
`MaxBytesReader` limits it. `replaced` only records.

**`Paging`.** `list` is what the WHERE clause of a list selects, in the order of its ORDER BY; `Enter` and `Leave` are
the other requests, `walk` the client; `CountRows` and `FindRows` are the two statements of a request. The constants
`MaxSize` and `Oversize` are 1000 and 1000 for `NewPage`, 200 and 50 for the audit log. Rows with equal sort keys are
taken to have an order, which PostgreSQL does not promise. `stays`, `advanced`, `overtaken`, `raced` only record.

**`Permissions`.** A matrix maps pairs to granted, denied or absent (`PermissionMap` with `true`, `false` and no
key). `Cleaned` is the matrix a save stores, `Layered` the defaults of a role under the row, `RequirePermission` the
middleware (role of the token), `EffectivePermissions` what `GET /permissions/me` answers (role of the database).
Handlers: `SaveByUser`, `SaveById`, `CreateRow`, `DeleteRow` arrive, then `ReadUser`, `ReadRowByUser`/`ReadRowById`,
`Write`, `Commit` or `Abort`. `CreateUser` seeds the row in the transaction of the account, `SetRole` is the role
column of `PUT /users/:id`, `Login` the token. `saved`, `ticked`, `born` only record.

**`Inbox`.** Nothing here runs in a transaction; a handler of one statement is one action (`CreateAnnouncement`,
`DeleteAnnouncement`, `MarkRead`, `MarkUnread`, `SetImportant`), the others are `Load` then `SaveAnnouncement`;
`Load`, `ListAudience`, `BulkCreate`; `OpenDetail`, `MarkOpened`. `MarkAllRead` is one UPDATE of many rows and takes
two steps, its snapshot and its writes, between which other marks commit. `FirstPage` is `NewPage(1, 10000)` with its
clamp as the constant `PageMax`. `seen` only records.

**`Sessions`.** `at[r]` is the position of a request between the calls of `Auth.Middleware` and of its handler:
`ReadUser`, `Sign` for a login; `Verify` (the token alone), `CheckRevoked` (Redis), `CheckForce` (the database) in
front of the other routes; `Revoke` (which computes the lifetime) and `SetRevoked` of a logout; `ChangePassword`.
A token is named by the login that signed it. `now` counts seconds, the precision of a token's expiry; `Tick` also
deletes the keys of Redis whose time is over. `CommitRow` is a commit of `UserAccounts`, with any new value.
`lockedSince` and `seen` only record.

**`AddressGuards`.** `scan` and `ban` are the Redis keys of the same name with the time of their deletion; a scanner
hit is `Arrive`, `Answer`, `Score` (INCR and EXPIRE), `SetBan`, `ClearCount`, one per call of Redis, each of which may
fail before or after it was executed. `bucket` is the map of `IPRateLimiter`; `Allow` is `get` and `Allow`, `Sweep` a
round of its goroutine. `hits`, `failed`, `admitted` only record.

**`Onboarding`.** An account is named by the request that makes it. `TryName` is one round of the loop of `Invite`,
`CheckName` the look after it, `Probe` the only look of `Create` and of `seed-admin`. A transaction collects the tables
it has written in `wrote` and `Commit` makes them visible; `UniqueNames` says whether usernames have a unique index,
which the repository does not show. `SendInvitation` has the three outcomes of `Send`: it fails and says so, the mail
arrives, or it is lost and nobody is told. `NextStaffCode` computes in `int`: `MaxInt` wraps around to `-(MaxInt + 1)`.

How they compose: `Inbox`'s `BulkCreate` is followed in the code by one `Publish` of `NotifyHub` per notification;
`Lock`/`Unlock` of `Inbox`, `SetRole` of `Permissions` and `CommitRow` of `Sessions` are commits of `UserAccounts`, left free there, which is more
than `UserAccounts` allows. Rows of `users` and of `user_permissions` are never written by the same transaction except
at the creation of an account, which is `Onboarding`; `CreateUser` of `Permissions` is its outcome.

## 4. What the runs show

| run | instance | question |
|---|---|---|
| `accounts_safety` | 2 accounts (an administrator, an invited one), 3 requests, 9 routes; 2.1 million states | audit rows match commits, success implies commit, avatars exist, forced rotation is kept, fresh writes keep the other columns, bulk actions spare administrators |
| `accounts_links` | 2 accounts, 3 requests: reset links, their use, single and bulk handlers; 0.2 million states | a spent link stays dead; a link reaches its own account; the handlers implement `ResetLinks`; every request is answered |
| `hub` | 2 users, 2 streams, 1 request, 1 notification published up to 3 times, 1 slot, channel of 1, one life of the process; 0.3 million states | slots, own stored events, refinement of `EventFeed`; nothing is closed under a handler in time, shutdown and streams end, late ones included |
| `perms_saves` | 1 account, 2 handlers, 3 declared pairs and the wildcard, 4 inputs | saved matrix is effective, every grant has a source, no token gets back what a save unticked, an answered save is stored or its row was deleted |
| `inbox_safety` | 3 accounts, pages of 2, 1 announcement, 3 requests, 2 texts | audiences, marks, reading times, stale saves |
| `sessions` | 1 account, 4 requests, tokens of 2 s, a clock of 3; 2.9 million states | a logout ends its session and no other, the gate follows the row, a lock ends sessions by expiry |
| `guards` | 1 address, 5 requests, threshold of 3, a window of 2, a ban of 4, burst and eviction of 2, a clock of 5; 0.3 million states | enough hits ban, a ban needs hits, the counter restarts cleanly, logins are limited |
| `onboarding` | 3 requests, 1 local part, 2 suffixes, 2 roles, a made-up and the largest staff code; 0.4 million states | complete accounts, gapless suffixes, real conflicts, free next codes |
| `uploads` | 1 key, 2 uploads, 2 downloads, 2 types, 3 lengths, a URL and copies of 1 s, a clock of 4; 3.2 million states | what is stored was signed, answers are true and of one upload, no copy is older than its life |
| `paging` | 5 rows, pages of 1 and 2 and a limit that is too large, 4 changes; 1.1 million states | which rows a reader can miss or see twice |

Two runs end in a counterexample. Each checks what a comment, a mail or a test of the repository says:

| run | said | what happens |
|---|---|---|
| `accounts_deleted` | `Lock`/`Unlock` refuse a deleted account | a toggle that read before a bulk delete writes the whole row: the status changes and the account is back |
| `onboarding_password` | `InviteUserResponse`: the answer has the temporary password when the mail fails | the server's refusal of the mail's text is read by a deferred `Close` whose error is dropped, and without a mail server address and subject are logged; the answer says sent, nobody has the password |

Seen while modelling, not shown by a run of their own:

* The mail says of a reset link that it can be used only once (`usecase/auth.go:193`). Requests that have looked it up
  before the first of them commits all succeed, one after the other; `ResetLinks` says that this is all (`Admit`, `Use`).
* A save of permissions whose row is deleted between its read and its UPDATE is answered with the matrix, writes its
  audit row and stores nothing (`repository/permission.go:175`): no rows is no error. `SaveIsStored` says that nothing
  else loses a save.
* One open stream makes a shutdown take its 30 seconds, in which no new connection is accepted: handlers of streams end
  with their client or with the hub, and the hub is closed after `Shutdown` (`cmd/api/main.go:116`). The default grace
  period of a `docker stop`, 10 seconds, is shorter, so that what comes after it is not reached.
* A client can be shown a notification again, also after a later one: when the reply of a PUBLISH is lost the Redis
  client sends it once more (`xredis/redis.go:19`). `EventFeed` says that nothing else repeats an event, and that what is
  shown is in the order of the executions.
* A stream whose request was late subscribes to a hub that is closed (`hub.go:77` does not look at `h.done`); it gets a
  slot, its loop ends at once, and its client is told nothing but the end of the stream. While the old loops are
  ending, an account may have up to twice `maxConnsPerUser` subscriptions, as `Close` has cleared the slots.
* When `e.Start` fails, the port being taken, the process logs it and waits for its signal without a listener
  (`cmd/api/main.go:100`).
* "URLs don't collide" (`handler/storage.go:257`) leaves out that an upload URL may be used again for 15 minutes: a viewer
  may then be shown the replaced image for up to an hour. A body without a declared length may exceed the limit by 1024
  bytes.
* `totalPages` divides by the limit that was asked for, the page is cut at 1000 (`pkg/xhttp/response.go:69`,
  `handler/notification.go:38`): with a larger limit the rows after as many smaller pages are never shown. The audit
  log falls back to pages of 50 for a limit over 200 and does not say so (`repository/audit.go:119`); its handler
  announces `meta` and answers `total` (`handler/activity_log.go:29`).
* An avatar change succeeds without an audit row when the audit insert fails (`usecase/user.go:390`), against "every
  mutation recorded in one transaction" of the README of the repository.
* Two overlapping bulk deletes both count an account as changed (`usecase/user.go:693`, against `dto/user.go:148`).
* After a change of role the gate and `GET /permissions/me` differ until the next login (`middleware.go:132`, against
  the comment at `usecase/permission.go:234`): a demoted administrator keeps everything for as long as the token lives,
  and a token of a manager opens those of the manager's defaults that a save made for a staff account does not
  mention. `TokensObeySaves` says that it opens nothing else beyond the save; a manager who becomes staff keeps the defaults of a manager, which
  `Create` stored as explicit grants (`usecase/user.go:109`).
* `POST /user-permissions` answers 409 for an account with a row (against "Idempotent vs. existing row",
  `dto/permission.go:92`).
* `PublishToAll` asks for 10000 accounts and `NewPage` clamps to 1000 (`usecase/notification.go:295`,
  `model/model.go:41`): "all active users" (`domain/usecase/notification.go:63`) are those of the first page.
  `ActiveAreTold` says who they are.
* `xpostgres.MapError` has no caller: the loser of a race on a username is told 500, not 409. Of two overlapping
  invitations of one local part the second fails although its next suffix is free; without a unique index both
  accounts exist under one name.
* `NextStaffCode` answers the bare `ADMIN` as long as no administrator has a number, also when `seed-admin` has given
  it away; a code with the largest `int` makes the next one negative (`usecase/user.go:312`).
* The window of the scan counter is renewed by every hit (`ipban.go:146`): the five hits of "5 scan hits in 10 minutes"
  (`ipban.go:57`) may be spread over most of an hour. A banned address is refused also with a token.
* The package comment says that authenticated traffic is never scored, so that real users are not caught by a mistyped
  URL (`ipban.go:15`). The guard looks at the `Authorization` header only (`ipban.go:92`), and the middleware also
  accepts the session cookie (`middleware.go:181`): a browser that is signed in by cookie sends no header, its hits are
  probes, and enough of them ban its address. `BanNeedsHits` is about requests without the header, whoever sends them.
* Nothing reads the status of an account between its logins: a locked or deleted account keeps its tokens until they
  expire. A request that passes `Verify` in a token's last second may find the key of its revocation gone.

**Bounds.** What interferes in these components is two handlers on one row; the third request of `accounts_safety`
and `inbox_safety` lets a stale writer meet a row that changed twice, the three of `accounts_links` ask for
a link, use it and write a stale row back, or use one link twice. Requests do not return, so a longer history
only repeats these overlaps with more requests; for the safety properties the proofs of section 5 remove the
bound, and the runs are there to find a wrong formula cheaply and to fire every action. One account is enough in `Permissions`, where no action touches two. A channel of one event
and one slot make the full channel and the refused stream frequent. The three executions of the one publication in
`hub` (go-redis sends at most four times) are three events, enough to fill the channel, drop one and forward the next,
before, between and after the openings of both streams; that two notifications can alternate (`n`, `m`, `n` again) is
left to `FeedTheorem`, which holds for any number of both. `PageMax` is 2 against three accounts, so that a page may or may not cut the youngest off. Four requests of `sessions` are two logins (or one and a rotation), a logout and a call after it, and
the clock outruns the lifetime of a token by one second. Five requests of `guards` are the hits of a ban, a late hit
and the first of a new count; the clock covers a ban and what follows it. The threshold is 3 because with 2 a counter below
it holds one hit, which no second hit can have kept alive: what a late hit does to the counter during a ban is only met
from 3 on. In `onboarding` both suffixes can be in
use when a third request arrives; the largest `int` is 3, so that the wrap-around is met. Deadlock checking is off in all runs: requests and streams are handled once, and a
behaviour in which all of them have ended really stops. In `uploads` the second
upload can replace the first before, during and after each download, one of which can leave the copy the other is shown,
and the clock outruns the URL and a copy made at its end; the lengths are within the limit, within what the reader lets
through, and beyond. In `paging` four changes can come before and after each statement of a page, rows that leave and
come back included, and five rows make up to five pages. `SYMMETRY` is used for requests and
texts, in runs without liveness; accounts of `Inbox` are ordered by creation and not symmetric.

**Fairness.** `accounts_links` assumes `WF(Proceed(r))` for each request: a goroutine that can go on does, a statement
that can run does, a lock that is free is granted. It assumes no failure, no client and no expiry. Weak fairness is
enough for lock waiters because the requests of a behaviour are finitely many. `hub` assumes weak fairness of `Main`, the statements of `main()` and the 30 seconds of its
context, but not of `Signal`, which may never come; of
each loop and of the handler's steps that need no client; nothing is assumed of clients, so a write may block for
ever, which is the point of `StreamsEnd`. Go's `select` is random among ready cases; the property needs
it only because notifications are finitely many, so `ctx.Done` is eventually the one ready case.

## 5. What is proved

TLAPS checks these for all values of the constants, under the assumptions named in the modules:
`UserAccountsAssumption`, `PermissionsAssumption`, `InboxAssumption`, `OnboardingAssumption` (which sets are subsets
of which, and that `None` is no id, role, row or save), `SessionsAssumption` (tokens live for a positive number of
seconds), `NotifyHubAssumption` (limits are positive, a command is sent at least once; accounts, streams and notifications are numbered) and
`UploadsAssumption`, and those of the next paragraph. The sets need not be finite, but for the rows of a list, and no
number bounds the requests. Every `TypeCorrect` proves the type
invariant of its module for all instances; the runs leave these invariants out.

Two assumptions say more than what kind of thing a constant is. `AddressGuardsAssumption`: a ban outlasts every chain of
hits below the threshold, `(Threshold - 1) * WindowTTL <= BanDuration`, and an idle bucket is full before it is evicted.
`DefaultConfig` (5 hits, 10 minutes, 24 hours) and `NewIPRateLimiter` satisfy both; `main()` uses no other values. The
first was found by the proof: with a ban that is only as long as the window, `CleanRestart` is false, as requests
scored during the ban renew a counter that holds a hit from before it and was not deleted, past the end of the ban (TLC:
threshold 3, window and ban of 2). `PagingAssumption`: the table is finite, and the size of a page that is cut is not
above the largest.

`UserAccountsProofs`: `TypeCorrect`, `AuditTheorem`, `SuccessTheorem`, `LinkTheorem`, `SpentLinkTheorem`,
`ForcedRotationTheorem`, `AvatarTheorem`. Types are not inductive alone: `Shape` says what the position of a handler
implies of its variables (a handler about to write holds a row and a target, transactional positions belong to
transactional routes). On top of it, `Tokens` ties the key of a reset request and the column of the row to the account
the token was mailed to and to the order of the two writes, `ForceKept` says that every stale row in the memory of a
handler still carries the force flag unless its owner has rotated, `AvatarKept` the same of avatar URLs and stored
objects. These are what makes the whole-row writes harmless for exactly these columns; the proof has one step per
action and the invariants of the four theorems share the same lemmas on rows.

Its second half: `FreshWritesTheorem`, `AdminsTheorem`. Two more invariants: `OneLock`, no two handlers hold
the lock of a row, and `Kept`, the row in the memory of a handler that is not stale differs from the stored one in the
handler's own columns only, and is one its checks have let through. At a commit `Kept` is the property; `OneLock` is why
no other handler can have written the row since it was marked stale.

In the same module `LinksTheorem`, the refinement of `ResetLinks`, one step per action. `Stored` says of a
request for a link that its token is in no row before it was written, and that it has been answered when its token expires; with
`Tokens` and the death of spent links each action maps to one abstract action or to a stutter.

`PermissionsProofs`: `TypeCorrect`, `SavedMatrixTheorem`, `SourceTheorem`, `GateTheorem`, `SaveTheorem`. `Flow` says what a handler
knows when it writes (the role it has read, the id of the row), `Rows` which matrix a row can hold: the cleaned input
of the save still in it, the seed of the account, or nothing. With `CleanedOverDefaults` (layering a cleaned matrix
over the defaults of its role grants what was ticked and nothing else) the first gives `SavedMatrixIsEffective`; with
`CleanedHasASource` and `SeedHasASource` it gives `GrantsHaveASource`; with `CleanedOverOthers`, the same layering over
the defaults of any other role, it gives `TokensObeySaves` for tokens of whatever role the account had at a login. `Tracked` follows the row a handler has read: it is still there under its id, or an answered
delete has taken it; that is `SaveIsStored` at the commit.

`SessionsProofs`: `TypeCorrect`, `OtherSessionsTheorem`, `GateTheorem`, `LogoutTheorem`, `LockTheorem`. The last two
are action properties and need `Inv`, the conjunction of four strengthenings. `Flow` ties the position of a request to
its route, caller and token, and says that the lifetime a logout has computed reaches from its clock to the expiry of
the token. `Logouts` says that the key of an answered logout is in Redis for as long as the token is valid, which is
what `LogoutEndsTheSession` asks of the read in `CheckRevoked`. `Locks` says that a login of a locked account that has
read the row began no later than the lock. `Gates` says that the value the gate would read now is among those it could
have read. No bound on the clock is used but that it goes on.

`ServerLifeProofs`: `TypeCorrect`, `SlotsTheorem`, `DrainTheorem`, `FeedTheorem`. `Stages` ties handler, loop and user of a
stream: no loop before the handler has subscribed, no slot without a user. `Slots` adds to `SlotsAreLiveStreams` that
the slots of an account are a finite set, without which counting them says nothing; a live stream without a slot lost
it to `Close`, which cancelled it. `Closing` is what `main()` has
waited for when it closes something. For the refinement of `EventFeed`, `FeedOnce` says that an execution of a publication is in the feed of
the account of its notification and once, and `Lanes` follows the events of a stream through Redis, channel and client: all of them are
in the feed since the stream was opened, each of the three queues is in the order of the feed, and what is nearer to the
client is earlier. `LaneFeed` and `LaneMoves` prove of the queues alone that publishing, forwarding, dropping and
delivering keep this; `Deliver` is then `Show`, as whatever was shown before stands earlier in a feed without
repetitions.

`InboxProofs`: `TypeCorrect`, `ReadTimeTheorem`, `AllReadTheorem`, `SentTheorem`, `ToldTheorem`, `StaleUpdateTheorem`, all
about steps. `Flight` is what a handler knows of its announcement and of the accounts since it read it (a deleted row it
does not know of is marked in `seen`, the active accounts lie between `always` and `ever`); `Told` that the page it has
picked has everybody it cannot have missed, as the accounts before somebody are at most those that were active at some
time (`EntitledShrinks`, by cardinality); `Due` that a `MarkAllRead` has each notification in its snapshot or read;
`Fresh` that a request publishes once; `Timed` that `read_at` goes with `is_read`.

`OnboardingProofs`: `TypeCorrect`, `CompleteTheorem`, `SuffixTheorem`, `ConflictTheorem`, `NextCodeTheorem`. The
invariants say what a transaction has written at each of its positions, and that the names a loop has passed are taken:
accounts of this component are never renamed or removed. `NextCodeIsFree` needs that the numbers in use have a highest one
(`HighestIsHighest`): they are bounded by the largest `int`, and the naturals are well-founded.

`UploadsProofs`: `TypeCorrect`, `SignedTheorem`, `CurrentTheorem`. An upload carries what its checks have seen of the URL to the
object, and a download or a copy the upload whose headers it has, with the moment that upload was replaced; time only
advances, so that a copy within its life bounds that moment.

`AddressGuardsProofs`: `TypeCorrect`, `EnoughHitsTheorem`, `BanNeedsHitsTheorem`, `CleanRestartTheorem`, `LoginsTheorem`.
`Windows` ties a counter to the history of its address: it is deleted a window after the last hit and never counts more
than one chain of hits. `Guarded` says that a counter at the threshold is deleted with the ban or before it, `Restarts`
the same of a counter below the threshold that has a hit from before the ban, plus one window for each hit it can still
get (`Left`) before it reaches the threshold; this is where the length of a ban enters. For the logins, `Tokens` is the
potential of a bucket: for every moment since which one counts, the logins since then and the tokens left are at most the
burst and the time passed; an address without a bucket has as many tokens as a full one. The sum of the logins is
a function of its last moment; that it exists, grows by one with a login (`SumOfOneMore`) and is zero before it begins
is proved by `TimeInduction`, from the well-foundedness of the naturals.

In `InboxProofs`, which extends `Paging` beside `Inbox` (its specification is called `PagesSpec` for that), for the lists:
`PagingTypeCorrect`, `ShownOnceTheorem`. `RowInserted` and `RowRemoved` say
where every row of a list is after a row has entered or left. `Walked` is the invariant: of the rows that were in the list
all the time, those shown and not overtaken lie in the pages read so far, those not shown and not advanced lie behind
them, and those not raced lie within the total. With `TotalPagesFacts` (the pages of a total hold it) nothing is left
behind the last page, if the limit is one the server does not cut.

Only model-checked: liveness (`EveryRequestAnswered`, `StreamsEnd`, `ShutdownEnds`), which is out of the prover's reach.
Every invariant, every action property and both refinements that a passing run checks are proved.

## 6. What is not modelled

* The filters of lists, binding and validation, DTOs, swagger, logging: no state.
* Settings, health, `ListActors`: single statements whose effect is their own value.
* `xstorage`, `xredis`, `xlogger`, `xexcel`, `xqueue`, `xcrypto`, `xtime`: wrappers of libraries; of `xmail` only
  whether `Send` tells of a lost mail. The worker runs no task and the repository has no migration.
* `Emit` and `EmitToUsers` of the notifications and `Internal` of the middleware: they have no caller.
* Row locks, READ COMMITTED, the unique indexes of `users` and `user_permissions`, the order of Redis pub/sub, the
  retries of go-redis, the expiry of Redis keys and the token bucket of `x/time/rate` are external: they are modelled
  from how the code relies on them.
