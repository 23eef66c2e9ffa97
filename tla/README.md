# SocialPublish: specifications, checks and proofs

TLA+ models of the concurrent and failure-prone parts of SocialPublish, the TLC
runs that check them on small instances, and TLAPS proofs of the theorems that
matter most for every value of the constants. Source paths are relative to the
repository root.

1. [The system](#1-the-system)
2. [The models](#2-the-models)
3. [The runs](#3-the-runs)
4. [The proofs](#4-the-proofs)
5. [What the code does not keep](#5-what-the-code-does-not-keep)
6. [What is not modelled](#6-what-is-not-modelled)
7. [What is left](#7-what-is-left)

To check a run: `tlc -config RateLimit.cfg MCRateLimiter.tla`; to check proofs:
`tlapm RateLimiterProofs.tla`. `PROJECT.json` lists the runs, maps every
definition to the lines it models, and lists the hazards the properties are for.

## 1. The system

| Component | State | Operations | Works with |
|---|---|---|---|
| API handlers (`internal/api/handler`) | none of their own; rows in Postgres | one sequence of SQL statements, Redis calls and remote calls per request, with no transaction around it | Postgres, the task queue, object storage |
| Rate limiter (`internal/api/middleware`) | one Redis counter per workspace | INCR, then EXPIRE when the count is 1, then a decision | Redis, shared by all API replicas |
| Task queue (asynq, `internal/queue`) | tasks in Redis | enqueue; deliver at least once; retry with a limit; archive | handlers enqueue, workers consume |
| Publish worker (`internal/worker/publish.go`) | `post_targets` rows | read target, account and token; call the platform; record; store the event; enqueue the delivery | Postgres, a `PlatformAdapter`, the queue |
| Webhook worker (`internal/worker/webhook.go`) | `webhook_deliveries` rows | list endpoints and pending rows, POST each, mark | Postgres, the customers' endpoints |
| Media API and transcode worker (`handler/media.go`, `worker/transcode.go`, `internal/ffmpeg`) | `media` rows, objects in the bucket, output files | insert and presign; delete object, then row; run ffmpeg, then mark | Postgres, S3, the client through presigned URLs |
| Account API, refresh and analytics workers (`handler/account.go`, `worker/refresh.go`, `worker/analytics.go`) | `accounts`, `encrypted_tokens`, `analytics_snapshots` rows | save a token, then point the account at it; fetch metrics, then record them | Postgres, a `PlatformAdapter` |
| SDK transport (`sdk/transport.go`) | one call's loop variables | send, wait, retry, give up | the API, over HTTP |
| SDK iterator (`sdk/pagination.go`) | cursor and page buffer | `Next` | `postStore.List` through the API |
| SDK post builder (`sdk/services/post`) | the request under construction, sub-builders, errors | setters, `Done`, `Build`; `Create` marshals and sends | the transport, and `Post.Create` behind it |
| SDK webhook router (`sdk/webhook.go`) | none | verify a signature, dispatch | |

Components interact through Postgres rows, Redis tasks and counters, and HTTP;
inside one server process they share nothing that changes; in the SDK, a request
shares maps and configurations with its builder. The hard behaviours follow:

- **no transactions**: a handler or worker may stop, or lose a connection,
  between any two statements, and others act in between;
- **at-least-once delivery**: a task runs again after a failure, a lost lease or
  a shutdown, concurrently with its previous run if the lease expired;
- **an answer may be lost** after the other side acted: the platform, the
  customer's endpoint, Redis, Postgres, and the API seen from the SDK;
- **time**: leases, retry timers, Retry-After, the life of the counter;
- **order**: rows sorted by one key and paged by another.

What makes each component correct:

- *publishing*: a row shows only a post that is public; an event is only sent
  for a post that is recorded; a completed task has recorded; a second post only
  when the first was not heard of; what a failing run may overwrite; every task settles;
- *webhooks*: a recorded answer was given, for that delivery; a task completes
  only if everything it sent was accepted; nothing is sent again without need;
  everything stored is sent in the end, unless its task gave it up;
- *rate limit*: no window lets through more than the budget; the counter goes
  away;
- *SDK call*: nil means done; what is acknowledged is not repeated; the call
  returns;
- *pages*: a walk ends; it repeats or misses a post only where IDs and ages disagree;
- *media*: row and object go together; a ready row names a whole file; the status is
  that of the tasks;
- *tokens*: an account shows the newest token of its user; a poll leaves one snapshot;
- *post creation*: what `Build` accepted is what is stored, once or several times, whole
  or, after a failed INSERT, its beginning.

## 2. The models

One action is one SQL statement, one Redis command, one message or one step of a pure
computation with the assignments around it. Faults are separate actions, never fair. A
run of a task may end early in two ways, in all four models of workers: it is lost (a
crash, an expired lease, a context that is done), which counts as a retry, or asynq's
graceful shutdown, which waits 8 seconds for it, hands it back without counting one.
`MaxRequeues` bounds the second. Handlers' parameters, codes and times come from small
sets.

### PublishPipeline (and PublishContract)

`handler/post.go`, `worker/publish.go`, the statements of `store/postgres.go` they
use, the foreign keys of `migrations/`, and the queue as the two use it.

| Variable | Stands for |
|---|---|
| `posts`, `targets`, `accounts` | the rows; `targets[t]` has the status, the platform post ID and whether a failure reason is set |
| `reqs` | the Create or Publish request each client has in flight: which statement is next and which targets are left |
| `jobs` | `post:publish` tasks: which step of `ProcessTask` is next, retries used, runs so far |
| `inflight`, `live` | attempts the platform has received; attempts that became public posts |
| `announced`, `kicked` | attempts with `post.published` rows; attempts whose `webhook:deliver` task was enqueued |
| `unacked`, `requeues` | history: attempts whose outcome was never heard; a bound |

An attempt `<<t, j, n>>` (target, task, run) also stands for the platform post ID
it produces, so that two posts are never confused. `WorkerStep` is `ProcessTask`
from `GetTarget` to `EnqueueDeliver`; `WorkerFault` is everything that ends a run
early. A run that returns an error goes through `Retry`; `SkipRetry` archives.
`LeaseExpires` and `ShutdownRequeues` hand a task back from any step: the platform
may still act on the attempt later (`inflight` keeps it), but the goroutine of the
lost run is taken to take no further step of its own. `Duplicate` is one action: its
read and its INSERT touch rows nobody else changes in a way it could notice.
`OverwriteExplained` is about the `status` column, which a failing run may set to
`failed` after another had recorded a post: only a run of another task, or a later run
of a task whose success went unheard, does so.

`NullScan` chooses how rows are read. `FALSE` is what pgx does with the code's
struct fields: `platform_post_id`, `permalink` and `failure_reason` are NULL in a
fresh row and cannot be scanned into `string`. `TRUE` is what the `PostStore`
interface promises and what the handlers are written for. With `FALSE` nothing is
ever published (section 5), so the other runs use `TRUE`; the proofs cover both.

`PublishContract` is what a user of the pipeline may rely on: posts become public
and stay so; a task makes a second post, for the same target, only after attempts whose
outcome was lost; a row shows only public posts made for it and stops showing one only
by being deleted; announcements are about public posts whose row shows a post.
`PublishPipeline` implements it under the mapping `record` = the rows' platform post
IDs, `gone` = the deleted targets, `unheard` = `unacked`.

### WebhookDelivery (and DeliveryContract)

`worker/webhook.go`, `EnqueueDelivery`, `ListPendingDeliveries` and `MarkDelivered` of
`store/postgres.go`, and the producers (`publishHandler`, and `Webhook.Test`). Rows are
pairs of an event and an endpoint. A task is named by the event whose producer enqueued
it but works on whatever is pending in the workspace, as in the code. One workspace is
modelled because every statement is restricted to one. Endpoints are taken in any order
(the query has none); `RowOrder` gives rows the order of their random IDs. `answers`,
`unmarked` and a task's `passed` are history: every answer given to a request, those
`MarkDelivered` never recorded, and the endpoints a run passed over after a swallowed
error. `GivenUp` says when the task of an event has given a delivery up. The secret's
token is saved before the endpoint's row, so `Decrypt` fails only when the database
does.

`DeliveryContract` is what an endpoint's owner sees: the deliveries of an event are stored
once and together; an answer is given only for what is stored; a row records only a code
that was given for it and stays recorded; the deliveries of a deleted endpoint go and
never come back. Tasks, runs, batches and overlaps are not in it. `WebhookDelivery`
implements it with `given` = the requests of `answers` that were answered.

### RateLimiter

`RedisRateLimiter.Allow` behind the `RateLimit` middleware, on any number of
replicas. The counter has a *life* from the INCR that creates it to its expiry.
`IncrRepeated` is go-redis repeating a command whose answer it did not get, in one
step; requests that fail open are not counted. A request uses the limit of the plan it
read: `middleware/tenant.go` loads the workspace's row, whose plan may change between two
requests, and keeps `free` when it cannot (`Limits` are the limits of `PlanLimits`).
Time advances in ticks up to `MaxTime`.

### SdkTransport

One call of `DoJSON`, for any integer `MaxRetries` (`WithMaxRetries` checks nothing):
with a negative one the loop is not entered and nil comes back without a request, the
exception `OkMeansDone` names. `attempt` is the loop variable, `wait`, `asked` and
`slept` the timer. The server keeps `inflight` requests and may handle each at any time,
even after the client has given up on it; `effects` are the attempts that changed
something. A 5xx comes before or after the effect, since `Post.Create` answers 500 when
a target cannot be stored, with the post already there. `Overflow` is the first duration
an int64 cannot hold: what the conversion of a float beyond it yields depends on the
processor, so the model allows a timer that fires at once and one capped at the maximum.

### Pagination

`Iter.Next` over `postStore.List`. A post is its ID; `at` is its creation time, and
two posts are never created at the same instant. A page is computed the way the query
says: IDs below the cursor, newest first, `Limit + 1` of them. `FetchCutShort` is a
connection that breaks in the loop over the rows. IDs are random, so no order of them is
assumed. The answer is decoded: the server sends `data` and `next_cursor`, and the SDK's
page type, which reads `items` and `has_more`, keeps the cursor only. `reader` is `"sdk"`
for a walk over `post.Service.List`, or `"own"` for a program that gives `Iter` (a public
type) a fetch function that reads the server's fields.

### MediaLifecycle

`handler/media.go`, `S3Storage`, `worker/transcode.go`, `ffmpeg.Runner` and the media
statements. A task stands for its preset and its output path; nothing in the
repository enqueues `media:transcode`, so a task comes into being once a client can
know the medium's ID. `objects` are the originals in the bucket, `urls` the presigned
URLs still good, `whole` the tasks whose output is complete. `purged`, `strays`,
`halfway` and `unmarked` are history: which originals were deleted, put again or not
deleted, which `Delete`s stopped between object and row, and which tasks ended
without having written a status. `FfmpegTimesOut` is the task's own deadline (asynq's
default of 30 minutes), which comes before the 30 minutes `Transcode` starts later:
`MarkFailed` is then called with a context that is done. When a worker dies or shuts down,
its ffmpeg process is taken to die with it.

### AccountTokens

`Connect` and `Delete` of `handler/account.go`, `worker/refresh.go` and
`worker/analytics.go`. A token is the number under which the platform issued it to a
user, so "newest" is "greatest"; `Revokes` says whether a new token ends the older
ones. A row of `accounts` shows a token through `token_id`; rows of `encrypted_tokens`
are never deleted and carry nothing else. `stranded` and `overlapped` are history: tokens
whose holder failed, was refused, or whose row was deleted, and users two of whose refreshes
held a token at a time. `broken` has the polls that met a fault or no adapter; `snapshots`
and `unheard` count a poll's rows, and the INSERTs among them whose run saw an error.
The refresh token is the payload's in every run: a new one the platform returns is
dropped by the code.

### PostCreation

`sdk/services/post` and both ends of `POST /v1/posts`, `PATCH` included. `structs` is
the memory: address 0 is the builder's own request, `Build` copies it to a free address.
What the copy points to stays shared, and that is the point of the model: the metadata
map (`writes` counts the writes to it) and the configuration inside a sub-builder. A
target is the sub-builder it points into. A configuration is the count of setters called
on it, `AsReel` and its like among them. `flight` are requests under way, `posts` the
rows; a row remembers the call and the attempt it came from. The server inserts the post
and then its targets one by one (`rest`); at the first failure it answers 500 and leaves
the post with the targets so far (`cut`), and the SDK sends the request again.
`metadata` of a row is the JSON type of the column: `null`, an object, or the array that
`null || object` makes. The builder's methods are not called in parallel with each other
or with the marshalling: the code has no locks, so that is the program's duty.

## 3. The runs

| Run | Instance | Distinct states | Asks |
|---|---|---|---|
| `publish_one_target` | 2 posts, 1 target, 2 tasks, 1 client, 1 retry, every fault | 2.07 million | what rows, completed tasks and public posts agree on; which runs overwrite which; the refinement of `PublishContract` |
| `publish_two_targets` | 1 post, 2 targets (one without adapter), 2 accounts, 1 task, 1 retry, 1 requeue, every fault | 74 thousand | no task is free to go round; its posts are bounded by its runs; every task settles |
| `publish_null_scan` | no faults | | one statement of the documentation (section 5) |
| `webhook_two_endpoints` | 1 event, 2 endpoints, 1 retry, 1 requeue, 1 outage, every fault | 366 thousand | a completed task was refused nothing; a run gets shorter with every step; the refinement of `DeliveryContract` |
| `webhook_liveness` | 2 events and tasks, 1 endpoint, 1 retry, 1 requeue, swallowed errors | 452 thousand | recorded answers were given; no needless repetition; every stored delivery is sent, or its task gave it up |
| `webhook_not_accepted` | no faults | | one statement of the documentation |
| `rate_limit` | 4 requests, plans of 1 and 2 a minute, 2 ticks to the minute, 4 ticks, every fault | 4.82 million | the budget, and the counter's expiry |
| `sdk_call` | 3 retries, backoff 2, then 3 (the maximum), then overflow, Retry-After 0 or 5 | 16 thousand | what a call repeats, waits for and returns, and that it never goes back without using up an attempt |
| `page_walk` | 5 posts in every order of IDs, pages of 2, both readers | 518 thousand | a walk gets nearer to its end with every call; what it may repeat and miss |
| `media_transcode` | 1 medium, 2 presets, 2 clients, 1 retry, 1 requeue, every fault | 1.12 million | row, bucket and files agree up to the faults that explain why not; every task ends |
| `account_tokens` | 1 user, 2 account rows, 2 refreshes, 1 poll, 1 retry, 1 requeue, 3 tokens, tokens revoked by newer ones, every fault | 1.47 million | the newest token is shown or accounted for, and no row goes back to an older one; one snapshot per poll; every task ends |
| `post_creation` | 2 sub-builders, 2 targets, 1 build, 1 `Create`, 1 retry | 1.75 million | what `Build` returned stays valid and as it was; the posts of a call differ by targets that failed to be stored only |

**Why the bounds are enough.** Each property names at most two actors and two rows.
*Publishing*: two tasks for one target are the smallest overlap; a retry gives each a
second run; the spare post lets `Duplicate` interleave; requeues, which repeat a run in
the same way, are in `publish_two_targets`. The number of tasks is bounded by `JobIds`,
retries by `MaxRetry`, shutdowns by `MaxRequeues`; the safety properties do not depend
on any of them (they are proved for all). *Webhooks*: an error must survive from one
endpoint to the next (two endpoints), and two tasks must meet on one row (two events, in
`webhook_liveness`). *Rate limit*: the clock begins anywhere in a minute of two ticks
and runs to a second life; with a limit of two, one minute then serves three requests of
two lives, the most there can be, and with a limit of one a life is exceeded. *SDK*:
three retries are the default, and reach the first wait, the maximum and the overflow.
*Pages*: five posts and pages of two give three pages, and every exception of the two
invariants occurs. *Media*: two presets are the smallest order of finishing, two clients
the smallest overlap of `Delete`s. *Tokens*: two refreshes overlap, and a second account
row lets the user connect again. *Post creation*: one build with the builder going on,
and a second attempt of the same call, are what shared maps and late arrivals need; the
proofs cover any number.

**Fairness.** Weak fairness of each handler's and each worker's next step: a goroutine
that can run is scheduled by the Go runtime, and asynq polls its queue. A platform or
endpoint that was asked answers, or the client's timeout ends the wait (`webhook.go`
sets 10 seconds; asynq bounds a run). In `SdkTransport` the client's step includes
losing the answer only when there is a timeout or the context is done; `newTransport`
always sets one unless it is configured to zero. Nobody is obliged to send requests, and
no fault is fair. In `MediaLifecycle` and `AccountTokens` the fair steps are the
workers' alone: a client may leave its request where it is. `EventuallySent` further
needs that one run reads all rows (`Batch`): the code gives no guarantee without it, and
the run states it as a constant. A task that swallowed an error or used up its retries
has given its deliveries up (`GivenUp`), and so has a producer whose `Enqueue` failed.
`TranscodesSettle` and `RefreshesSettle` say that a task is absent or settled again and
again, `TasksSettle` that a pending one settles.

Deadlock is not checked: in every instance all requests and tasks may come to an end.

## 4. The proofs

| Module | Theorems | From |
|---|---|---|
| `PublishProofs` | `TypeCorrect`; `RowsShowPublicPosts`, `EventsFollowRecords`, `CompletedTasksRecorded`, `RetriesOnlyWhenUnheard`, `UnrecordedPostsExplained`, `OverwritesAccounted`; `NoFreeRetries`, `FewPosts`; `Implements` | `Inductive`, `AllRunsPaid` |
| `WebhookProofs` | `WebhookTypeCorrect`, `StatusesWereAnswered`, `CompletedRunsAccepted`, `NoNeedlessResend`; `NoFreeRuns`; `DeliveryImplements` | `WebhookInductive`, `RunsInductive` |
| `RateLimiterProofs` | `TypeCorrect`, `BudgetKept`, `OnlyLostExpiriesStick`, `TwiceAMinute` | `RateLimiterInductive`, `ApartInductive`, `FirstApartInductive` |
| `SdkTransportProofs` | `TypeCorrect`, `OkIsDone`, `NoAcknowledgedRepeat`, `WaitsBetweenAttempts`; `NoWayBack` | `CallInductive`, `TimerInductive` |
| `PaginationProofs` | `TypeCorrect`, `RepeatsAreInversions`, `MissesAreInversions`; `Descent` | `WalkInductive`, `CoverInductive` |
| `MediaProofs` | `TypeCorrect`, `BucketAgreement`, `ReadyMeansWhole`, `StatusFromTasks`; `NoFreeRuns` | `Invariance` |
| `AccountTokensProofs` | `TypeCorrect`, `NewestTokenAccounted`, `SnapshotsAccounted`, `NeverBackToOlder`; `NoFreeRuns` | `Invariance` |
| `PostCreationProofs` | `TypeCorrect`, `BuiltStaysValid`, `RequestsKept`, `SentAlike`, `UnreadableAccounted` | `Invariance` |

The only assumptions are the named `ASSUME`s on the constants, which TLC evaluates in
every run; they describe the program's parameters. The number of posts, targets, tasks,
retries, requests, replicas, endpoints and pages is arbitrary. The type invariants, and
`AnnouncedMeansRecorded`, are in no run: they are proved for every instance.

**Progress.** Liveness under fairness, and ENABLED, are beyond this prover; the runs
check them. What the proofs give instead is the part of the argument that does not
mention fairness: a measure that no step can turn back, whoever takes it. A task of any
kind, and a call of the SDK, moves on in its run or uses up one of its limited retries
or, for a task, one of the runs that shutdowns hand back (`MaxRequeues`, a bound of the
model: asynq has none, and a pool that is shut down for ever settles nothing):
`NoFreeRetries`, `NoFreeRuns` (three times) and `NoWayBack`. `TasksAdvance` of
`MediaLifecycle` and `AccountTokens` is in no run. A run of the webhook worker has loops
of its own, so its measure is lexicographic: endpoints left, deliveries left of the
batch, the steps of one delivery; rows that other producers insert do not lengthen it.
For a walk over pages it is the cursor (`Descent`). With the weak fairness stated above,
which says that a step that can be taken is taken, such a measure is why `TasksSettle`,
`EventuallySent`, `CallReturns`, `WalkEnds`, `TranscodesSettle` and `RefreshesSettle`
hold.

**PublishProofs.** No safety property is inductive alone. `IInv` adds, by part:
`RequestInv` and `OneCreator` (a post that is being created has one request, whose
remaining targets have no rows yet); `RowInv` (a post has no rows before it exists, and
a missing row shows no platform ID); `TaskInv` (where a task stands determines what its
row shows: from the platform's success to the task's end its attempt is live, and from
`announce` on the row is recorded); `AttemptInv` (an attempt in flight or live belongs
to a run that has started, and unless it is in `unacked` it is the task's current one
and the task waits, has heard of its success, or is settled). The invariants themselves
(`PublishedMeansLive`, `AnnouncedMeansRecorded`) are the remaining conjuncts.
`OverwriteExplained` needs one more, `RecordersGoOn`: a task whose current run recorded
the post a row shows is past recording, so this run no longer fails. The refinement
needs `IInv`: `RecordPublished` maps to `Record` only because the attempt is live,
`Announce` only because the row shows a post, and `AdapterSucceeds` to `GoLive` only
because `HeardOnce` leaves every earlier attempt of the task unheard. `FewPosts` counts:
by `RunsPaid` a task has had at most as many runs as retries and requeues, and one more;
its attempts are numbered by run, from 1 (`AttemptsNumbered`), so its public posts map
one to one into an interval of that size.

**WebhookProofs.** `ResentOnlyIfUnmarked` rests on `AnswersKept` (an answer is in its
row, in the hands of the run about to record it, unmarked, or the row is gone) and
`BatchFresh` (a batch read from the pending rows holds no delivery whose earlier answer
was kept), and, for a single run, on `RunInv` (what a run has asked for has left its
batch and its endpoints, so it does not come up again). `SuccessMeansAccepted` rests on
`RunsAndErrors`: a run with a bad answer carries an error to its end. The refinement
needs `IInv` for `Mark`: the code it writes is one that was given for that very
delivery, and a row that is gone is not written.

**RateLimiterProofs.** The requests counted in one life have different counts
(`CountsDiffer`) within the key's count (`CountsInOrder`), and those served have one of
at most `Limit`; so there are at most `Limit` of them. `Apart` adds the clock: two
requests whose lives are not neighbours are a minute apart, because the life between
them lasted one. `FirstApart` says the same of the first request of a life and the
requests of the next. A minute therefore holds requests of two lives at most, and if of
two, without the first of the earlier: less than twice the budget. A plan enters through
its limit: those who read a plan of `n` or less have counts of `n` at most.

**SdkTransportProofs.** That a power of two is positive, which the doubled backoff
needs, is read off the number of subsets of a finite set (`PowersArePositive`).
`Ordered`: an attempt that the server knows is not in the future, and if it is in the
past its answer was lost or said 5xx. `Stage`: what each point of the loop knows of the
current attempt. `TimerInv` carries the pause from the answer that set it, over the
wait, to the next request; only a context that is done cuts a wait short, and then
nothing is sent.

**PaginationProofs.** `AboveCursor`: an item that was returned and lies below the cursor
has an older one with a larger ID among what was returned, because the cursor is the
oldest of its page. So what comes twice has such a one beside it. `Covered` is the
converse: what was there throughout is returned, buffered, below the cursor, or has a
newer one with a smaller ID among what was returned. It rests on two facts about pages.
A limit that leaves rows out is reached (`LimitIsReached`: take the newest row left out,
found by the well-foundedness of strict inclusion; all before it are on the page), so a
page that does not name a successor is everything that matched. And a row that is not on
a trimmed page is older than its last item (`NothingSkipped`). `Numbered`, that creation
times differ, bounds a trimmed page by `Limit`; `SdkSeesNothing` is the walk through the
SDK's page.

**MediaProofs.** `BucketInv` says what is known of an original while its row exists (a
purged original is in the hands of a `Delete` about to remove the row, or its `Delete`
stopped halfway); `WorkInv` that a run about to mark its medium ready has written its
output, and that a row names an output of its own medium. `StatusIsEarned` and
`ReadyIsWhole` are then inductive; the work is in the steps of one task keeping what
the status says of the others.

**AccountTokensProofs.** `Issued`: whatever is shown or in hand was issued, and a user
has one live row. `HeldIsNewer`: without overlap one refresh of a user holds a token,
and a newer one than its row shows, so its UPDATE never goes back (`NeverBackToOlder`).
`NewestOf` states `NewestAccounted` for users without a row as well, because a Connect
makes a new row visible. A token in a poll's payload was issued (`PollInv`), so one that
is not the newest stays so.

**PostCreationProofs.** `BuilderInv`: an empty account leaves an error behind, so `Build`
cannot return a target without account. `CallInv`, `FlightInv` and `PostInv` carry the
body from the request, which no setter can reach any more, to the row, whose targets and
`rest` are together those of the body until one fails; so the targets of two posts of a
call begin alike. Nothing is said about configurations or metadata values, which may
change between two calls.

**Only model-checked**: the liveness properties (`TasksSettle`, `EventuallySent`,
`CallReturns`, `WalkEnds`, `TranscodesSettle`, `RefreshesSettle`), which are beyond this
prover. Every invariant, action property and refinement of the runs is proved.

## 5. What the code does not keep

Checked, each by a run that TLC finds violated:

- `TargetsAreQueued`: `ListTargets` (and `GetTarget`) cannot read the NULL columns of a
  fresh row, so Publish answers 500 and leaves the post `publishing`.
- `DeliveredMeansAccepted`: a refused delivery is marked delivered; the retry its error
  asks for finds nothing to send.

Bounded by a property of a passing run:

- `redis_ratelimit.go:11` says "sliding-window", but the window is fixed: a minute around
  the end of a life lets through up to twice the limit less one. `rate_limit` reaches three
  under a limit of two, and `AtMostTwiceAMinute` says that it is never more.
- `pagination.go:15` says that `Iter` walks all pages, but the server's list answers are
  `{"data", "next_cursor"}` and the SDK's pages read `items` and `has_more`: the walk ends
  at its first `Next` with no error and no post. `MissesExplained` names the case. A
  reader of the server's own fields still compares a random ID with a cursor while the page
  is sorted by time: with posts of IDs 5, 9 and 2, created in that order, and pages of one,
  the walk returns 2 and ends.

Seen while modelling, without a run of their own:

- Cancel writes `posts.status`, which the worker never reads: queued tasks publish the
  post all the same, although `sdk/services/post/types.go:57` says that publishing was
  cancelled.
- Nothing sets `posts.status` to `published`, which `types.go:53` says indicates that all
  publish work is complete: a post stays `publishing`.
- `X-RateLimit-Reset` (`redis_ratelimit.go:25`) is the next full minute of the clock, but
  the counter lives a minute from its first request: a client that waits for it may be
  refused again, by the same counter.
- A row that shows a post can be set to `failed` by a run of another task, or by a later
  run whose earlier one was lost; the post ID stays. `OverwriteExplained` says when;
  `PublishedMeansLive` and the contract are stated on the ID for that reason.
- `Post.Create` answers 500 with the post and some of its targets stored when a
  `CreateTarget` fails; the SDK retries, so one call may leave several posts, with different
  targets (`SentAsBuilt` bounds the difference).
- `Post.Publish` drops the error of `Enqueue`: it answers 202 with no task behind it,
  and the post stays `publishing`. Nothing starts a `scheduled` post.
- `webhook.go` logs an error of `ListPendingDeliveries` or `Decrypt` and goes on: the
  task completes and the deliveries wait for the next event. Beyond 50 pending rows
  per endpoint the rest waits too, and overlapping tasks read the same 50. The
  `events` filter of an endpoint is stored but not applied.
- A rate counter whose EXPIRE is lost, or whose first INCR was repeated, never
  expires, and the workspace is refused until someone deletes the key: `CounterExpires`
  shows that these are the only ways.
- `WithMaxRetries` speaks of 429 and 5xx, but network errors are retried as well, for
  POST too: one `Create` may make several posts. With a negative number of retries no
  request is sent and nil is returned (`OkMeansDone` names the case). From attempt 35 on
  (500 ms doubled) the backoff overflows, and on amd64 the client does not wait at all.
- All tasks go to asynq's `default` queue; the README's priorities have no effect.
- `media.thumbnail_key` and `error_message` are NULL in a fresh row and are scanned into
  strings: Get, List and Delete of a fresh medium fail. `MarkReady` replaces the formats
  and blanks a thumbnail set before it; an error message is never cleared.
- A new refresh token is dropped, and a retry uses the payload's; `token_healthy` is never
  set to false; `encrypted_tokens` grows for ever. Connecting an account that is connected
  already is refused after its new token was saved: where the platform revokes the older
  one, the account is left with a dead token (`stranded`).
- The token named in an `analytics:poll` payload is not looked up again: after a refresh
  on a platform that revokes, every retry is refused.
- The server's `createPostRequest` has no `publish_immediately` and no `instagram` or
  `youtube` configuration: what the builder collects there is dropped, and a post built
  with `PublishNow` is a draft. The SDK reads `post_id` and other fields the server does
  not send.
- `Done` called twice adds two targets that share a configuration; an `As...` after `Done`
  changes targets already added; a target without any `As...` has an empty format, which
  `Build` accepts. The minute ahead is checked when `ScheduleAt` is called, not when the
  post is sent.
- A post created without metadata has a JSON `null` there, and the first PATCH turns it
  into an array, which cannot be scanned again: Get, List and Duplicate of it fail.
  `Update(nil)` of the SDK sends `null` and does the same to any post.
- `worker.Pool.Run` calls `Shutdown` when the context ends, while `asynq.Server.Run`
  does the same on the same signal; whichever is second returns at once, so the
  process may exit with runs in progress. The models treat it as a crash.

## 6. What is not modelled

- **Authentication, tenancy, request IDs, logging, CORS, JSON**: one or two reads and the
  request's context; no state of their own. The plan that tenancy reads is the limit a
  request of `RateLimiter` has.
- **Reads**: Get and List of every resource but posts, the schedule and analytics
  queries. Nothing in them can leave the system in another state. No code starts a
  scheduled post when its time comes.
- **Platform adapters**: skeletons that call nothing. The models take the adapter to be
  whatever `PlatformAdapter` allows.
- **Server and pool lifecycle**: signals and shutdown are the library's; what they do to a
  run (lose it, or hand it back) is a fault of each model of a worker.
- **`WithMaxRetries(math.MaxInt)`**: `maxRetries + 1` overflows; `MaxRetries` is any
  integer below it.
- **SDK webhook verification** (`sdk/webhook.go`): an HMAC, a parser and a tolerance of
  the clock, pure functions with nothing between two calls.
- **Token encryption, configuration, migrations, deployment**: computations and start-up
  code; the schema's keys and cascades are in the models that depend on them.
- **Asynq's concurrency limit and queue weights**: every enabled task step may come next,
  which includes what any limit allows.

## 7. What is left

- A composition of publishing and webhooks through `announced` and `kicked`. Both sides of
  that interface are in the models already (`PublishPipeline` stores the events and
  enqueues the task, `WebhookDelivery` starts from there); the product of the two state
  spaces is beyond what TLC checks in minutes.
- When a producer of transcode, refresh or poll tasks is added to the code, `Enqueue`,
  `EnqueueRefresh` and `EnqueuePoll` should be replaced by what it does, and the
  assumptions about their payloads with them.
