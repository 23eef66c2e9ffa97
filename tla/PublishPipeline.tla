-------------------------- MODULE PublishPipeline --------------------------
(***************************************************************************)
(* The path a post takes from the API to a social platform.                *)
(*                                                                         *)
(*   API replica   handlers of internal/api/handler/post.go, each a        *)
(*                 sequence of SQL statements and Redis calls;             *)
(*   Postgres      the rows of posts, post_targets and accounts;           *)
(*   asynq         one task per accepted Enqueue, delivered at least once; *)
(*   worker        publishHandler.ProcessTask of internal/worker/publish.go*)
(*   platform      the remote side of PlatformAdapter.Publish.             *)
(*                                                                         *)
(* One action is one SQL statement, one Redis call or one message to or    *)
(* from the platform, so every interleaving the deployment can produce is  *)
(* a behaviour.  An attempt <<t, j, n>> is the n-th run of task j calling  *)
(* the adapter for target t; it stands for the platform post ID that call  *)
(* creates.                                                                *)
(***************************************************************************)
EXTENDS Naturals, FiniteSets

CONSTANTS
  Posts, Targets, Accounts, Clients, JobIds, Platforms,
  PostOf, AccountOf, PlatformOf,  \* what the create request says of a target
  Registered,    \* the platforms platform.NewRegistry was given
  NullScan,      \* TRUE: a NULL column is read as ""; FALSE: as a scan error
  Faults,        \* TRUE: SQL and Redis calls may fail, runs may be cut short
  MaxRetry,      \* asynq's retry limit of a task
  MaxRequeues,   \* bound on the runs handed back by worker shutdowns
  Null           \* no platform post ID

ASSUME ConstantsAssumption ==
  /\ PostOf \in [Targets -> Posts]
  /\ AccountOf \in [Targets -> Accounts]
  /\ PlatformOf \in [Targets -> Platforms]
  /\ Registered \subseteq Platforms
  /\ NullScan \in BOOLEAN
  /\ Faults \in BOOLEAN
  /\ MaxRetry \in Nat
  /\ MaxRequeues \in Nat

Attempt == Targets \X JobIds \X Nat

ASSUME NullAssumption == Null \notin Attempt

VARIABLES
  posts,      \* posts.status, with "absent" before the INSERT and "deleted"
  targets,    \* post_targets rows
  accounts,   \* connected accounts
  reqs,       \* the API request each client has in flight
  jobs,       \* post:publish tasks and where their current run stands
  inflight,   \* attempts the platform has received and not decided
  live,       \* attempts that became a public post
  announced,  \* attempts with post.published rows in webhook_deliveries
  kicked,     \* attempts whose webhook:deliver task was enqueued
  unacked,    \* attempts whose outcome never reached the end of their run
  requeues    \* runs handed back so far

vars == <<posts, targets, accounts, reqs, jobs, inflight, live, announced,
          kicked, unacked, requeues>>
db == <<posts, targets, accounts>>
outside == <<inflight, live>>
outbox == <<announced, kicked>>

-----------------------------------------------------------------------------
PostStatus == {"draft", "scheduled", "publishing", "cancelled"}
RowStatus == {"pending", "failed", "published"}

Row == [status : RowStatus \cup {"absent", "deleted"},
        ppid : Attempt \cup {Null},
        reason : BOOLEAN]

NoRow(s) == [status |-> s, ppid |-> Null, reason |-> FALSE]

BeforeCall == {"getTarget", "getAccount", "adapter"}
AfterCall == {"await", "markFailed", "record", "announce", "deliver"}
Running == BeforeCall \cup AfterCall
Settled == {"done", "archived"}

Job == [pc : {"absent", "pending"} \cup Running \cup Settled,
        target : Targets \cup {Null},
        retried : Nat,
        run : Nat]

Request == [pc : {"idle", "createTargets", "listTargets", "enqueue"},
            post : Posts \cup {Null},
            todo : SUBSET Targets]

Idle == [pc |-> "idle", post |-> Null, todo |-> {}]

PostExists(p) == posts[p] \in PostStatus
RowExists(t) == targets[t].status \in RowStatus
RowsOf(p) == {t \in Targets : PostOf[t] = p /\ RowExists(t)}

\* pgx refuses a NULL platform_post_id, permalink or failure_reason: the
\* fields of store.PostTarget they are scanned into are plain strings.
Readable(t) == NullScan \/ (targets[t].ppid # Null /\ targets[t].reason)

TypeOK ==
  /\ posts \in [Posts -> PostStatus \cup {"absent", "deleted"}]
  /\ targets \in [Targets -> Row]
  /\ accounts \in SUBSET Accounts
  /\ reqs \in [Clients -> Request]
  /\ jobs \in [JobIds -> Job]
  /\ inflight \in SUBSET Attempt
  /\ live \in SUBSET Attempt
  /\ announced \in SUBSET Attempt
  /\ kicked \in SUBSET Attempt
  /\ unacked \in SUBSET Attempt
  /\ requeues \in Nat

Init ==
  /\ posts = [p \in Posts |-> "absent"]
  /\ targets = [t \in Targets |-> NoRow("absent")]
  /\ accounts = Accounts
  /\ reqs = [c \in Clients |-> Idle]
  /\ jobs = [j \in JobIds |->
               [pc |-> "absent", target |-> Null, retried |-> 0, run |-> 0]]
  /\ inflight = {}
  /\ live = {}
  /\ announced = {}
  /\ kicked = {}
  /\ unacked = {}
  /\ requeues = 0

-----------------------------------------------------------------------------
(* API handlers                                                            *)

UnchangedWorker == UNCHANGED <<jobs, outside, outbox, unacked, requeues>>

\* POST /v1/posts: the posts row; one target row per requested target follows.
CreatePost(c, p, ts, s) ==
  /\ reqs[c].pc = "idle"
  /\ posts[p] = "absent"
  /\ ts \subseteq {t \in Targets : PostOf[t] = p}
  /\ posts' = [posts EXCEPT ![p] = s]
  /\ reqs' = [reqs EXCEPT ![c] =
                IF ts = {} THEN Idle
                ELSE [pc |-> "createTargets", post |-> p, todo |-> ts]]
  /\ UNCHANGED <<targets, accounts>>
  /\ UnchangedWorker

\* The rest of a loop over todo once t has been dealt with.
LoopAfter(r, t) == IF r.todo = {t} THEN Idle ELSE [r EXCEPT !.todo = @ \ {t}]

\* The foreign keys of post_targets need both the post and the account.
CreateTarget(c, t) ==
  /\ reqs[c].pc = "createTargets"
  /\ t \in reqs[c].todo
  /\ PostExists(reqs[c].post)
  /\ AccountOf[t] \in accounts
  /\ targets' = [targets EXCEPT ![t] = NoRow("pending")]
  /\ reqs' = [reqs EXCEPT ![c] = LoopAfter(@, t)]
  /\ UNCHANGED <<posts, accounts>>
  /\ UnchangedWorker

\* POST /v1/posts/{id}/publish: SetStatus is an UPDATE, which a missing row
\* does not fail.
PublishSetStatus(c, p) ==
  /\ reqs[c].pc = "idle"
  /\ posts[p] # "absent"
  /\ posts' = IF PostExists(p) THEN [posts EXCEPT ![p] = "publishing"]
                               ELSE posts
  /\ reqs' = [reqs EXCEPT ![c] =
                [pc |-> "listTargets", post |-> p, todo |-> {}]]
  /\ UNCHANGED <<targets, accounts>>
  /\ UnchangedWorker

PublishListTargets(c) ==
  LET ts == RowsOf(reqs[c].post) IN
  /\ reqs[c].pc = "listTargets"
  /\ \A t \in ts : Readable(t)
  /\ reqs' = [reqs EXCEPT ![c] =
                IF ts = {} THEN Idle
                ELSE [@ EXCEPT !.pc = "enqueue", !.todo = ts]]
  /\ UNCHANGED db
  /\ UnchangedWorker

\* Every listed target gets a task, whatever its status is.
PublishEnqueue(c, t, j) ==
  /\ reqs[c].pc = "enqueue"
  /\ t \in reqs[c].todo
  /\ jobs[j].pc = "absent"
  /\ jobs' = [jobs EXCEPT ![j] =
                [pc |-> "pending", target |-> t, retried |-> 0, run |-> 0]]
  /\ reqs' = [reqs EXCEPT ![c] = LoopAfter(@, t)]
  /\ UNCHANGED <<db, outside, outbox, unacked, requeues>>

\* The error of Enqueue is dropped: the loop goes on without a task for t.
\* JobIds bounds the tasks of a behaviour, so the last one also ends here.
PublishEnqueueFails(c, t) ==
  /\ reqs[c].pc = "enqueue"
  /\ t \in reqs[c].todo
  /\ Faults \/ \A j \in JobIds : jobs[j].pc # "absent"
  /\ reqs' = [reqs EXCEPT ![c] = LoopAfter(@, t)]
  /\ UNCHANGED db
  /\ UnchangedWorker

\* A handler answers 500 where a statement is refused: a foreign key of
\* post_targets is violated, or a row cannot be scanned.  What it has written
\* stays written.
RequestRefused(c) ==
  /\ \/ /\ reqs[c].pc = "createTargets"
        /\ \/ ~PostExists(reqs[c].post)
           \/ \E t \in reqs[c].todo : AccountOf[t] \notin accounts
     \/ /\ reqs[c].pc = "listTargets"
        /\ \E t \in RowsOf(reqs[c].post) : ~Readable(t)
  /\ reqs' = [reqs EXCEPT ![c] = Idle]
  /\ UNCHANGED db
  /\ UnchangedWorker

\* The same when a statement fails for another reason, the client goes away
\* or the replica dies.
RequestAborts(c) ==
  /\ Faults
  /\ reqs[c].pc # "idle"
  /\ reqs' = [reqs EXCEPT ![c] = Idle]
  /\ UNCHANGED db
  /\ UnchangedWorker

\* POST /v1/posts/{id}/cancel touches the posts row and nothing else.
Cancel(p) ==
  /\ PostExists(p)
  /\ posts' = [posts EXCEPT ![p] = "cancelled"]
  /\ UNCHANGED <<targets, accounts, reqs>>
  /\ UnchangedWorker

\* DELETE /v1/posts/{id}: post_targets rows go with it (ON DELETE CASCADE);
\* the tasks already queued for them stay.
DeletePost(p) ==
  /\ PostExists(p)
  /\ posts' = [posts EXCEPT ![p] = "deleted"]
  /\ targets' = [t \in Targets |->
                   IF t \in RowsOf(p) THEN NoRow("deleted") ELSE targets[t]]
  /\ UNCHANGED <<accounts, reqs>>
  /\ UnchangedWorker

\* POST /v1/posts/{id}/duplicate: a draft without targets.  Get and Create
\* share no state that another request could change in between.
Duplicate(p, q) ==
  /\ PostExists(p)
  /\ posts[q] = "absent"
  /\ posts' = [posts EXCEPT ![q] = "draft"]
  /\ UNCHANGED <<targets, accounts, reqs>>
  /\ UnchangedWorker

\* DELETE /v1/accounts/{id}: the foreign key of post_targets has no cascade.
DeleteAccount(a) ==
  /\ a \in accounts
  /\ ~\E t \in Targets : RowExists(t) /\ AccountOf[t] = a
  /\ accounts' = accounts \ {a}
  /\ UNCHANGED <<posts, targets, reqs>>
  /\ UnchangedWorker

-----------------------------------------------------------------------------
(* asynq: delivery, retries, lost workers                                  *)

UnchangedApi == UNCHANGED <<posts, accounts, reqs>>

AttemptOf(j) == <<jobs[j].target, j, jobs[j].run>>

Goto(j, label) == jobs' = [jobs EXCEPT ![j].pc = label]

\* Mutant: the retry is not counted.
RetryUncounted(j) ==
  jobs' = IF jobs[j].retried < MaxRetry
            THEN [jobs EXCEPT ![j].pc = "pending"]
            ELSE [jobs EXCEPT ![j].pc = "archived"]

\* A run that returned an error is retried until the task's limit is reached.
Retry(j) ==
  jobs' = IF jobs[j].retried < MaxRetry
            THEN [jobs EXCEPT ![j].pc = "pending", ![j].retried = @ + 1]
            ELSE [jobs EXCEPT ![j].pc = "archived"]

Dequeue(j) ==
  /\ jobs[j].pc = "pending"
  /\ jobs' = [jobs EXCEPT ![j].pc = "getTarget", ![j].run = @ + 1]
  /\ UnchangedApi
  /\ UNCHANGED <<targets, outside, outbox, unacked, requeues>>

\* What is known of the adapter call of a run that is cut short.
CutShort(j) ==
  unacked' = IF jobs[j].pc \in AfterCall THEN unacked \cup {AttemptOf(j)}
                                         ELSE unacked

\* The worker dies or the task times out: its lease expires and the run
\* counts as a failed one.
LeaseExpires(j) ==
  /\ Faults
  /\ jobs[j].pc \in Running
  /\ Retry(j)
  /\ CutShort(j)
  /\ UnchangedApi
  /\ UNCHANGED <<targets, outside, outbox, requeues>>

\* Mutant: an unfinished run is dropped at shutdown.
ShutdownDrops(j) ==
  /\ Faults
  /\ requeues < MaxRequeues
  /\ jobs[j].pc \in Running
  /\ Goto(j, "absent")
  /\ CutShort(j)
  /\ requeues' = requeues + 1
  /\ UnchangedApi
  /\ UNCHANGED <<targets, outside, outbox>>

\* Pool.Run shuts the server down: unfinished runs go back to the queue and
\* do not count.
ShutdownRequeues(j) ==
  /\ Faults
  /\ requeues < MaxRequeues
  /\ jobs[j].pc \in Running
  /\ Goto(j, "pending")
  /\ CutShort(j)
  /\ requeues' = requeues + 1
  /\ UnchangedApi
  /\ UNCHANGED <<targets, outside, outbox>>

-----------------------------------------------------------------------------
(* publishHandler.ProcessTask                                              *)

\* Before the adapter is called the handler only reads; the error of a read
\* that cannot succeed is returned and the run retried ...
RunRefused(j) ==
  /\ \/ /\ jobs[j].pc = "getTarget"
        /\ ~RowExists(jobs[j].target) \/ ~Readable(jobs[j].target)
     \/ /\ jobs[j].pc = "getAccount"
        /\ AccountOf[jobs[j].target] \notin accounts
  /\ Retry(j)
  /\ UnchangedApi
  /\ UNCHANGED <<targets, outside, outbox, unacked, requeues>>

\* ... and so is that of a read, or of Decrypt, that happens to fail.
RunErrs(j) ==
  /\ Faults
  /\ jobs[j].pc \in BeforeCall
  /\ Retry(j)
  /\ UnchangedApi
  /\ UNCHANGED <<targets, outside, outbox, unacked, requeues>>

\* The row is read for its account and platform; its status is not looked at.
GetTarget(j) ==
  /\ jobs[j].pc = "getTarget"
  /\ RowExists(jobs[j].target)
  /\ Readable(jobs[j].target)
  /\ Goto(j, "getAccount")
  /\ UnchangedApi
  /\ UNCHANGED <<targets, outside, outbox, unacked, requeues>>

GetAccount(j) ==
  /\ jobs[j].pc = "getAccount"
  /\ AccountOf[jobs[j].target] \in accounts
  /\ Goto(j, "adapter")
  /\ UnchangedApi
  /\ UNCHANGED <<targets, outside, outbox, unacked, requeues>>

\* tokens.Decrypt and adapters.Get succeed; the request is on its way.
CallAdapter(j) ==
  /\ jobs[j].pc = "adapter"
  /\ PlatformOf[jobs[j].target] \in Registered
  /\ inflight' = inflight \cup {AttemptOf(j)}
  /\ Goto(j, "await")
  /\ UnchangedApi
  /\ UNCHANGED <<targets, live, outbox, unacked, requeues>>

\* SkipRetry: asynq archives the task at once.
NoAdapter(j) ==
  /\ jobs[j].pc = "adapter"
  /\ PlatformOf[jobs[j].target] \notin Registered
  /\ Goto(j, "archived")
  /\ UnchangedApi
  /\ UNCHANGED <<targets, outside, outbox, unacked, requeues>>

\* Mutant: the error of Publish is not looked at.
AdapterReturns(j) ==
  /\ jobs[j].pc = "await"
  /\ AttemptOf(j) \notin inflight
  /\ Goto(j, "record")
  /\ UnchangedApi
  /\ UNCHANGED <<targets, outside, outbox, unacked, requeues>>

\* Mutant: the event is stored before the result is recorded.
AnnounceFirst(j) ==
  /\ jobs[j].pc = "await"
  /\ AttemptOf(j) \in live
  /\ Goto(j, "announce")
  /\ UnchangedApi
  /\ UNCHANGED <<targets, outside, outbox, unacked, requeues>>

\* Mutant: the handler asks again when the answer does not come.
AdapterAsksAgain(j) ==
  /\ Faults
  /\ jobs[j].pc = "await"
  /\ Goto(j, "adapter")
  /\ unacked' = unacked \cup {AttemptOf(j)}
  /\ UnchangedApi
  /\ UNCHANGED <<targets, outside, outbox, requeues>>

AdapterSucceeds(j) ==
  /\ jobs[j].pc = "await"
  /\ AttemptOf(j) \in live
  /\ Goto(j, "record")
  /\ UnchangedApi
  /\ UNCHANGED <<targets, outside, outbox, unacked, requeues>>

\* Publish returned an error because the platform said no ...
AdapterRefuses(j) ==
  /\ jobs[j].pc = "await"
  /\ AttemptOf(j) \notin inflight \cup live
  /\ Goto(j, "markFailed")
  /\ UnchangedApi
  /\ UNCHANGED <<targets, outside, outbox, unacked, requeues>>

\* ... or because the answer never came.
AdapterTimesOut(j) ==
  /\ Faults
  /\ jobs[j].pc = "await"
  /\ Goto(j, "markFailed")
  /\ unacked' = unacked \cup {AttemptOf(j)}
  /\ UnchangedApi
  /\ UNCHANGED <<targets, outside, outbox, requeues>>

\* SetTargetFailed, whose own error is only logged.
MarkFailed(j) ==
  LET t == jobs[j].target IN
  /\ jobs[j].pc = "markFailed"
  /\ \/ /\ RowExists(t)
        /\ targets' = [targets EXCEPT ![t].status = "failed",
                                      ![t].reason = TRUE]
     \/ /\ Faults \/ ~RowExists(t)
        /\ UNCHANGED targets
  /\ Retry(j)
  /\ UnchangedApi
  /\ UNCHANGED <<outside, outbox, unacked, requeues>>

\* Mutant: the UPDATE leaves the platform post ID out.
WriteStatusOnly(j) ==
  targets' = IF RowExists(jobs[j].target)
               THEN [targets EXCEPT ![jobs[j].target].status = "published"]
               ELSE targets

\* SetTargetPublished: an earlier failure_reason stays in the row.
WritePublished(j) ==
  targets' = IF RowExists(jobs[j].target)
               THEN [targets EXCEPT ![jobs[j].target].status = "published",
                                    ![jobs[j].target].ppid = AttemptOf(j)]
               ELSE targets

RecordPublished(j) ==
  /\ jobs[j].pc = "record"
  /\ WritePublished(j)
  /\ Goto(j, "announce")
  /\ UnchangedApi
  /\ UNCHANGED <<outside, outbox, unacked, requeues>>

\* Mutant: the error is wrapped without SkipRetry.
RecordFailsAndRetries(j) ==
  /\ Faults
  /\ jobs[j].pc = "record"
  /\ WritePublished(j) \/ UNCHANGED targets
  /\ Retry(j)
  /\ UnchangedApi
  /\ UNCHANGED <<outside, outbox, unacked, requeues>>

\* Mutant: the error is logged and the run goes on, as for SetTargetFailed.
RecordErrorLogged(j) ==
  /\ Faults
  /\ jobs[j].pc = "record"
  /\ WritePublished(j) \/ UNCHANGED targets
  /\ Goto(j, "announce")
  /\ UnchangedApi
  /\ UNCHANGED <<outside, outbox, unacked, requeues>>

\* The statement returned an error, whether or not the server committed it.
\* SkipRetry, because the post is live and a retry would publish it again.
RecordFails(j) ==
  /\ Faults
  /\ jobs[j].pc = "record"
  /\ WritePublished(j) \/ UNCHANGED targets
  /\ Goto(j, "archived")
  /\ UnchangedApi
  /\ UNCHANGED <<outside, outbox, unacked, requeues>>

\* Mutant: an error of EnqueueDelivery is treated like one of Publish.
AnnounceErrorMarks(j) ==
  /\ jobs[j].pc = "announce"
  /\ \/ announced' = announced \cup {AttemptOf(j)} /\ Goto(j, "deliver")
     \/ Faults /\ UNCHANGED announced /\ Goto(j, "markFailed")
  /\ UnchangedApi
  /\ UNCHANGED <<targets, outside, kicked, unacked, requeues>>

\* EnqueueDelivery inserts the webhook_deliveries rows; its error is logged.
Announce(j) ==
  /\ jobs[j].pc = "announce"
  /\ \/ announced' = announced \cup {AttemptOf(j)}
     \/ Faults /\ UNCHANGED announced
  /\ Goto(j, "deliver")
  /\ UnchangedApi
  /\ UNCHANGED <<targets, outside, kicked, unacked, requeues>>

\* Enqueue of webhook:deliver; its error is dropped and the run returns nil.
EnqueueDeliver(j) ==
  /\ jobs[j].pc = "deliver"
  /\ \/ kicked' = kicked \cup {AttemptOf(j)}
     \/ Faults /\ UNCHANGED kicked
  /\ Goto(j, "done")
  /\ UnchangedApi
  /\ UNCHANGED <<targets, outside, announced, unacked, requeues>>

-----------------------------------------------------------------------------
(* The platform decides on a request whether or not anyone still waits.    *)

PlatformAccepts(a) ==
  /\ a \in inflight
  /\ inflight' = inflight \ {a}
  /\ live' = live \cup {a}
  /\ UNCHANGED <<db, reqs, jobs, outbox, unacked, requeues>>

PlatformRefuses(a) ==
  /\ a \in inflight
  /\ inflight' = inflight \ {a}
  /\ UNCHANGED <<db, reqs, jobs, live, outbox, unacked, requeues>>

-----------------------------------------------------------------------------
HandlerStep(c) ==
  \/ \E t \in Targets : CreateTarget(c, t)
  \/ PublishListTargets(c)
  \/ \E t \in Targets, j \in JobIds : PublishEnqueue(c, t, j)
  \/ \E t \in Targets : PublishEnqueueFails(c, t)
  \/ RequestRefused(c)

NewRequest ==
  \/ \E c \in Clients, p \in Posts, ts \in SUBSET Targets,
        s \in {"draft", "scheduled"} : CreatePost(c, p, ts, s)
  \/ \E c \in Clients, p \in Posts : PublishSetStatus(c, p)
  \/ \E p \in Posts : Cancel(p) \/ DeletePost(p)
  \/ \E p, q \in Posts : Duplicate(p, q)
  \/ \E a \in Accounts : DeleteAccount(a)

WorkerStep(j) ==
  \/ Dequeue(j) \/ RunRefused(j) \/ GetTarget(j) \/ GetAccount(j)
  \/ CallAdapter(j) \/ NoAdapter(j)
  \/ AdapterSucceeds(j) \/ AdapterRefuses(j)
  \/ MarkFailed(j) \/ RecordPublished(j)
  \/ Announce(j) \/ EnqueueDeliver(j)

WorkerFault(j) ==
  \/ RunErrs(j) \/ AdapterTimesOut(j) \/ RecordFails(j)
  \/ LeaseExpires(j) \/ ShutdownRequeues(j)

PlatformStep(a) == PlatformAccepts(a) \/ PlatformRefuses(a)

Next ==
  \/ NewRequest
  \/ \E c \in Clients : HandlerStep(c) \/ RequestAborts(c)
  \/ \E j \in JobIds : WorkerStep(j) \/ WorkerFault(j)
  \/ \E a \in inflight : PlatformStep(a)

\* A goroutine that runs a handler or a task is eventually scheduled, and the
\* platform eventually decides; nobody is obliged to send requests, and no
\* fault ever has to happen.
Fairness ==
  /\ \A c \in Clients : WF_vars(HandlerStep(c))
  /\ \A j \in JobIds : WF_vars(WorkerStep(j))
  /\ WF_vars(\E a \in inflight : PlatformStep(a))

Spec == Init /\ [][Next]_vars /\ Fairness

-----------------------------------------------------------------------------
(* Properties                                                              *)

\* A platform_post_id in a target row is the ID of a post that is public and
\* was created for that target, and a row says "published" only with such an
\* ID: SetTargetPublished runs after the adapter's success and no other run of
\* the same or another task for the target leaves the row without its ID.
PublishedMeansLive ==
  \A t \in Targets :
    /\ targets[t].status = "published" => targets[t].ppid # Null
    /\ targets[t].ppid # Null => /\ targets[t].ppid \in live
                                 /\ targets[t].ppid[1] = t

\* A post.published event is stored only for a post that is public, and by
\* then the target row has a platform_post_id or is deleted: the handler
\* announces after it has recorded, and a later failed run keeps the ID.
AnnouncedMeansRecorded ==
  \A a \in announced :
    /\ a \in live
    /\ targets[a[1]].status = "deleted" \/ targets[a[1]].ppid # Null

\* A task that asynq counts as completed has left a platform_post_id in its
\* target's row, unless the row was deleted: no path returns nil without
\* having recorded the result.
DoneMeansRecorded ==
  \A j \in JobIds : jobs[j].pc = "done" =>
    LET t == jobs[j].target IN
      targets[t].status = "deleted" \/ targets[t].ppid # Null

\* One task makes a second public post only after a run whose outcome never
\* came back (the answer was lost, or the run was cut short): a run that heard
\* of its success never leads to another call, not even when the result could
\* not be persisted (SkipRetry).
OnePostPerTask ==
  \A a, b \in live : a[2] = b[2] /\ a[3] < b[3] => a \in unacked

\* A public post the database knows nothing of is explained: its run has yet
\* to record it, was cut short, or failed to persist it.
LiveIsAccountedFor ==
  \A a \in live :
    LET job == jobs[a[2]] IN
      \/ a \in unacked
      \/ targets[a[1]].status = "deleted" \/ targets[a[1]].ppid # Null
      \/ job.run = a[3] /\ job.pc \in {"await", "record", "archived"}

\* A row that shows a public post and says "failed" was overwritten by a run
\* that knew nothing of it: one of another task for the target, or a later one
\* of the same task, whose earlier run was cut short after it had recorded.  No
\* run that has recorded its success goes on to mark the target failed.
OverwriteExplained ==
  \A t \in Targets :
    targets[t].status = "failed" /\ targets[t].ppid # Null =>
      LET a == targets[t].ppid IN
      \/ a \in unacked /\ jobs[a[2]].run > a[3]
      \/ \E k \in JobIds \ {a[2]} : jobs[k].target = t /\ jobs[k].run > 0

\* A task makes no more public posts than it has failed runs, plus one, plus
\* the runs that shutdowns handed back: every delivery of the task after the
\* first is paid for, by its retry count or by a requeue.
PostsWithinRetries ==
  \A j \in JobIds :
    Cardinality({a \in live : a[2] = j}) <= jobs[j].retried + requeues + 1

\* The order in which a run passes its places.
Place == [pc \in {"absent", "pending"} \cup Running \cup Settled |->
            CASE pc = "absent" -> 0 [] pc = "pending" -> 1
              [] pc = "getTarget" -> 2 [] pc = "getAccount" -> 3
              [] pc = "adapter" -> 4 [] pc = "await" -> 5
              [] pc \in {"markFailed", "record"} -> 6 [] pc = "announce" -> 7
              [] pc = "deliver" -> 8 [] OTHER -> 9]

\* No step sends a task back without using up a retry or a requeue: the task
\* moves on in its run, or counts one more of those that are limited, whatever
\* handlers, platform, faults and other tasks do meanwhile.
Onward(j) ==
  LET job == jobs[j]
      new == jobs'[j] IN
  \/ new = job
  \/ Place[new.pc] > Place[job.pc] /\ new.retried = job.retried
  \/ new.retried = job.retried + 1 /\ new.retried <= MaxRetry
  \/ /\ new.retried = job.retried
     /\ requeues' = requeues + 1 /\ requeues' <= MaxRequeues

TasksAdvance == [][\A j \in JobIds : Onward(j)]_vars

\* Every task ends: completed, or archived when its retries are used up.
TasksSettle ==
  \A j \in JobIds : jobs[j].pc = "pending" ~> jobs[j].pc \in Settled

\* What the pipeline promises of a target, without the queue and the retries.
Contract == INSTANCE PublishContract WITH
  record <- [t \in Targets |-> targets[t].ppid],
  gone <- {t \in Targets : targets[t].status = "deleted"},
  unheard <- unacked

\* The pipeline implements the contract.
ImplementsContract == Contract!Spec

-----------------------------------------------------------------------------
(* A statement of the documentation that the code does not keep           *)

\* README.md, Publish Pipeline: "Worker dequeues post:publish job per target",
\* so each target of a post being published comes to have a task.
TargetsAreQueued ==
  \A c \in Clients, t \in Targets :
    (reqs[c].pc = "listTargets" /\ reqs[c].post = PostOf[t] /\ RowExists(t))
      ~> (\/ \E j \in JobIds : jobs[j].target = t
          \/ ~RowExists(t))

=============================================================================
