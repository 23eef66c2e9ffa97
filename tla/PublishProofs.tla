--------------------------- MODULE PublishProofs ---------------------------
(***************************************************************************)
(* Proofs about PublishPipeline, for every value of its constants.         *)
(***************************************************************************)
EXTENDS PublishPipeline, FiniteSetTheorems, TLAPS

\* The target of a task is known once the task exists, which makes the
\* attempt of a running task an element of Attempt.
TasksHaveTargets ==
  \A j \in JobIds : jobs[j].pc # "absent" => jobs[j].target \in Targets

TypeInv == TypeOK /\ TasksHaveTargets

-----------------------------------------------------------------------------
\* The two components of LoopAfter, which the handlers' loops share.
LEMMA LoopAfterType ==
  ASSUME NEW r \in Request, NEW t \in Targets
  PROVE  LoopAfter(r, t) \in Request
  BY DEF LoopAfter, Request, Idle

LEMMA InitTypeInv == Init => TypeInv
  BY ConstantsAssumption
  DEF Init, TypeInv, TypeOK, TasksHaveTargets, Row, NoRow, Job, Request, Idle

LEMMA RequestsKeepType ==
  ASSUME TypeInv, NewRequest PROVE TypeInv'
<1> USE DEF TypeInv, TypeOK, TasksHaveTargets, UnchangedWorker, outside, outbox
<1>1. ASSUME NEW c \in Clients, NEW p \in Posts, NEW ts \in SUBSET Targets,
             NEW s \in {"draft", "scheduled"}, CreatePost(c, p, ts, s)
      PROVE  TypeInv'
  BY <1>1 DEF CreatePost, Request, Idle, PostStatus
<1>2. ASSUME NEW c \in Clients, NEW p \in Posts, PublishSetStatus(c, p)
      PROVE  TypeInv'
  BY <1>2 DEF PublishSetStatus, Request, PostStatus
<1>3. ASSUME NEW p \in Posts, Cancel(p) PROVE TypeInv'
  BY <1>3 DEF Cancel, PostStatus
<1>4. ASSUME NEW p \in Posts, DeletePost(p) PROVE TypeInv'
  BY <1>4 DEF DeletePost, PostStatus, Row, NoRow
<1>5. ASSUME NEW p \in Posts, NEW q \in Posts, Duplicate(p, q) PROVE TypeInv'
  BY <1>5 DEF Duplicate, PostStatus
<1>6. ASSUME NEW a \in Accounts, DeleteAccount(a) PROVE TypeInv'
  BY <1>6 DEF DeleteAccount
<1> QED BY <1>1, <1>2, <1>3, <1>4, <1>5, <1>6 DEF NewRequest

LEMMA HandlersKeepType ==
  ASSUME TypeInv, NEW c \in Clients, HandlerStep(c) \/ RequestAborts(c)
  PROVE  TypeInv'
<1> USE DEF TypeInv, TypeOK, TasksHaveTargets, UnchangedWorker, db, outside, outbox
<1>1. ASSUME NEW t \in Targets, CreateTarget(c, t) PROVE TypeInv'
  BY <1>1, LoopAfterType DEF CreateTarget, Row, NoRow, RowStatus
<1>2. ASSUME PublishListTargets(c) PROVE TypeInv'
  BY <1>2 DEF PublishListTargets, RowsOf, Request, Idle
<1>3. ASSUME NEW t \in Targets, NEW j \in JobIds, PublishEnqueue(c, t, j)
      PROVE  TypeInv'
  BY <1>3, LoopAfterType DEF PublishEnqueue, Job
<1>4. ASSUME NEW t \in Targets, PublishEnqueueFails(c, t) PROVE TypeInv'
  BY <1>4, LoopAfterType DEF PublishEnqueueFails
<1>5. ASSUME RequestRefused(c) \/ RequestAborts(c) PROVE TypeInv'
  BY <1>5 DEF RequestRefused, RequestAborts, Request, Idle
<1> QED BY <1>1, <1>2, <1>3, <1>4, <1>5 DEF HandlerStep

LEMMA AttemptType ==
  ASSUME TypeInv, NEW j \in JobIds, jobs[j].pc # "absent"
  PROVE  AttemptOf(j) \in Attempt
  BY DEF TypeInv, TypeOK, TasksHaveTargets, Job, AttemptOf, Attempt

\* What Retry does to the tasks table.
LEMMA RetryType ==
  ASSUME TypeInv, NEW j \in JobIds, jobs[j].pc # "absent", Retry(j)
  PROVE  /\ jobs' \in [JobIds -> Job]
         /\ TasksHaveTargets'
  BY DEF TypeInv, TypeOK, TasksHaveTargets, Job, Retry, Settled

LEMMA GotoType ==
  ASSUME TypeInv, NEW j \in JobIds, jobs[j].pc # "absent",
         NEW label \in {"pending"} \cup Running \cup Settled, Goto(j, label)
  PROVE  /\ jobs' \in [JobIds -> Job]
         /\ TasksHaveTargets'
  BY DEF TypeInv, TypeOK, TasksHaveTargets, Job, Goto

LEMMA WorkerKeepsType ==
  ASSUME TypeInv, NEW j \in JobIds,
         WorkerStep(j) \/ WorkerFault(j)
  PROVE  TypeInv'
<1> USE DEF TypeInv, UnchangedApi, outside, outbox
<1> DEFINE Labels == {"pending"} \cup Running \cup Settled
<1>0. /\ Labels = {"pending", "getTarget", "getAccount", "adapter", "await",
                   "markFailed", "record", "announce", "deliver", "done",
                   "archived"}
      /\ jobs[j].pc \in Labels => jobs[j].pc # "absent"
  BY DEF Running, BeforeCall, AfterCall, Settled
<1> HIDE DEF Labels
<1>g. ASSUME jobs[j].pc \in Labels, NEW label \in Labels, Goto(j, label)
      PROVE  jobs' \in [JobIds -> Job] /\ TasksHaveTargets'
  BY <1>0, <1>g, GotoType DEF Labels
<1>r. ASSUME jobs[j].pc \in Labels, Retry(j)
      PROVE  jobs' \in [JobIds -> Job] /\ TasksHaveTargets'
  BY <1>0, <1>r, RetryType
<1>a. jobs[j].pc \in Labels => AttemptOf(j) \in Attempt
  BY <1>0, AttemptType
<1>1. CASE Dequeue(j)
  BY <1>1 DEF Dequeue, TypeOK, TasksHaveTargets, Job, Running, BeforeCall
<1>2. CASE RunRefused(j) \/ RunErrs(j)
  BY <1>2, <1>r, <1>0 DEF RunRefused, RunErrs, TypeOK, BeforeCall
<1>3. CASE GetTarget(j)
  BY <1>3, <1>g, <1>0 DEF GetTarget, TypeOK
<1>4. CASE GetAccount(j)
  BY <1>4, <1>g, <1>0 DEF GetAccount, TypeOK
<1>5. CASE CallAdapter(j)
  BY <1>5, <1>g, <1>0, <1>a DEF CallAdapter, TypeOK
<1>6. CASE NoAdapter(j)
  BY <1>6, <1>g, <1>0 DEF NoAdapter, TypeOK
<1>7. CASE AdapterSucceeds(j)
  BY <1>7, <1>g, <1>0 DEF AdapterSucceeds, TypeOK
<1>8. CASE AdapterRefuses(j)
  BY <1>8, <1>g, <1>0 DEF AdapterRefuses, TypeOK
<1>9. CASE AdapterTimesOut(j)
  BY <1>9, <1>g, <1>0, <1>a DEF AdapterTimesOut, TypeOK
<1>10. CASE MarkFailed(j)
  <2>1. targets' \in [Targets -> Row]
    BY <1>10 DEF MarkFailed, TypeOK, Row, RowStatus
  <2> QED BY <1>10, <2>1, <1>r, <1>0 DEF MarkFailed, TypeOK
<1>w. ASSUME jobs[j].pc = "record", WritePublished(j) \/ UNCHANGED targets
      PROVE  targets' \in [Targets -> Row]
  BY <1>w, <1>a, <1>0 DEF WritePublished, TypeOK, Row, RowStatus
<1>11. CASE RecordPublished(j)
  BY <1>11, <1>w, <1>g, <1>0 DEF RecordPublished, TypeOK
<1>12. CASE RecordFails(j)
  BY <1>12, <1>w, <1>g, <1>0 DEF RecordFails, TypeOK
<1>13. CASE Announce(j)
  BY <1>13, <1>g, <1>0, <1>a DEF Announce, TypeOK
<1>14. CASE EnqueueDeliver(j)
  BY <1>14, <1>g, <1>0, <1>a DEF EnqueueDeliver, TypeOK
<1>c. ASSUME jobs[j].pc \in Running, CutShort(j)
      PROVE  unacked' \in SUBSET Attempt /\ jobs[j].pc \in Labels
  BY <1>c, <1>a DEF CutShort, TypeOK, Labels
<1>15. CASE LeaseExpires(j)
  BY <1>15, <1>r, <1>c DEF LeaseExpires, TypeOK
<1>16. CASE ShutdownRequeues(j)
  BY <1>16, <1>g, <1>0, <1>c, ConstantsAssumption DEF ShutdownRequeues, TypeOK
<1> QED BY <1>1, <1>2, <1>3, <1>4, <1>5, <1>6, <1>7, <1>8, <1>9, <1>10,
           <1>11, <1>12, <1>13, <1>14, <1>15, <1>16 DEF WorkerStep, WorkerFault

LEMMA PlatformKeepsType ==
  ASSUME TypeInv, NEW a \in inflight, PlatformStep(a) PROVE TypeInv'
  BY DEF TypeInv, TypeOK, TasksHaveTargets, PlatformStep, PlatformAccepts,
         PlatformRefuses, db, outbox

LEMMA TypeInvStep == TypeInv /\ [Next]_vars => TypeInv'
<1> SUFFICES ASSUME TypeInv, [Next]_vars PROVE TypeInv'
  OBVIOUS
<1>1. CASE NewRequest
  BY <1>1, RequestsKeepType
<1>2. CASE \E c \in Clients : HandlerStep(c) \/ RequestAborts(c)
  BY <1>2, HandlersKeepType
<1>3. CASE \E j \in JobIds :
             WorkerStep(j) \/ WorkerFault(j)
  BY <1>3, WorkerKeepsType
<1>4. CASE \E a \in inflight : PlatformStep(a)
  BY <1>4, PlatformKeepsType
<1>5. CASE UNCHANGED vars
  BY <1>5 DEF vars, TypeInv, TypeOK, TasksHaveTargets
<1> QED BY <1>1, <1>2, <1>3, <1>4, <1>5 DEF Next

\* Every variable of the pipeline keeps its type: rows, requests, tasks and
\* the attempts of internal/worker/publish.go stay well formed.
THEOREM TypeCorrect == Spec => []TypeOK
<1>1. Spec => []TypeInv
  BY InitTypeInv, TypeInvStep, PTL DEF Spec
<1>2. TypeInv => TypeOK
  BY DEF TypeInv
<1> QED BY <1>1, <1>2, PTL

-----------------------------------------------------------------------------
(* The inductive invariant behind the safety properties.                   *)

\* The target row shows a post, or has been deleted with its post.
Recorded(t) == targets[t].status = "deleted" \/ targets[t].ppid # Null

\* A handler creates the rows of a post only it knows of, before any exists,
\* and enqueues tasks for rows it has seen.
RequestInv ==
  \A c \in Clients :
    LET r == reqs[c] IN
    /\ r.pc # "idle" => r.post \in Posts /\ posts[r.post] # "absent"
    /\ r.pc = "createTargets" => \A t \in r.todo :
         PostOf[t] = r.post /\ targets[t].status = "absent"
    /\ r.pc = "enqueue" => \A t \in r.todo : targets[t].status # "absent"

\* The INSERT that creates a post is answered to one client only.
OneCreator ==
  \A c, d \in Clients :
    /\ reqs[c].pc = "createTargets"
    /\ reqs[d].pc = "createTargets"
    /\ reqs[c].post = reqs[d].post
    => c = d

RowInv ==
  \A t \in Targets :
    /\ posts[PostOf[t]] = "absent" => targets[t].status = "absent"
    /\ ~RowExists(t) => targets[t].ppid = Null

TaskInv ==
  \A j \in JobIds :
    /\ jobs[j].pc # "absent" => targets[jobs[j].target].status # "absent"
    /\ jobs[j].pc \in {"record", "announce", "deliver"} =>
         AttemptOf(j) \in live
    /\ jobs[j].pc \in {"announce", "deliver", "done"} =>
         Recorded(jobs[j].target)

\* An attempt that reached the platform belongs to a run of its task: one
\* nobody heard the outcome of, or the last one, which then either waits for
\* the answer, has heard of its success, or is settled.
AttemptInv ==
  \A a \in inflight \cup live :
    LET job == jobs[a[2]] IN
    /\ job.pc # "absent"
    /\ job.target = a[1]
    /\ a[3] <= job.run
    /\ a \notin unacked =>
         /\ a[3] = job.run
         /\ job.pc \in {"await", "record", "announce", "deliver"} \cup Settled

IInv ==
  /\ TypeInv
  /\ RequestInv
  /\ OneCreator
  /\ RowInv
  /\ TaskInv
  /\ AttemptInv
  /\ PublishedMeansLive
  /\ AnnouncedMeansRecorded

LEMMA InitIInv == Init => IInv
<1> SUFFICES ASSUME Init PROVE IInv
  OBVIOUS
<1>1. TypeInv
  BY InitTypeInv
<1>2. RequestInv /\ OneCreator
  BY ConstantsAssumption DEF Init, RequestInv, OneCreator, Idle
<1>3. RowInv /\ PublishedMeansLive
  BY ConstantsAssumption
  DEF Init, RowInv, PublishedMeansLive, RowExists, NoRow,
      RowStatus
<1>4. TaskInv /\ AttemptInv /\ AnnouncedMeansRecorded
  BY DEF Init, TaskInv, AttemptInv, AnnouncedMeansRecorded
<1> QED BY <1>1, <1>2, <1>3, <1>4 DEF IInv

LEMMA RequestsKeepIInv ==
  ASSUME IInv, NewRequest PROVE IInv'
<1>t. TypeInv /\ TypeInv'
  BY RequestsKeepType DEF IInv
<1> USE <1>t, ConstantsAssumption
    DEF IInv, RequestInv, OneCreator, RowInv, TaskInv, AttemptInv,
        PublishedMeansLive, AnnouncedMeansRecorded, Recorded,
        RowExists, PostExists, RowStatus, PostStatus, UnchangedWorker,
        outside, outbox, AttemptOf, TypeInv, TypeOK, TasksHaveTargets
<1>1. ASSUME NEW c \in Clients, NEW p \in Posts, NEW ts \in SUBSET Targets,
             NEW s \in {"draft", "scheduled"}, CreatePost(c, p, ts, s)
      PROVE  IInv'
  BY <1>1 DEF CreatePost, Idle
<1>2. ASSUME NEW c \in Clients, NEW p \in Posts, PublishSetStatus(c, p)
      PROVE  IInv'
  BY <1>2 DEF PublishSetStatus
<1>3. ASSUME NEW p \in Posts, Cancel(p) PROVE IInv'
  BY <1>3 DEF Cancel
<1>4. ASSUME NEW p \in Posts, DeletePost(p) PROVE IInv'
  <2> DEFINE D == RowsOf(p)
  <2>1. /\ posts' = [posts EXCEPT ![p] = "deleted"]
        /\ \A t \in D : /\ PostOf[t] = p
                        /\ RowExists(t)
                        /\ targets'[t] = NoRow("deleted")
        /\ \A t \in Targets \ D : targets'[t] = targets[t]
        /\ \A t \in Targets : PostOf[t] = p /\ RowExists(t) => t \in D
        /\ UNCHANGED <<accounts, reqs, jobs, inflight, live, announced,
                       unacked>>
    BY <1>4 DEF DeletePost, RowsOf
  <2> HIDE DEF D
  <2>2. RequestInv' /\ OneCreator'
    <3>1. \A c \in Clients : reqs[c].todo \subseteq Targets
      BY DEF Request
    <3> QED BY <2>1, <3>1 DEF NoRow
  <2>3. RowInv' /\ PublishedMeansLive'
    BY <2>1 DEF NoRow
  <2>4. /\ \A t \in Targets : Recorded(t) => Recorded(t)'
        /\ \A t \in Targets :
             targets[t].status # "absent" => targets'[t].status # "absent"
    BY <2>1 DEF NoRow
  <2>5. TaskInv'
    <3> HIDE DEF Recorded
    <3> QED BY <2>1, <2>4
  <2>6. AttemptInv'
    BY <2>1
  <2>7. AnnouncedMeansRecorded'
    <3>1. \A a \in announced : a[1] \in Targets
      BY DEF Attempt
    <3> QED BY <2>1, <2>4, <3>1
  <2> QED BY <2>2, <2>3, <2>5, <2>6, <2>7
<1>5. ASSUME NEW p \in Posts, NEW q \in Posts, Duplicate(p, q) PROVE IInv'
  BY <1>5 DEF Duplicate
<1>6. ASSUME NEW a \in Accounts, DeleteAccount(a) PROVE IInv'
  BY <1>6 DEF DeleteAccount
<1> HIDE DEF IInv
<1> QED BY <1>1, <1>2, <1>3, <1>4, <1>5, <1>6 DEF NewRequest

LEMMA HandlersKeepIInv ==
  ASSUME IInv, NEW c \in Clients, HandlerStep(c) \/ RequestAborts(c)
  PROVE  IInv'
<1>t. TypeInv /\ TypeInv'
  BY HandlersKeepType DEF IInv
<1>r. \A d \in Clients : reqs[d].todo \subseteq Targets
  BY <1>t DEF TypeInv, TypeOK, Request
<1> USE <1>t, <1>r, ConstantsAssumption
    DEF IInv, RequestInv, OneCreator, RowInv, TaskInv, AttemptInv,
        PublishedMeansLive, AnnouncedMeansRecorded, Recorded,
        RowExists, PostExists, RowStatus, PostStatus, UnchangedWorker, db,
        outside, outbox, AttemptOf, TypeInv, TypeOK, TasksHaveTargets
<1>1. ASSUME NEW t \in Targets, CreateTarget(c, t) PROVE IInv'
  <2>1. /\ targets[t].status = "absent"
        /\ targets' = [targets EXCEPT ![t] = NoRow("pending")]
        /\ PostOf[t] = reqs[c].post
        /\ posts[PostOf[t]] \in PostStatus
        /\ AccountOf[t] \in accounts
        /\ reqs' = [reqs EXCEPT ![c] = LoopAfter(reqs[c], t)]
        /\ UNCHANGED <<posts, accounts, jobs, inflight, live, announced,
                       unacked>>
    BY <1>1 DEF CreateTarget
  <2>2. RequestInv' /\ OneCreator'
    BY <1>1, <2>1 DEF LoopAfter, Idle, NoRow, CreateTarget
  <2>3. RowInv' /\ PublishedMeansLive'
    BY <2>1 DEF NoRow
  <2>4. /\ \A u \in Targets : Recorded(u) => Recorded(u)'
        /\ \A u \in Targets :
             targets[u].status # "absent" => targets'[u].status # "absent"
    BY <2>1 DEF NoRow
  <2>5. TaskInv'
    <3> HIDE DEF Recorded
    <3> QED BY <2>1, <2>4
  <2>6. AttemptInv'
    BY <2>1
  <2>7. AnnouncedMeansRecorded'
    <3>1. \A a \in announced : a[1] \in Targets
      BY DEF Attempt
    <3> QED BY <2>1, <2>4, <3>1
  <2> QED BY <2>2, <2>3, <2>5, <2>6, <2>7
<1>2. ASSUME PublishListTargets(c) PROVE IInv'
  <2>1. RequestInv' /\ OneCreator'
    BY <1>2 DEF PublishListTargets, RowsOf, Idle
  <2> QED BY <1>2, <2>1 DEF PublishListTargets
<1>3. ASSUME NEW t \in Targets, NEW j \in JobIds, PublishEnqueue(c, t, j)
      PROVE  IInv'
  <2>1. RequestInv' /\ OneCreator'
    BY <1>3 DEF PublishEnqueue, LoopAfter, Idle
  <2>2. TaskInv' /\ AttemptInv'
    BY <1>3 DEF PublishEnqueue, Attempt
  <2> QED BY <1>3, <2>1, <2>2 DEF PublishEnqueue
<1>4. ASSUME NEW t \in Targets, PublishEnqueueFails(c, t) PROVE IInv'
  <2>1. RequestInv' /\ OneCreator'
    BY <1>4 DEF PublishEnqueueFails, LoopAfter, Idle
  <2> QED BY <1>4, <2>1 DEF PublishEnqueueFails
<1>5. ASSUME RequestRefused(c) \/ RequestAborts(c) PROVE IInv'
  <2>1. /\ reqs' = [reqs EXCEPT ![c] = Idle]
        /\ UNCHANGED <<posts, targets, accounts, jobs, inflight, live,
                       announced, unacked>>
    BY <1>5 DEF RequestRefused, RequestAborts
  <2>2. RequestInv' /\ OneCreator'
    BY <2>1 DEF Idle
  <2> QED BY <2>1, <2>2
<1> HIDE DEF IInv
<1> QED BY <1>1, <1>2, <1>3, <1>4, <1>5 DEF HandlerStep

LEMMA PlatformKeepsIInv ==
  ASSUME IInv, NEW a \in inflight, PlatformStep(a) PROVE IInv'
<1>t. TypeInv /\ TypeInv'
  BY PlatformKeepsType DEF IInv
<1>1. /\ live \subseteq live'
      /\ inflight' \cup live' \subseteq inflight \cup live
      /\ UNCHANGED <<posts, targets, accounts, reqs, jobs, announced, unacked>>
  BY DEF PlatformStep, PlatformAccepts, PlatformRefuses, db, outbox
<1>2. RequestInv' /\ OneCreator' /\ RowInv'
  BY <1>1 DEF IInv, RequestInv, OneCreator, RowInv, RowExists,
              PostExists
<1>3. TaskInv'
  BY <1>1 DEF IInv, TaskInv, Recorded, AttemptOf
<1>4. AttemptInv'
  BY <1>1 DEF IInv, AttemptInv
<1>5. PublishedMeansLive' /\ AnnouncedMeansRecorded'
  BY <1>1 DEF IInv, PublishedMeansLive, AnnouncedMeansRecorded
<1> QED BY <1>t, <1>2, <1>3, <1>4, <1>5 DEF IInv

\* A step of task j that writes no target row keeps what is said of rows and
\* requests, and of every other task.
LEMMA TaskStepFrame ==
  ASSUME IInv, TypeInv', NEW j \in JobIds,
         UNCHANGED <<posts, targets, accounts, reqs>>,
         live' = live,
         announced' = announced \/ (/\ announced' = announced \cup {AttemptOf(j)}
                                    /\ jobs[j].pc = "announce"),
         jobs[j].pc # "absent",
         \A k \in JobIds \ {j} : jobs'[k] = jobs[k],
         jobs'[j].target = jobs[j].target,
         jobs'[j].pc \in {"record", "announce", "deliver"} =>
           AttemptOf(j)' \in live,
         jobs'[j].pc \in {"announce", "deliver", "done"} =>
           Recorded(jobs[j].target),
         AttemptInv'
  PROVE  IInv'
<1>1. RequestInv' /\ OneCreator' /\ RowInv'
  BY DEF IInv, RequestInv, OneCreator, RowInv, RowExists,
         PostExists
<1>2. TaskInv'
  BY DEF IInv, TaskInv, Recorded, AttemptOf, TypeInv, TypeOK, TasksHaveTargets
<1>3. PublishedMeansLive'
  BY DEF IInv, PublishedMeansLive
<1>4. AnnouncedMeansRecorded'
  BY DEF IInv, AnnouncedMeansRecorded, TaskInv, Recorded, AttemptOf
<1> QED BY <1>1, <1>2, <1>3, <1>4 DEF IInv

\* What a task table step must do to keep AttemptInv.
LEMMA AttemptFrame ==
  ASSUME IInv, TypeInv', NEW j \in JobIds,
         \A k \in JobIds \ {j} : jobs'[k] = jobs[k],
         jobs[j].pc # "absent", jobs'[j].pc # "absent",
         jobs'[j].target = jobs[j].target,
         jobs'[j].run >= jobs[j].run,
         unacked \subseteq unacked',
         inflight' \cup live' \subseteq inflight \cup live \cup {AttemptOf(j)},
         \A a \in inflight \cup live \cup {AttemptOf(j)} :
           a[2] = j /\ a \in inflight' \cup live' /\ a \notin unacked' =>
             /\ a[3] = jobs'[j].run
             /\ jobs'[j].pc \in {"await", "record", "announce", "deliver"}
                                  \cup Settled
  PROVE  AttemptInv'
<1>1. AttemptOf(j) \in Attempt
  BY AttemptType DEF IInv
<1>2. inflight \cup live \cup {AttemptOf(j)} \subseteq Attempt
  BY <1>1 DEF IInv, TypeInv, TypeOK
<1>3. jobs[j].run \in Nat /\ jobs'[j].run \in Nat
  BY DEF IInv, TypeInv, TypeOK, Job
<1> SUFFICES ASSUME NEW a \in inflight' \cup live'
             PROVE  LET job == jobs'[a[2]] IN
                    /\ job.pc # "absent"
                    /\ job.target = a[1]
                    /\ a[3] <= job.run
                    /\ a \notin unacked' =>
                         /\ a[3] = job.run
                         /\ job.pc \in {"await", "record", "announce",
                                        "deliver"} \cup Settled
  BY DEF AttemptInv
<1>4. a[2] \in JobIds /\ a[3] \in Nat
  BY <1>2 DEF Attempt
<1>5. CASE a = AttemptOf(j)
  BY <1>3, <1>5 DEF AttemptOf
<1>6. CASE a # AttemptOf(j) /\ a[2] = j
  BY <1>3, <1>4, <1>6 DEF IInv, AttemptInv
<1>7. CASE a # AttemptOf(j) /\ a[2] # j
  BY <1>4, <1>7 DEF IInv, AttemptInv
<1> QED BY <1>5, <1>6, <1>7

\* The same for a step of task j that may also write its target's row: with a
\* failure that keeps the ID, or with the ID of a public post.
LEMMA RowWriteFrame ==
  ASSUME IInv, TypeInv', NEW j \in JobIds, NEW t \in Targets,
         jobs[j].pc # "absent", jobs[j].target = t,
         \/ targets' = targets
         \/ /\ RowExists(t)
            /\ \A u \in Targets \ {t} : targets'[u] = targets[u]
            /\ \/ /\ targets'[t].status = "failed"
                  /\ targets'[t].ppid = targets[t].ppid
               \/ /\ targets'[t].status = "published"
                  /\ targets'[t].ppid = AttemptOf(j)
                  /\ AttemptOf(j) \in live,
         UNCHANGED <<posts, accounts, reqs, live, announced>>,
         \A k \in JobIds \ {j} : jobs'[k] = jobs[k],
         jobs'[j].target = t,
         jobs'[j].pc \in {"pending", "archived", "announce"},
         jobs'[j].pc = "announce" =>
           AttemptOf(j)' \in live /\ Recorded(t)',
         AttemptInv'
  PROVE  IInv'
<1>1. AttemptOf(j) \in Attempt /\ AttemptOf(j) # Null /\ AttemptOf(j)[1] = t
  BY AttemptType, NullAssumption DEF IInv, AttemptOf
<1>2. \A u \in Targets :
        /\ RowExists(u)' <=> RowExists(u)
        /\ targets'[u].status # "absent" <=> targets[u].status # "absent"
        /\ Recorded(u) => Recorded(u)'
        /\ ~RowExists(u) => targets'[u].ppid = targets[u].ppid
  BY <1>1 DEF RowExists, RowStatus, Recorded
<1>3. RequestInv' /\ OneCreator'
  <2>1. \A c \in Clients : reqs[c].todo \subseteq Targets
    BY DEF IInv, TypeInv, TypeOK, Request
  <2>2. \A u \in Targets :
          targets'[u].status = "absent" <=> targets[u].status = "absent"
    BY <1>2
  <2> QED BY <2>1, <2>2 DEF IInv, RequestInv, OneCreator
<1>4. RowInv'
  BY <1>2 DEF IInv, RowInv, PostExists
<1>5. TaskInv'
  BY <1>2 DEF IInv, TaskInv, AttemptOf, TypeInv, TasksHaveTargets
<1>6. PublishedMeansLive'
  BY <1>1 DEF IInv, PublishedMeansLive
<1>7. AnnouncedMeansRecorded'
  <2>1. \A a \in announced : a[1] \in Targets
    BY DEF IInv, TypeInv, TypeOK, Attempt
  <2> QED BY <1>2, <2>1 DEF IInv, AnnouncedMeansRecorded, Recorded
<1> QED BY <1>3, <1>4, <1>5, <1>6, <1>7 DEF IInv

\* An attempt of task j numbered like the current run is AttemptOf(j).
LEMMA OwnAttempts ==
  ASSUME IInv, NEW j \in JobIds, jobs[j].pc # "absent",
         NEW a \in inflight \cup live \cup {AttemptOf(j)}, a[2] = j,
         a \notin unacked
  PROVE  a = AttemptOf(j) /\ a[3] = jobs[j].run
<1>1. AttemptOf(j) \in Attempt
  BY AttemptType DEF IInv
<1>2. a \in Attempt
  BY <1>1 DEF IInv, TypeInv, TypeOK
<1>3. a = <<a[1], a[2], a[3]>>
  BY <1>2 DEF Attempt
<1>4. CASE a = AttemptOf(j)
  BY <1>4 DEF AttemptOf
<1>5. CASE a # AttemptOf(j)
  BY <1>3, <1>5 DEF IInv, AttemptInv, AttemptOf
<1> QED BY <1>4, <1>5

LEMMA WorkerKeepsIInv ==
  ASSUME IInv, NEW j \in JobIds,
         WorkerStep(j) \/ WorkerFault(j)
  PROVE  IInv'
<1>t. TypeInv /\ TypeInv'
  BY WorkerKeepsType DEF IInv
<1>j. jobs \in [JobIds -> Job] /\ jobs[j].run \in Nat /\ jobs[j].retried \in Nat
  BY <1>t DEF TypeInv, TypeOK, Job
<1>d. /\ jobs[j].pc = "record" => AttemptOf(j) \in live
      /\ jobs[j].pc \in {"announce", "deliver"} =>
           AttemptOf(j) \in live /\ Recorded(jobs[j].target)
  BY DEF IInv, TaskInv
<1>g. ASSUME NEW label, Goto(j, label)
      PROVE  /\ \A k \in JobIds \ {j} : jobs'[k] = jobs[k]
             /\ jobs'[j].target = jobs[j].target
             /\ jobs'[j].run = jobs[j].run
             /\ jobs'[j].pc = label
             /\ AttemptOf(j)' = AttemptOf(j)
  BY <1>j, <1>g DEF Goto, Job, AttemptOf
<1>r. ASSUME Retry(j)
      PROVE  /\ \A k \in JobIds \ {j} : jobs'[k] = jobs[k]
             /\ jobs'[j].target = jobs[j].target
             /\ jobs'[j].run = jobs[j].run
             /\ jobs'[j].pc \in {"pending", "archived"}
  BY <1>j, <1>r DEF Retry, Job
<1>o. ASSUME jobs[j].pc # "absent",
             NEW a \in inflight \cup live \cup {AttemptOf(j)}, a[2] = j
      PROVE  /\ a \notin unacked => a = AttemptOf(j) /\ a[3] = jobs[j].run
             /\ a \in inflight \cup live /\ a \notin unacked =>
                  jobs[j].pc \in {"await", "record", "announce", "deliver"}
                                   \cup Settled
  <2>1. a \in inflight \cup live /\ a \notin unacked =>
                  jobs[j].pc \in {"await", "record", "announce", "deliver"}
                                   \cup Settled
    BY <1>o DEF IInv, AttemptInv
  <2> QED BY <1>o, <2>1, OwnAttempts
<1> USE <1>t DEF UnchangedApi, outside, outbox, Settled
<1>1. CASE Dequeue(j)
  <2>1. /\ \A k \in JobIds \ {j} : jobs'[k] = jobs[k]
        /\ jobs'[j].target = jobs[j].target
        /\ jobs'[j].run = jobs[j].run + 1
        /\ jobs'[j].pc = "getTarget"
    BY <1>1, <1>j DEF Dequeue, Job
  <2>2. \A a \in inflight \cup live : a[2] = j => a \in unacked
    BY <1>1, <1>o DEF Dequeue
  <2>3. AttemptInv'
    BY <1>1, <2>1, <2>2, <1>j, AttemptFrame DEF Dequeue
  <2> QED BY <1>1, <2>1, <2>3, TaskStepFrame DEF Dequeue
<1>2. CASE RunRefused(j) \/ RunErrs(j)
  <2>1. AttemptInv'
    BY <1>2, <1>r, <1>o, <1>j, AttemptFrame DEF RunRefused, RunErrs, BeforeCall
  <2> QED BY <1>2, <1>r, <2>1, TaskStepFrame DEF RunRefused, RunErrs, BeforeCall
<1>3. CASE GetTarget(j)
  <2>1. AttemptInv'
    BY <1>3, <1>g, <1>o, <1>j, AttemptFrame DEF GetTarget
  <2> QED BY <1>3, <1>g, <2>1, TaskStepFrame DEF GetTarget
<1>4. CASE GetAccount(j)
  <2>1. AttemptInv'
    BY <1>4, <1>g, <1>o, <1>j, AttemptFrame DEF GetAccount
  <2> QED BY <1>4, <1>g, <2>1, TaskStepFrame DEF GetAccount
<1>5. CASE CallAdapter(j)
  <2>1. AttemptInv'
    BY <1>5, <1>g, <1>o, <1>j, AttemptFrame DEF CallAdapter
  <2> QED BY <1>5, <1>g, <2>1, TaskStepFrame DEF CallAdapter
<1>6. CASE NoAdapter(j)
  <2>1. AttemptInv'
    BY <1>6, <1>g, <1>o, <1>j, AttemptFrame DEF NoAdapter
  <2> QED BY <1>6, <1>g, <2>1, TaskStepFrame DEF NoAdapter
<1>7. CASE AdapterSucceeds(j)
  <2>1. AttemptInv'
    BY <1>7, <1>g, <1>o, <1>j, AttemptFrame DEF AdapterSucceeds
  <2> QED BY <1>7, <1>g, <2>1, TaskStepFrame DEF AdapterSucceeds
<1>8. CASE AdapterRefuses(j)
  <2>1. AttemptInv'
    BY <1>8, <1>g, <1>o, <1>j, AttemptFrame DEF AdapterRefuses
  <2> QED BY <1>8, <1>g, <2>1, TaskStepFrame DEF AdapterRefuses
<1>9. CASE AdapterTimesOut(j)
  <2>1. AttemptInv'
    BY <1>9, <1>g, <1>o, <1>j, AttemptFrame DEF AdapterTimesOut
  <2> QED BY <1>9, <1>g, <2>1, TaskStepFrame DEF AdapterTimesOut
<1>13. CASE Announce(j)
  <2>1. AttemptInv'
    BY <1>13, <1>g, <1>o, <1>j, AttemptFrame DEF Announce
  <2> QED BY <1>13, <1>g, <1>d, <2>1, TaskStepFrame DEF Announce
<1>14. CASE EnqueueDeliver(j)
  <2>1. AttemptInv'
    BY <1>14, <1>g, <1>o, <1>j, AttemptFrame DEF EnqueueDeliver
  <2> QED BY <1>14, <1>g, <1>d, <2>1, TaskStepFrame DEF EnqueueDeliver
<1>15. CASE LeaseExpires(j)
  <2>1. jobs[j].pc \in Running /\ jobs[j].pc # "absent"
    BY <1>15 DEF LeaseExpires, Running, BeforeCall, AfterCall
  <2>2. AttemptInv'
    BY <1>15, <2>1, <1>r, <1>o, <1>j, AttemptFrame
    DEF LeaseExpires, CutShort, Running, BeforeCall, AfterCall
  <2> QED BY <1>15, <2>1, <1>r, <2>2, TaskStepFrame DEF LeaseExpires
<1>16. CASE ShutdownRequeues(j)
  <2>1. jobs[j].pc \in Running /\ jobs[j].pc # "absent"
    BY <1>16 DEF ShutdownRequeues, Running, BeforeCall, AfterCall
  <2>2. AttemptInv'
    BY <1>16, <2>1, <1>g, <1>o, <1>j, AttemptFrame
    DEF ShutdownRequeues, CutShort, Running, BeforeCall, AfterCall
  <2> QED BY <1>16, <2>1, <1>g, <2>2, TaskStepFrame DEF ShutdownRequeues
<1>x. jobs[j].pc # "absent" => jobs[j].target \in Targets
  BY DEF TypeInv, TasksHaveTargets
<1>10. CASE MarkFailed(j)
  <2>1. \/ targets' = targets
        \/ /\ RowExists(jobs[j].target)
           /\ \A u \in Targets \ {jobs[j].target} : targets'[u] = targets[u]
           /\ targets'[jobs[j].target].status = "failed"
           /\ targets'[jobs[j].target].ppid = targets[jobs[j].target].ppid
    BY <1>10, <1>x DEF MarkFailed, TypeInv, TypeOK, Row
  <2>2. AttemptInv'
    BY <1>10, <1>r, <1>o, <1>j, AttemptFrame DEF MarkFailed
  <2> QED BY <1>10, <1>x, <1>r, <2>1, <2>2, RowWriteFrame DEF MarkFailed
<1>w. ASSUME jobs[j].pc = "record", WritePublished(j) \/ UNCHANGED targets
      PROVE  \/ targets' = targets
             \/ /\ RowExists(jobs[j].target)
                /\ \A u \in Targets \ {jobs[j].target} : targets'[u] = targets[u]
                /\ targets'[jobs[j].target].status = "published"
                /\ targets'[jobs[j].target].ppid = AttemptOf(j)
                /\ AttemptOf(j) \in live
  BY <1>w, <1>x, <1>d DEF WritePublished, TypeInv, TypeOK, Row
<1>11. CASE RecordPublished(j)
  <2>1. AttemptInv'
    BY <1>11, <1>g, <1>o, <1>j, AttemptFrame DEF RecordPublished
  <2>2. Recorded(jobs[j].target)'
    <3>1. CASE RowExists(jobs[j].target)
      <4>1. targets'[jobs[j].target].ppid = AttemptOf(j)
        BY <1>11, <1>x, <3>1 DEF RecordPublished, WritePublished, TypeInv,
                                 TypeOK, Row
      <4>2. AttemptOf(j) # Null
        BY <1>11, AttemptType, NullAssumption DEF RecordPublished
      <4>3. jobs'[j].target = jobs[j].target
        BY <1>11, <1>g DEF RecordPublished
      <4> QED BY <4>1, <4>2, <4>3 DEF Recorded
    <3>2. CASE ~RowExists(jobs[j].target)
      <4>1. targets[jobs[j].target].status = "deleted"
        BY <1>11, <1>x, <3>2
        DEF RecordPublished, IInv, TaskInv, RowExists, TypeOK, TypeInv, Row
      <4>2. targets' = targets /\ jobs'[j].target = jobs[j].target
        BY <1>11, <1>g, <3>2 DEF RecordPublished, WritePublished
      <4> QED BY <4>1, <4>2 DEF Recorded
    <3> QED BY <3>1, <3>2
  <2>3. /\ \A k \in JobIds \ {j} : jobs'[k] = jobs[k]
        /\ jobs'[j].target = jobs[j].target
        /\ jobs'[j].pc = "announce"
        /\ AttemptOf(j)' = AttemptOf(j)
    BY <1>11, <1>g DEF RecordPublished
  <2> DEFINE t == jobs[j].target
  <2>4. t \in Targets /\ jobs'[j].target = t
    BY <1>11, <1>x, <2>3 DEF RecordPublished
  <2>5. \/ targets'[t].status = "deleted"
        \/ targets'[t].ppid # Null
    BY <2>2, <2>3 DEF Recorded
  <2> QED BY <1>11, <1>d, <1>w, <2>1, <2>3, <2>4, <2>5, RowWriteFrame
          DEF RecordPublished, Recorded
<1>12. CASE RecordFails(j)
  <2>1. AttemptInv'
    BY <1>12, <1>g, <1>o, <1>j, AttemptFrame DEF RecordFails
  <2> QED BY <1>12, <1>x, <1>g, <1>w, <2>1, RowWriteFrame DEF RecordFails
<1> QED BY <1>1, <1>2, <1>3, <1>4, <1>5, <1>6, <1>7, <1>8, <1>9, <1>10,
           <1>11, <1>12, <1>13, <1>14, <1>15, <1>16 DEF WorkerStep, WorkerFault

LEMMA IInvStep == IInv /\ [Next]_vars => IInv'
<1> SUFFICES ASSUME IInv, [Next]_vars PROVE IInv'
  OBVIOUS
<1>1. CASE NewRequest
  BY <1>1, RequestsKeepIInv
<1>2. CASE \E c \in Clients : HandlerStep(c) \/ RequestAborts(c)
  BY <1>2, HandlersKeepIInv
<1>3. CASE \E j \in JobIds :
             WorkerStep(j) \/ WorkerFault(j)
  BY <1>3, WorkerKeepsIInv
<1>4. CASE \E a \in inflight : PlatformStep(a)
  BY <1>4, PlatformKeepsIInv
<1>5. CASE UNCHANGED vars
  <2>1. TypeInv'
    BY <1>5, TypeInvStep DEF IInv
  <2>2. RequestInv' /\ OneCreator' /\ RowInv'
    BY <1>5 DEF vars, IInv, RequestInv, OneCreator, RowInv,
                RowExists, PostExists
  <2>3. TaskInv' /\ AttemptInv'
    BY <1>5 DEF vars, IInv, TaskInv, AttemptInv, Recorded, AttemptOf
  <2>4. PublishedMeansLive' /\ AnnouncedMeansRecorded'
    BY <1>5 DEF vars, IInv, PublishedMeansLive, AnnouncedMeansRecorded
  <2> QED BY <2>1, <2>2, <2>3, <2>4 DEF IInv
<1> QED BY <1>1, <1>2, <1>3, <1>4, <1>5 DEF Next

\* The inductive invariant holds of every reachable state.
THEOREM Inductive == Spec => []IInv
  BY InitIInv, IInvStep, PTL DEF Spec

-----------------------------------------------------------------------------
(* The safety properties, for every value of the constants.                *)

\* A row shows only public posts of its own target, whatever tasks, retries,
\* lost answers, worker deaths and deletions did before.
THEOREM RowsShowPublicPosts == Spec => []PublishedMeansLive
<1>1. IInv => PublishedMeansLive
  BY DEF IInv
<1> QED BY <1>1, Inductive, PTL

\* A post.published event never precedes the record of its post.
THEOREM EventsFollowRecords == Spec => []AnnouncedMeansRecorded
<1>1. IInv => AnnouncedMeansRecorded
  BY DEF IInv
<1> QED BY <1>1, Inductive, PTL

\* A completed task has recorded its result.
THEOREM CompletedTasksRecorded == Spec => []DoneMeansRecorded
<1>1. IInv => DoneMeansRecorded
  BY DEF IInv, TaskInv, DoneMeansRecorded, Recorded
<1> QED BY <1>1, Inductive, PTL

LEMMA HeardOnce == IInv => OnePostPerTask
<1> SUFFICES ASSUME IInv, NEW a \in live, NEW b \in live,
                    a[2] = b[2], a[3] < b[3]
             PROVE  a \in unacked
  BY DEF OnePostPerTask
<1>1. a \in Attempt /\ b \in Attempt
  BY DEF IInv, TypeInv, TypeOK
<1>2. a[3] \in Nat /\ b[3] \in Nat /\ jobs[a[2]].run \in Nat
  BY <1>1 DEF Attempt, IInv, TypeInv, TypeOK, Job
<1>3. b[3] <= jobs[a[2]].run
  BY DEF IInv, AttemptInv
<1>4. a[3] # jobs[a[2]].run
  BY <1>2, <1>3
<1> QED BY <1>4 DEF IInv, AttemptInv

\* A task publishes again only after a run nobody heard the outcome of.
THEOREM RetriesOnlyWhenUnheard == Spec => []OnePostPerTask
  BY HeardOnce, Inductive, PTL

\* A public post that no row shows is one whose record is still to come, was
\* cut off or failed.
THEOREM UnrecordedPostsExplained == Spec => []LiveIsAccountedFor
<1>1. IInv => LiveIsAccountedFor
  <2> SUFFICES ASSUME IInv, NEW a \in live, a \notin unacked, ~Recorded(a[1])
               PROVE  /\ jobs[a[2]].run = a[3]
                      /\ jobs[a[2]].pc \in {"await", "record", "archived"}
    BY DEF LiveIsAccountedFor, Recorded
  <2>1. a[2] \in JobIds
    BY DEF IInv, TypeInv, TypeOK, Attempt
  <2>2. /\ jobs[a[2]].target = a[1]
        /\ a[3] = jobs[a[2]].run
        /\ jobs[a[2]].pc \in {"await", "record", "announce", "deliver", "done",
                              "archived"}
    BY DEF IInv, AttemptInv, Settled
  <2>3. jobs[a[2]].pc \notin {"announce", "deliver", "done"}
    BY <2>1, <2>2 DEF IInv, TaskInv
  <2> QED BY <2>2, <2>3
<1> QED BY <1>1, Inductive, PTL

-----------------------------------------------------------------------------
(* Progress of tasks, and how often they publish.                          *)

\* The kinds of step the tasks table takes at task j.
Enqueued(j) ==
  /\ jobs[j].pc = "absent"
  /\ jobs'[j].pc = "pending" /\ jobs'[j].retried = 0 /\ jobs'[j].run = 0
  /\ requeues' = requeues

Delivered(j) ==
  /\ jobs[j].pc = "pending"
  /\ jobs'[j].pc = "getTarget" /\ jobs'[j].retried = jobs[j].retried
  /\ jobs'[j].run = jobs[j].run + 1
  /\ requeues' = requeues

MovedOn(j) ==
  /\ jobs[j].pc \in Running /\ jobs'[j].pc \in Running \cup Settled
  /\ Place[jobs'[j].pc] > Place[jobs[j].pc]
  /\ jobs'[j].retried = jobs[j].retried /\ jobs'[j].run = jobs[j].run
  /\ requeues' = requeues

Retried(j) ==
  /\ jobs[j].pc \in Running
  /\ jobs[j].retried < MaxRetry
  /\ jobs'[j].pc = "pending" /\ jobs'[j].retried = jobs[j].retried + 1
  /\ jobs'[j].run = jobs[j].run
  /\ requeues' = requeues

HandedBack(j) ==
  /\ jobs[j].pc \in Running
  /\ jobs'[j].pc = "pending" /\ jobs'[j].retried = jobs[j].retried
  /\ jobs'[j].run = jobs[j].run
  /\ requeues' = requeues + 1 /\ requeues' <= MaxRequeues

OwnStep(j) ==
  Enqueued(j) \/ Delivered(j) \/ MovedOn(j) \/ Retried(j) \/ HandedBack(j)

LEMMA WorkerMoves ==
  ASSUME TypeInv, NEW j \in JobIds, WorkerStep(j) \/ WorkerFault(j)
  PROVE  /\ OwnStep(j)
         /\ \A k \in JobIds \ {j} : jobs'[k] = jobs[k]
<1> DEFINE Rest == \A k \in JobIds \ {j} : jobs'[k] = jobs[k]
<1> SUFFICES OwnStep(j) /\ Rest
  OBVIOUS
<1>t. /\ jobs \in [JobIds -> Job] /\ requeues \in Nat
      /\ jobs[j].retried \in Nat /\ jobs[j].run \in Nat
  BY DEF TypeInv, TypeOK, Job
<1>g. ASSUME jobs[j].pc \in Running, NEW label \in Running \cup Settled,
             Goto(j, label), Place[label] > Place[jobs[j].pc],
             requeues' = requeues
      PROVE  MovedOn(j) /\ Rest
  BY <1>t, <1>g DEF Goto, MovedOn, Job
<1>p. /\ \A pc \in Running : Place[pc] < Place["archived"]
      /\ Place["getTarget"] < Place["getAccount"]
      /\ Place["getAccount"] < Place["adapter"]
      /\ Place["adapter"] < Place["await"]
      /\ Place["await"] < Place["markFailed"]
      /\ Place["await"] < Place["record"]
      /\ Place["record"] < Place["announce"]
      /\ Place["announce"] < Place["deliver"]
      /\ Place["deliver"] < Place["done"]
  BY DEF Place, Running, BeforeCall, AfterCall, Settled
<1>n. /\ {"getTarget", "getAccount", "adapter", "await", "markFailed",
          "record", "announce", "deliver"} \subseteq Running
      /\ {"done", "archived"} \subseteq Settled
  BY DEF Running, BeforeCall, AfterCall, Settled
<1>r. ASSUME jobs[j].pc \in Running, Retry(j), requeues' = requeues
      PROVE  OwnStep(j) /\ Rest
  <2>1. CASE jobs[j].retried < MaxRetry
    BY <1>t, <1>r, <2>1 DEF Retry, OwnStep, Retried, Job
  <2>2. CASE ~(jobs[j].retried < MaxRetry)
    <3>1. Goto(j, "archived")
      BY <1>r, <2>2 DEF Retry, Goto
    <3> QED BY <3>1, <1>r, <1>g, <1>p, <1>n DEF OwnStep
  <2> QED BY <2>1, <2>2
<1>1. CASE Dequeue(j)
  BY <1>1, <1>t DEF Dequeue, OwnStep, Delivered, Job
<1>2. CASE ShutdownRequeues(j)
  BY <1>2, <1>t, ConstantsAssumption
  DEF ShutdownRequeues, Goto, OwnStep, HandedBack, Job
<1> HIDE DEF Rest
<1>3. CASE RunRefused(j) \/ RunErrs(j) \/ MarkFailed(j) \/ LeaseExpires(j)
  BY <1>3, <1>r, <1>n DEF RunRefused, RunErrs, MarkFailed, LeaseExpires, BeforeCall
<1>4. CASE GetTarget(j) \/ GetAccount(j) \/ CallAdapter(j) \/ NoAdapter(j)
  BY <1>4, <1>g, <1>p, <1>n
  DEF GetTarget, GetAccount, CallAdapter, NoAdapter, OwnStep
<1>5. CASE AdapterSucceeds(j) \/ AdapterRefuses(j) \/ AdapterTimesOut(j)
  BY <1>5, <1>g, <1>p, <1>n
  DEF AdapterSucceeds, AdapterRefuses, AdapterTimesOut, OwnStep
<1>6. CASE RecordPublished(j) \/ RecordFails(j) \/ Announce(j) \/ EnqueueDeliver(j)
  BY <1>6, <1>g, <1>p, <1>n
  DEF RecordPublished, RecordFails, Announce, EnqueueDeliver, OwnStep
<1> QED BY <1>1, <1>2, <1>3, <1>4, <1>5, <1>6 DEF WorkerStep, WorkerFault

\* A step changes one task at most, and in one of these ways.
LEMMA TasksMove ==
  ASSUME TypeInv, [Next]_vars, NEW j \in JobIds
  PROVE  \/ OwnStep(j)
         \/ jobs'[j] = jobs[j] /\ requeues' \in {requeues, requeues + 1}
<1>1. CASE NewRequest
  BY <1>1 DEF NewRequest, CreatePost, PublishSetStatus, Cancel, DeletePost,
              Duplicate, DeleteAccount, UnchangedWorker
<1>2. ASSUME NEW c \in Clients, HandlerStep(c) \/ RequestAborts(c)
      PROVE  \/ OwnStep(j)
             \/ jobs'[j] = jobs[j] /\ requeues' = requeues
  <2>1. ASSUME NEW t \in Targets, NEW k \in JobIds, PublishEnqueue(c, t, k)
        PROVE  OwnStep(j) \/ (jobs'[j] = jobs[j] /\ requeues' = requeues)
    <3>1. jobs \in [JobIds -> Job]
      BY DEF TypeInv, TypeOK
    <3>2. CASE j = k
      BY <2>1, <3>1, <3>2 DEF PublishEnqueue, OwnStep, Enqueued
    <3>3. CASE j # k
      BY <2>1, <3>1, <3>3 DEF PublishEnqueue
    <3> QED BY <3>2, <3>3
  <2> HIDE DEF OwnStep
  <2> QED BY <1>2, <2>1 DEF HandlerStep, CreateTarget, PublishListTargets,
          PublishEnqueueFails, RequestRefused, RequestAborts, UnchangedWorker
<1>3. ASSUME NEW k \in JobIds, WorkerStep(k) \/ WorkerFault(k)
      PROVE  \/ OwnStep(j)
             \/ jobs'[j] = jobs[j] /\ requeues' \in {requeues, requeues + 1}
  <2>1. OwnStep(k) /\ \A i \in JobIds \ {k} : jobs'[i] = jobs[i]
    BY <1>3, WorkerMoves
  <2>2. requeues' \in {requeues, requeues + 1}
    BY <2>1 DEF OwnStep, Enqueued, Delivered, MovedOn, Retried, HandedBack
  <2> QED BY <2>1, <2>2
<1>4. ASSUME NEW a \in inflight, PlatformStep(a)
      PROVE  jobs'[j] = jobs[j] /\ requeues' = requeues
  BY <1>4 DEF PlatformStep, PlatformAccepts, PlatformRefuses
<1>5. CASE UNCHANGED vars
  BY <1>5 DEF vars
<1> QED BY <1>1, <1>2, <1>3, <1>4, <1>5 DEF Next

\* Every run was paid for: the first by the enqueue, each further one by a
\* counted retry or a requeue.
RunsPaid ==
  \A j \in JobIds :
    /\ jobs[j].pc = "absent" => jobs[j].retried = 0 /\ jobs[j].run = 0
    /\ jobs[j].pc = "pending" => jobs[j].run <= jobs[j].retried + requeues
    /\ jobs[j].run <= jobs[j].retried + requeues + 1
    /\ jobs[j].pc \in Running => jobs[j].run > 0

LEMMA RunsPaidStep == TypeInv /\ RunsPaid /\ [Next]_vars => RunsPaid'
<1> SUFFICES ASSUME TypeInv, RunsPaid, [Next]_vars, NEW j \in JobIds
             PROVE  /\ jobs'[j].pc = "absent" =>
                         jobs'[j].retried = 0 /\ jobs'[j].run = 0
                    /\ jobs'[j].pc = "pending" =>
                         jobs'[j].run <= jobs'[j].retried + requeues'
                    /\ jobs'[j].run <= jobs'[j].retried + requeues' + 1
                    /\ jobs'[j].pc \in Running => jobs'[j].run > 0
  BY DEF RunsPaid
<1>t. jobs[j].retried \in Nat /\ jobs[j].run \in Nat /\ requeues \in Nat
  BY DEF TypeInv, TypeOK, Job
<1>i. /\ jobs[j].pc = "absent" => jobs[j].retried = 0 /\ jobs[j].run = 0
      /\ jobs[j].pc = "pending" => jobs[j].run <= jobs[j].retried + requeues
      /\ jobs[j].run <= jobs[j].retried + requeues + 1
      /\ jobs[j].pc \in Running => jobs[j].run > 0
  BY DEF RunsPaid
<1>n. "absent" \notin Running \cup Settled /\ "pending" \notin Running \cup Settled
  BY DEF Running, BeforeCall, AfterCall, Settled
<1>1. CASE Enqueued(j)
  BY <1>1, <1>t, <1>n DEF Enqueued
<1>2. CASE Delivered(j)
  BY <1>2, <1>t, <1>i DEF Delivered
<1>3. CASE MovedOn(j)
  BY <1>3, <1>t, <1>i, <1>n DEF MovedOn
<1>4. CASE Retried(j)
  BY <1>4, <1>t, <1>i, <1>n DEF Retried
<1>5. CASE HandedBack(j)
  BY <1>5, <1>t, <1>i, <1>n DEF HandedBack
<1>6. CASE jobs'[j] = jobs[j] /\ requeues' \in {requeues, requeues + 1}
  BY <1>6, <1>t, <1>i
<1> QED BY <1>1, <1>2, <1>3, <1>4, <1>5, <1>6, TasksMove DEF OwnStep

\* The platform knows only numbered runs.
AttemptsNumbered == \A a \in inflight \cup live : a[3] > 0

LEMMA AttemptsNumberedStep ==
  TypeInv /\ RunsPaid /\ AttemptsNumbered /\ [Next]_vars => AttemptsNumbered'
<1> SUFFICES ASSUME TypeInv, RunsPaid, AttemptsNumbered, [Next]_vars
             PROVE  AttemptsNumbered'
  OBVIOUS
<1> USE DEF AttemptsNumbered
<1>1. ASSUME UNCHANGED outside PROVE AttemptsNumbered'
  BY <1>1 DEF outside
<1>2. ASSUME NEW j \in JobIds, CallAdapter(j) PROVE AttemptsNumbered'
  <2>1. AttemptOf(j)[3] > 0
    BY <1>2 DEF CallAdapter, RunsPaid, AttemptOf, Running, BeforeCall
  <2> QED BY <1>2, <2>1 DEF CallAdapter
<1>3. ASSUME NEW a \in inflight, PlatformStep(a) PROVE AttemptsNumbered'
  BY <1>3 DEF PlatformStep, PlatformAccepts, PlatformRefuses
<1>4. ASSUME NEW j \in JobIds, WorkerStep(j) \/ WorkerFault(j)
      PROVE  UNCHANGED outside \/ CallAdapter(j)
  BY <1>4 DEF WorkerStep, WorkerFault, Dequeue, RunRefused, RunErrs, GetTarget,
     GetAccount, NoAdapter, AdapterSucceeds, AdapterRefuses, AdapterTimesOut,
     MarkFailed, RecordPublished, RecordFails, Announce, EnqueueDeliver,
     LeaseExpires, ShutdownRequeues
<1>5. ASSUME \/ NewRequest
             \/ \E c \in Clients : HandlerStep(c) \/ RequestAborts(c)
      PROVE  UNCHANGED outside
  BY <1>5 DEF NewRequest, CreatePost, PublishSetStatus, Cancel, DeletePost,
     Duplicate, DeleteAccount, HandlerStep, CreateTarget, PublishListTargets,
     PublishEnqueue, PublishEnqueueFails, RequestRefused, RequestAborts,
     UnchangedWorker
<1> HIDE DEF AttemptsNumbered
<1> QED BY <1>1, <1>2, <1>3, <1>4, <1>5 DEF Next, vars, outside

LEMMA AllRunsPaid == Spec => [](TypeInv /\ RunsPaid /\ AttemptsNumbered)
<1>1. Init => RunsPaid /\ AttemptsNumbered
  BY DEF Init, RunsPaid, AttemptsNumbered, Running, BeforeCall, AfterCall
<1> QED BY <1>1, InitTypeInv, TypeInvStep, RunsPaidStep, AttemptsNumberedStep,
           PTL DEF Spec

\* Every step of a task brings it on, or uses up one of the retries or
\* requeues it is allowed, whatever the other processes and the faults do:
\* with weak fairness of the workers, this is why tasks settle.
THEOREM NoFreeRetries == Spec => TasksAdvance
<1>1. TypeInv /\ RunsPaid /\ [Next]_vars => [\A j \in JobIds : Onward(j)]_vars
  <2> SUFFICES ASSUME TypeInv, RunsPaid, [Next]_vars, NEW j \in JobIds
               PROVE  Onward(j)
    OBVIOUS
  <2>t. jobs[j].retried \in Nat /\ MaxRetry \in Nat
    BY ConstantsAssumption DEF TypeInv, TypeOK, Job
  <2>1. CASE Enqueued(j)
    BY <2>1 DEF Enqueued, Onward, Place, RunsPaid
  <2>2. CASE Delivered(j)
    BY <2>2 DEF Delivered, Onward, Place, Running, BeforeCall
  <2>3. CASE MovedOn(j)
    BY <2>3 DEF MovedOn, Onward
  <2>4. CASE Retried(j)
    BY <2>4, <2>t DEF Retried, Onward
  <2>5. CASE HandedBack(j)
    BY <2>5 DEF HandedBack, Onward
  <2>6. CASE jobs'[j] = jobs[j]
    BY <2>6 DEF Onward
  <2> QED BY <2>1, <2>2, <2>3, <2>4, <2>5, <2>6, TasksMove DEF OwnStep
<1> QED BY <1>1, AllRunsPaid, PTL DEF Spec, TasksAdvance

\* A task makes at most one public post for each of its runs, and the runs are
\* counted.
THEOREM FewPosts == Spec => []PostsWithinRetries
<1>1. IInv /\ RunsPaid /\ AttemptsNumbered => PostsWithinRetries
  <2> SUFFICES ASSUME IInv, RunsPaid, AttemptsNumbered, NEW j \in JobIds
               PROVE  Cardinality({a \in live : a[2] = j})
                        <= jobs[j].retried + requeues + 1
    BY DEF PostsWithinRetries
  <2> DEFINE L == {a \in live : a[2] = j}
             f == [a \in L |-> a[3]]
             run == jobs[j].run
  <2>t. jobs[j].retried \in Nat /\ run \in Nat /\ requeues \in Nat
    BY DEF IInv, TypeInv, TypeOK, Job
  <2>1. \A a \in L : /\ a = <<jobs[j].target, j, a[3]>>
                     /\ a[3] \in 1 .. run
    <3> SUFFICES ASSUME NEW a \in live, a[2] = j
                 PROVE  a = <<jobs[j].target, j, a[3]>> /\ a[3] \in 1 .. run
      OBVIOUS
    <3>1. a = <<a[1], a[2], a[3]>> /\ a[3] \in Nat
      BY DEF IInv, TypeInv, TypeOK, Attempt
    <3>2. jobs[j].target = a[1] /\ a[3] <= run
      BY DEF IInv, AttemptInv
    <3>3. a[3] > 0
      BY DEF AttemptsNumbered
    <3> QED BY <2>t, <3>1, <3>2, <3>3
  <2>2. f \in Injection(L, 1 .. run)
    <3>1. f \in [L -> 1 .. run] /\ \A a \in L : f[a] = a[3]
      <4> HIDE DEF run, L
      <4> QED BY <2>1
    <3> HIDE DEF run, L, f
    <3>2. ASSUME NEW a \in L, NEW b \in L, f[a] = f[b] PROVE a = b
      <4>1. a[3] = b[3]
        BY <3>1, <3>2
      <4>2. a = <<jobs[j].target, j, a[3]>> /\ b = <<jobs[j].target, j, b[3]>>
        BY <2>1, <3>2 DEF L
      <4> QED BY <4>1, <4>2
    <3> QED BY <3>1, <3>2 DEF Injection, IsInjective
  <2>3. IsFiniteSet(1 .. run) /\ Cardinality(1 .. run) = run
    <3> HIDE DEF run
    <3>1. run \in Int /\ 1 \in Int /\ (1 > run => run = 0)
      BY <2>t
    <3>2. /\ IsFiniteSet(1 .. run)
          /\ Cardinality(1 .. run) = IF 1 > run THEN 0 ELSE run - 1 + 1
      BY <3>1, FS_Interval
    <3> QED BY <2>t, <3>1, <3>2
  <2>4. Cardinality(L) <= run /\ Cardinality(L) \in Nat
    <3> HIDE DEF L, f, run
    <3> QED BY <2>2, <2>3, FS_Injection, FS_CardinalityType
  <2>5. run <= jobs[j].retried + requeues + 1
    BY DEF RunsPaid
  <2> HIDE DEF run
  <2> QED BY <2>t, <2>4, <2>5
<1> QED BY <1>1, AllRunsPaid, Inductive, PTL

-----------------------------------------------------------------------------
(* Which runs overwrite which.                                             *)

\* The run that recorded what a row shows is over, about to be repeated, or
\* has only its events left.
RecordersGoOn ==
  \A t \in Targets : targets[t].ppid # Null =>
    LET a == targets[t].ppid IN
    a[3] = jobs[a[2]].run =>
      jobs[a[2]].pc \in {"pending", "announce", "deliver"} \cup Settled

\* What a step does to a row: nothing to its ID and status, or it removes the
\* ID, or records one, or marks a failure.
Kept(t) ==
  targets'[t].ppid = targets[t].ppid /\ targets'[t].status = targets[t].status

RecordedBy(t, j) ==
  /\ jobs[j].pc = "record" /\ jobs[j].target = t
  /\ targets'[t].ppid = AttemptOf(j) /\ targets'[t].status = "published"
  /\ jobs'[j].pc \in {"announce", "archived"} /\ jobs'[j].run = jobs[j].run

FailedBy(t, j) ==
  /\ jobs[j].pc = "markFailed" /\ jobs[j].target = t
  /\ targets'[t].ppid = targets[t].ppid
  /\ UNCHANGED unacked

LEMMA RowMoves ==
  ASSUME IInv, [Next]_vars, NEW t \in Targets
  PROVE  \/ Kept(t)
         \/ targets'[t].ppid = Null
         \/ \E j \in JobIds : RecordedBy(t, j) \/ FailedBy(t, j)
<1> USE DEF UnchangedWorker, UnchangedApi, outside, outbox, db
<1>t. targets \in [Targets -> Row] /\ jobs \in [JobIds -> Job]
  BY DEF IInv, TypeInv, TypeOK
<1>1. ASSUME NEW p \in Posts, DeletePost(p)
      PROVE  Kept(t) \/ targets'[t].ppid = Null
  BY <1>1 DEF DeletePost, Kept, NoRow
<1>2. ASSUME NEW c \in Clients, NEW u \in Targets, CreateTarget(c, u)
      PROVE  Kept(t) \/ targets'[t].ppid = Null
  BY <1>2, <1>t DEF CreateTarget, Kept, NoRow
<1>3. ASSUME NEW j \in JobIds, MarkFailed(j) PROVE Kept(t) \/ FailedBy(t, j)
  <2>1. CASE jobs[j].target = t
    BY <1>3, <1>t, <2>1 DEF MarkFailed, Kept, FailedBy, Row
  <2>2. CASE jobs[j].target # t
    BY <1>3, <1>t, <2>2 DEF MarkFailed, Kept
  <2> QED BY <2>1, <2>2
<1>4. ASSUME NEW j \in JobIds, jobs[j].pc = "record", WritePublished(j),
             NEW label \in {"announce", "archived"}, Goto(j, label)
      PROVE  Kept(t) \/ RecordedBy(t, j)
  <2>1. jobs'[j].pc = label /\ jobs'[j].run = jobs[j].run
    BY <1>4, <1>t DEF Goto, Job
  <2>2. CASE jobs[j].target = t /\ RowExists(t)
    BY <1>4, <1>t, <2>1, <2>2 DEF WritePublished, RecordedBy, Row
  <2>3. CASE jobs[j].target # t \/ ~RowExists(t)
    BY <1>4, <1>t, <2>3 DEF WritePublished, Kept
  <2> QED BY <2>2, <2>3
<1>5. ASSUME NEW j \in JobIds, RecordPublished(j) \/ RecordFails(j)
      PROVE  Kept(t) \/ RecordedBy(t, j)
  BY <1>4, <1>5 DEF RecordPublished, RecordFails, Kept
<1>6. CASE UNCHANGED targets
  BY <1>6 DEF Kept
<1>7. ASSUME NEW j \in JobIds, WorkerStep(j) \/ WorkerFault(j)
      PROVE  \/ UNCHANGED targets \/ MarkFailed(j)
             \/ RecordPublished(j) \/ RecordFails(j)
  BY <1>7 DEF WorkerStep, WorkerFault, Dequeue, RunRefused, RunErrs, GetTarget,
     GetAccount, CallAdapter, NoAdapter, AdapterSucceeds, AdapterRefuses,
     AdapterTimesOut, Announce, EnqueueDeliver, LeaseExpires, ShutdownRequeues
<1>8. ASSUME NewRequest
      PROVE  UNCHANGED targets \/ \E p \in Posts : DeletePost(p)
  BY <1>8 DEF NewRequest, CreatePost, PublishSetStatus, Cancel, Duplicate,
     DeleteAccount
<1>9. ASSUME NEW c \in Clients, HandlerStep(c) \/ RequestAborts(c)
      PROVE  UNCHANGED targets \/ \E u \in Targets : CreateTarget(c, u)
  BY <1>9 DEF HandlerStep, PublishListTargets, PublishEnqueue,
     PublishEnqueueFails, RequestRefused, RequestAborts
<1>10. ASSUME NEW a \in inflight, PlatformStep(a) PROVE UNCHANGED targets
  BY <1>10 DEF PlatformStep, PlatformAccepts, PlatformRefuses
<1> QED BY <1>1, <1>2, <1>3, <1>5, <1>6, <1>7, <1>8, <1>9, <1>10 DEF Next, vars

\* A task keeps its target, what is not known of an attempt stays so, and the
\* number of a run never goes down.
LEMMA TasksKeep ==
  IInv /\ RunsPaid /\ [Next]_vars =>
    /\ \A j \in JobIds : jobs'[j].run >= jobs[j].run
    /\ \A j \in JobIds : jobs[j].pc # "absent" =>
                           jobs'[j].target = jobs[j].target
    /\ unacked \subseteq unacked'
<1> SUFFICES
      ASSUME IInv, RunsPaid, [Next]_vars
      PROVE  /\ \A j \in JobIds : jobs'[j].run >= jobs[j].run
             /\ \A j \in JobIds : jobs[j].pc # "absent" =>
                                    jobs'[j].target = jobs[j].target
             /\ unacked \subseteq unacked'
  OBVIOUS
<1> USE DEF UnchangedWorker, UnchangedApi, outside, outbox, db
<1>t. jobs \in [JobIds -> Job] /\ \A j \in JobIds : jobs[j].run \in Nat
  BY DEF IInv, TypeInv, TypeOK, Job
<1>1. ASSUME NEW j \in JobIds PROVE jobs'[j].run >= jobs[j].run
  <2>1. TypeInv
    BY DEF IInv
  <2>2. CASE OwnStep(j)
    BY <1>t, <2>2 DEF OwnStep, Enqueued, Delivered, MovedOn, Retried,
                      HandedBack, RunsPaid
  <2> QED BY <1>t, <2>1, <2>2, TasksMove
<1>r. ASSUME NEW k \in JobIds, Retry(k), NEW j \in JobIds
      PROVE  jobs'[j].target = jobs[j].target
  BY <1>r, <1>t DEF Retry, Job
<1>g. ASSUME NEW k \in JobIds, NEW label, Goto(k, label), NEW j \in JobIds
      PROVE  jobs'[j].target = jobs[j].target
  BY <1>g, <1>t DEF Goto, Job
<1>2. ASSUME NEW k \in JobIds, WorkerStep(k) \/ WorkerFault(k), NEW j \in JobIds
      PROVE  jobs'[j].target = jobs[j].target /\ unacked \subseteq unacked'
  <2>1. CASE Dequeue(k)
    BY <2>1, <1>t DEF Dequeue, Job
  <2>2. CASE RunRefused(k) \/ RunErrs(k) \/ MarkFailed(k) \/ LeaseExpires(k)
    BY <2>2, <1>r DEF RunRefused, RunErrs, MarkFailed, LeaseExpires, CutShort
  <2>3. CASE \/ GetTarget(k) \/ GetAccount(k) \/ CallAdapter(k) \/ NoAdapter(k)
             \/ AdapterSucceeds(k) \/ AdapterRefuses(k) \/ AdapterTimesOut(k)
    BY <2>3, <1>g DEF GetTarget, GetAccount, CallAdapter, NoAdapter,
       AdapterSucceeds, AdapterRefuses, AdapterTimesOut
  <2>4. CASE \/ RecordPublished(k) \/ RecordFails(k) \/ Announce(k)
             \/ EnqueueDeliver(k) \/ ShutdownRequeues(k)
    BY <2>4, <1>g DEF RecordPublished, RecordFails, Announce, EnqueueDeliver,
       ShutdownRequeues, CutShort
  <2> QED BY <1>2, <2>1, <2>2, <2>3, <2>4 DEF WorkerStep, WorkerFault
<1>3. ASSUME NEW c \in Clients, HandlerStep(c) \/ RequestAborts(c),
             NEW j \in JobIds, jobs[j].pc # "absent"
      PROVE  jobs'[j].target = jobs[j].target /\ unacked \subseteq unacked'
  <2>1. ASSUME NEW u \in Targets, NEW k \in JobIds, PublishEnqueue(c, u, k)
        PROVE  jobs'[j].target = jobs[j].target /\ unacked \subseteq unacked'
    BY <2>1, <1>3, <1>t DEF PublishEnqueue
  <2> QED BY <1>3, <2>1 DEF HandlerStep, CreateTarget, PublishListTargets,
          PublishEnqueueFails, RequestRefused, RequestAborts
<1>4. ASSUME NewRequest PROVE UNCHANGED <<jobs, unacked>>
  BY <1>4 DEF NewRequest, CreatePost, PublishSetStatus, Cancel, DeletePost,
              Duplicate, DeleteAccount
<1>5. ASSUME NEW a \in inflight, PlatformStep(a) PROVE UNCHANGED <<jobs, unacked>>
  BY <1>5 DEF PlatformStep, PlatformAccepts, PlatformRefuses
<1>6. ASSUME NEW c \in Clients, HandlerStep(c) \/ RequestAborts(c)
      PROVE  unacked \subseteq unacked'
  BY <1>6 DEF HandlerStep, CreateTarget, PublishListTargets, PublishEnqueue,
     PublishEnqueueFails, RequestRefused, RequestAborts
<1>7. ASSUME NEW k \in JobIds, WorkerStep(k) \/ WorkerFault(k)
      PROVE  unacked \subseteq unacked'
  BY <1>2, <1>7
<1>8. unacked \subseteq unacked'
  BY <1>4, <1>5, <1>6, <1>7 DEF Next, vars
<1>9. ASSUME NEW j \in JobIds, jobs[j].pc # "absent"
      PROVE  jobs'[j].target = jobs[j].target
  BY <1>2, <1>3, <1>4, <1>5, <1>9 DEF Next, vars
<1> QED BY <1>1, <1>8, <1>9

\* A row's ID is an attempt of a task that exists.
LEMMA ShownAttempts ==
  ASSUME IInv, NEW t \in Targets, targets[t].ppid # Null
  PROVE  LET a == targets[t].ppid IN
         /\ a \in live /\ a[1] = t /\ a[2] \in JobIds /\ a[3] \in Nat
         /\ jobs[a[2]].target = t /\ jobs[a[2]].pc # "absent"
         /\ a[3] <= jobs[a[2]].run
         /\ a \notin unacked =>
              /\ a[3] = jobs[a[2]].run
              /\ jobs[a[2]].pc \in {"await", "record", "announce", "deliver"}
                                     \cup Settled
<1>1. targets[t].ppid \in live /\ targets[t].ppid[1] = t
  BY DEF IInv, PublishedMeansLive
<1>2. targets[t].ppid \in Attempt
  BY <1>1 DEF IInv, TypeInv, TypeOK
<1> QED BY <1>1, <1>2 DEF IInv, AttemptInv, Attempt

LEMMA RecordersGoOnStep ==
  IInv /\ RunsPaid /\ RecordersGoOn /\ [Next]_vars => RecordersGoOn'
<1> SUFFICES ASSUME IInv, RunsPaid, RecordersGoOn, [Next]_vars, NEW t \in Targets,
                    targets'[t].ppid # Null,
                    targets'[t].ppid[3] = jobs'[targets'[t].ppid[2]].run
             PROVE  jobs'[targets'[t].ppid[2]].pc
                      \in {"pending", "announce", "deliver"} \cup Settled
  BY DEF RecordersGoOn
<1>1. ASSUME NEW j \in JobIds, RecordedBy(t, j)
      PROVE  jobs'[targets'[t].ppid[2]].pc
               \in {"pending", "announce", "deliver"} \cup Settled
  BY <1>1 DEF RecordedBy, AttemptOf, Settled
<1>2. CASE targets'[t].ppid = targets[t].ppid
  <2> DEFINE a == targets[t].ppid
             j == a[2]
  <2>1. j \in JobIds /\ a[3] \in Nat /\ a[3] <= jobs[j].run
        /\ jobs[j].pc # "absent"
    BY <1>2, ShownAttempts
  <2>2. a[3] = jobs[j].run =>
          jobs[j].pc \in {"pending", "announce", "deliver"} \cup Settled
    BY <1>2 DEF RecordersGoOn
  <2>3. a[3] = jobs'[j].run /\ jobs[j].run \in Nat
    BY <1>2, <2>1 DEF IInv, TypeInv, TypeOK, Job
  <2> HIDE DEF a, j
  <2>4. ASSUME OwnStep(j)
        PROVE  jobs'[j].pc \in {"pending", "announce", "deliver"} \cup Settled
    <3>1. ~Delivered(j)
      BY <2>1, <2>3 DEF Delivered
    <3>2. ASSUME MovedOn(j)
          PROVE  jobs'[j].pc \in {"announce", "deliver"} \cup Settled
      <4>1. jobs[j].pc \in {"announce", "deliver"}
        BY <2>2, <2>3, <3>2
        DEF MovedOn, Settled, Running, BeforeCall, AfterCall
      <4>2. Place[jobs'[j].pc] > Place[jobs[j].pc]
            /\ jobs'[j].pc \in Running \cup Settled
        BY <3>2 DEF MovedOn
      <4>3. \A pc \in Running :
              Place[pc] > 7 => pc \in {"announce", "deliver"}
        BY DEF Place, Running, BeforeCall, AfterCall, Settled
      <4>4. Place["announce"] = 7 /\ Place["deliver"] = 8
        BY DEF Place, Running, BeforeCall, AfterCall, Settled
      <4>5. \A pc \in Running : Place[pc] \in Nat
        BY DEF Place, Running, BeforeCall, AfterCall, Settled
      <4> QED BY <4>1, <4>2, <4>3, <4>4, <4>5
    <3>3. ASSUME Enqueued(j) \/ Retried(j) \/ HandedBack(j)
          PROVE  jobs'[j].pc = "pending"
      BY <3>3 DEF Enqueued, Retried, HandedBack
    <3> QED BY <2>4, <3>1, <3>2, <3>3 DEF OwnStep
  <2>5. ASSUME jobs'[j] = jobs[j]
        PROVE  jobs'[j].pc \in {"pending", "announce", "deliver"} \cup Settled
    BY <2>2, <2>3, <2>5
  <2>6. TypeInv
    BY DEF IInv
  <2>7. jobs'[j].pc \in {"pending", "announce", "deliver"} \cup Settled
    BY <2>1, <2>4, <2>5, <2>6, TasksMove
  <2> QED BY <1>2, <2>7 DEF a, j
<1> QED BY <1>1, <1>2, RowMoves DEF Kept, FailedBy

LEMMA OverwritesStep ==
  IInv /\ RunsPaid /\ RecordersGoOn /\ OverwriteExplained /\ [Next]_vars
    => OverwriteExplained'
<1> SUFFICES ASSUME IInv, RunsPaid, RecordersGoOn, OverwriteExplained,
                    [Next]_vars, NEW t \in Targets,
                    targets'[t].status = "failed", targets'[t].ppid # Null
             PROVE  LET a == targets'[t].ppid IN
                    \/ a \in unacked' /\ jobs'[a[2]].run > a[3]
                    \/ \E k \in JobIds \ {a[2]} :
                         jobs'[k].target = t /\ jobs'[k].run > 0
  BY DEF OverwriteExplained
<1> DEFINE a == targets'[t].ppid
           Explained == \/ a \in unacked /\ jobs[a[2]].run > a[3]
                        \/ \E k \in JobIds \ {a[2]} :
                             jobs[k].target = t /\ jobs[k].run > 0
<1>1. ~(\E j \in JobIds : RecordedBy(t, j))
  BY DEF RecordedBy
<1>2. a = targets[t].ppid /\ targets[t].ppid # Null
  BY <1>1, RowMoves DEF Kept, FailedBy
<1>3. /\ a[2] \in JobIds /\ a[3] \in Nat /\ a[3] <= jobs[a[2]].run
      /\ jobs[a[2]].target = t
      /\ a \notin unacked =>
           /\ a[3] = jobs[a[2]].run
           /\ jobs[a[2]].pc \in {"await", "record", "announce", "deliver"}
                                  \cup Settled
      /\ a[3] = jobs[a[2]].run =>
           jobs[a[2]].pc \in {"pending", "announce", "deliver"} \cup Settled
  BY <1>2, ShownAttempts DEF RecordersGoOn
<1>4. \A k \in JobIds : jobs[k].run \in Nat /\ jobs'[k].run \in Nat
  <2>1. TypeInv'
    BY TypeInvStep DEF IInv
  <2> QED BY <2>1 DEF IInv, TypeInv, TypeOK, Job
<1>5. ASSUME Kept(t) PROVE Explained
  <2>1. targets[t].status = "failed"
    BY <1>5 DEF Kept
  <2> QED BY <1>2, <2>1 DEF OverwriteExplained
<1>6. ASSUME NEW j \in JobIds, FailedBy(t, j) PROVE Explained
  <2>1. jobs[j].pc = "markFailed" /\ jobs[j].target = t /\ jobs[j].run > 0
    BY <1>6 DEF FailedBy, RunsPaid, Running, AfterCall
  <2>2. CASE j # a[2]
    BY <2>1, <2>2
  <2>3. CASE j = a[2]
    <3> HIDE DEF a
    <3>1. a \in unacked /\ a[3] # jobs[a[2]].run
      BY <1>3, <2>1, <2>3 DEF Settled
    <3> QED BY <1>3, <1>4, <3>1
  <2> QED BY <2>2, <2>3
<1>7. Explained
  BY <1>1, <1>2, <1>5, <1>6, RowMoves
<1>k. /\ \A j \in JobIds : jobs'[j].run >= jobs[j].run
      /\ \A j \in JobIds : jobs[j].pc # "absent" =>
                             jobs'[j].target = jobs[j].target
      /\ unacked \subseteq unacked'
  BY TasksKeep
<1> HIDE DEF a
<1>8. CASE a \in unacked /\ jobs[a[2]].run > a[3]
  <2>1. jobs'[a[2]].run >= jobs[a[2]].run /\ unacked \subseteq unacked'
    BY <1>3, <1>k
  <2>2. jobs'[a[2]].run > a[3]
    BY <1>3, <1>4, <1>8, <2>1
  <2>3. a \in unacked'
    BY <1>8, <2>1
  <2> QED BY <2>2, <2>3 DEF a
<1>9. ASSUME NEW k \in JobIds \ {a[2]}, jobs[k].target = t, jobs[k].run > 0
      PROVE  jobs'[k].target = t /\ jobs'[k].run > 0
  <2>1. jobs[k].pc # "absent"
    BY <1>9 DEF RunsPaid
  <2>2. jobs'[k].run >= jobs[k].run /\ jobs'[k].target = jobs[k].target
    BY <1>k, <2>1
  <2> QED BY <1>4, <1>9, <2>2
<1> QED BY <1>7, <1>8, <1>9 DEF a

\* A row that shows a public post says "failed" only after a run that knew
\* nothing of the success: of another task, or a later one of a task whose
\* earlier run was cut short.
THEOREM OverwritesAccounted == Spec => []OverwriteExplained
<1>1. Init => RecordersGoOn /\ OverwriteExplained
  BY DEF Init, RecordersGoOn, OverwriteExplained, NoRow
<1> QED BY <1>1, AllRunsPaid, Inductive, RecordersGoOnStep, OverwritesStep,
           PTL DEF Spec

-----------------------------------------------------------------------------
(* Refinement of PublishContract                                           *)

\* The mapped variables, written out.
Shown == [t \in Targets |-> targets[t].ppid]
Gone == {t \in Targets : targets[t].status = "deleted"}

LEMMA InitImplements == Init => Contract!Init
  BY DEF Init, Contract!Init, NoRow

\* A step that leaves the IDs shown, the deleted rows, the public posts, the
\* events and what is not known of attempts alone is a stuttering step of the contract.
LEMMA Stutter ==
  ASSUME UNCHANGED <<Shown, Gone, live, announced, unacked>>
  PROVE  UNCHANGED Contract!vars
  BY DEF Contract!vars, Shown, Gone

LEMMA RequestsImplement ==
  ASSUME IInv, NewRequest PROVE [Contract!Next]_(Contract!vars)
<1> USE DEF UnchangedWorker, outside, outbox
<1>1. ASSUME NEW p \in Posts, DeletePost(p)
      PROVE  Contract!Withdraw(RowsOf(p))
  <2>1. RowsOf(p) \subseteq Targets
    BY DEF RowsOf
  <2>2. Gone' = Gone \cup RowsOf(p)
    BY <1>1, <2>1 DEF DeletePost, Gone, NoRow
  <2>3. Shown' = [t \in Targets |-> IF t \in RowsOf(p) THEN Null ELSE Shown[t]]
    BY <1>1 DEF DeletePost, Shown, NoRow
  <2> QED BY <1>1, <2>2, <2>3 DEF Contract!Withdraw, DeletePost, Shown, Gone
<1>2. ASSUME NEW p \in Posts, DeletePost(p) PROVE Contract!Next
  <2>1. RowsOf(p) \in SUBSET Targets
    BY DEF RowsOf
  <2>2. Contract!Withdraw(RowsOf(p))
    BY <1>1, <1>2
  <2>3. \E ts \in SUBSET Targets : Contract!Withdraw(ts)
    BY <2>1, <2>2 DEF Contract!Withdraw
  <2> QED BY <2>3 DEF Contract!Next
<1>3. ASSUME UNCHANGED <<targets, live, announced, unacked>>
      PROVE  UNCHANGED Contract!vars
  BY <1>3, Stutter DEF Shown, Gone
<1> QED BY <1>2, <1>3
        DEF NewRequest, CreatePost, PublishSetStatus, Cancel, Duplicate,
            DeleteAccount

LEMMA HandlersImplement ==
  ASSUME IInv, NEW c \in Clients, HandlerStep(c) \/ RequestAborts(c)
  PROVE  [Contract!Next]_(Contract!vars)
<1> USE DEF UnchangedWorker, outside, outbox, db
<1>1. ASSUME NEW t \in Targets, CreateTarget(c, t)
      PROVE  UNCHANGED Contract!vars
  <2>1. targets[t].status = "absent" /\ targets[t].ppid = Null
    BY <1>1 DEF CreateTarget, IInv, RequestInv, RowInv, RowExists, RowStatus
  <2>2. targets \in [Targets -> Row]
    BY DEF IInv, TypeInv, TypeOK
  <2>3. Shown' = Shown /\ Gone' = Gone
    BY <1>1, <2>1, <2>2 DEF CreateTarget, Shown, Gone, NoRow
  <2> QED BY <1>1, <2>3, Stutter DEF CreateTarget
<1>2. ASSUME UNCHANGED <<targets, live, announced, unacked>>
      PROVE  UNCHANGED Contract!vars
  BY <1>2, Stutter DEF Shown, Gone
<1> QED BY <1>1, <1>2
        DEF HandlerStep, PublishListTargets, PublishEnqueue,
            PublishEnqueueFails, RequestRefused, RequestAborts

LEMMA WorkerImplements ==
  ASSUME IInv, NEW j \in JobIds,
         WorkerStep(j) \/ WorkerFault(j)
  PROVE  [Contract!Next]_(Contract!vars)
<1> USE DEF UnchangedApi, outside, outbox
<1>t. targets \in [Targets -> Row]
  BY DEF IInv, TypeInv, TypeOK
<1>x. jobs[j].pc # "absent" => jobs[j].target \in Targets
  BY DEF IInv, TypeInv, TasksHaveTargets
<1>1. ASSUME UNCHANGED <<targets, live, announced, unacked>>
      PROVE  UNCHANGED Contract!vars
  BY <1>1, Stutter DEF Shown, Gone
<1>2. ASSUME MarkFailed(j) PROVE UNCHANGED Contract!vars
  <2>1. Shown' = Shown /\ Gone' = Gone
    BY <1>2, <1>t, <1>x DEF MarkFailed, Shown, Gone, RowExists, RowStatus, Row
  <2> QED BY <1>2, <2>1, Stutter DEF MarkFailed
<1>3. ASSUME jobs[j].pc = "record", UNCHANGED <<live, announced, unacked>>,
             WritePublished(j) \/ UNCHANGED targets
      PROVE  [Contract!Next]_(Contract!vars)
  <2>1. CASE UNCHANGED targets
    BY <1>1, <1>3, <2>1
  <2>2. CASE WritePublished(j) /\ ~RowExists(jobs[j].target)
    BY <1>1, <1>3, <2>2 DEF WritePublished
  <2>3. CASE WritePublished(j) /\ RowExists(jobs[j].target)
    <3> DEFINE a == AttemptOf(j)
    <3>1. a \in live /\ a[1] = jobs[j].target /\ a[1] \in Targets
      BY <1>3, <1>x DEF IInv, TaskInv, AttemptOf
    <3>2. a[1] \notin Gone
      BY <2>3, <3>1 DEF Gone, RowExists, RowStatus
    <3>3. Shown' = [Shown EXCEPT ![a[1]] = a]
      BY <2>3, <3>1, <1>t DEF WritePublished, Shown, Row
    <3>4. Gone' = Gone
      BY <2>3, <3>1, <1>t DEF WritePublished, Gone, Row, RowExists, RowStatus
    <3>5. Contract!Record(a)
      BY <1>3, <3>1, <3>2, <3>3, <3>4 DEF Contract!Record, Shown, Gone
    <3>6. Contract!Next
      BY <3>1, <3>5 DEF Contract!Next, Contract!Record
    <3> QED BY <3>6
  <2> QED BY <1>3, <2>1, <2>2, <2>3
<1>4. ASSUME Announce(j), UNCHANGED announced PROVE UNCHANGED Contract!vars
  BY <1>1, <1>4 DEF Announce
<1>5. ASSUME Announce(j), announced' = announced \cup {AttemptOf(j)}
      PROVE  Contract!Next
  <2> DEFINE a == AttemptOf(j)
  <2>1. a \in live /\ a[1] = jobs[j].target /\ a[1] \in Targets
    BY <1>5, <1>x DEF Announce, IInv, TaskInv, AttemptOf
  <2>2. a[1] \in Gone \/ Shown[a[1]] # Null
    BY <1>5, <2>1 DEF Announce, IInv, TaskInv, Recorded, Shown, Gone
  <2>3. Shown' = Shown /\ Gone' = Gone
    BY <1>5 DEF Announce, Shown, Gone
  <2>4. Contract!Announce(a)
    BY <1>5, <2>1, <2>2, <2>3 DEF Contract!Announce, Announce, Shown, Gone
  <2> QED BY <2>1, <2>4 DEF Contract!Next
<1>9. ASSUME UNCHANGED <<targets, live, announced>>, unacked' \in SUBSET Attempt,
             unacked \subseteq unacked'
      PROVE  Contract!LoseTrack
  BY <1>9 DEF Contract!LoseTrack, Contract!Attempt, Attempt, Shown, Gone
<1>10. CASE AdapterTimesOut(j) \/ LeaseExpires(j) \/ ShutdownRequeues(j)
  <2>1. unacked' \in SUBSET Attempt
    BY WorkerKeepsType DEF IInv, TypeInv, TypeOK
  <2>2. UNCHANGED <<targets, live, announced>> /\ unacked \subseteq unacked'
    BY <1>10 DEF AdapterTimesOut, LeaseExpires, ShutdownRequeues, CutShort
  <2> QED BY <2>1, <2>2, <1>9 DEF Contract!Next
<1>6. CASE RecordPublished(j)
  BY <1>3, <1>6 DEF RecordPublished
<1>7. CASE RecordFails(j)
  BY <1>3, <1>7 DEF RecordFails
<1>8. CASE Announce(j)
  BY <1>4, <1>5, <1>8 DEF Announce
<1> QED BY <1>1, <1>2, <1>6, <1>7, <1>8, <1>10
        DEF WorkerStep, WorkerFault, Dequeue, RunRefused, RunErrs, GetTarget,
            GetAccount, CallAdapter, NoAdapter, AdapterSucceeds, AdapterRefuses,
            EnqueueDeliver

LEMMA HeardOnceNext == IInv' => OnePostPerTask'
  BY HeardOnce, PTL

LEMMA PlatformImplements ==
  ASSUME IInv, NEW a \in inflight, PlatformStep(a)
  PROVE  [Contract!Next]_(Contract!vars)
<1>1. /\ Shown' = Shown /\ Gone' = Gone
      /\ announced' = announced /\ unacked' = unacked
  BY DEF PlatformStep, PlatformAccepts, PlatformRefuses, db, outbox, Shown, Gone
<1>2. CASE PlatformRefuses(a)
  BY <1>1, <1>2, Stutter DEF PlatformRefuses
<1>3. CASE PlatformAccepts(a)
  <2>1. a \in Attempt /\ live \in SUBSET Attempt
    BY DEF IInv, TypeInv, TypeOK
  <2>3. IInv'
    BY PlatformKeepsIInv
  <2>4. \A b, c \in live' : b[2] = c[2] =>
          /\ b[1] = c[1]
          /\ b[3] < c[3] => b \in unacked
    <3>1. OnePostPerTask'
      BY <2>3, HeardOnceNext
    <3>2. \A b \in live' : jobs'[b[2]].target = b[1]
      BY <2>3 DEF IInv, AttemptInv
    <3> QED BY <1>1, <3>1, <3>2 DEF OnePostPerTask
  <2>2. Contract!GoLive
    BY <1>1, <1>3, <2>1, <2>4
    DEF PlatformAccepts, Contract!GoLive, Contract!Attempt, Attempt, Shown, Gone
  <2> QED BY <2>2 DEF Contract!Next
<1> QED BY <1>2, <1>3 DEF PlatformStep

\* The pipeline implements PublishContract: seen through the rows, the public
\* posts and the stored events, every step of handlers, workers, queue and
\* platform is a step of the contract or none.
THEOREM Implements == Spec => ImplementsContract
<1>1. IInv /\ [Next]_vars => [Contract!Next]_(Contract!vars)
  <2> SUFFICES ASSUME IInv, [Next]_vars
               PROVE  [Contract!Next]_(Contract!vars)
    OBVIOUS
  <2>1. CASE UNCHANGED vars
    BY <2>1, Stutter DEF vars, Shown, Gone
  <2>2. CASE Next
    BY <2>2, RequestsImplement, HandlersImplement, WorkerImplements,
       PlatformImplements DEF Next
  <2> QED BY <2>1, <2>2
<1> QED BY <1>1, InitImplements, Inductive, PTL
        DEF Spec, ImplementsContract, Contract!Spec

=============================================================================
