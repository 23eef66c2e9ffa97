--------------------------- MODULE WebhookDelivery ---------------------------
(***************************************************************************)
(* How an event reaches the webhook endpoints of a workspace.              *)
(*                                                                         *)
(* A producer (publishHandler, or the API's Test handler) inserts one row  *)
(* of webhook_deliveries per enabled endpoint and then enqueues one        *)
(* webhook:deliver task.  The task names the workspace only: each run lists*)
(* the endpoints and whatever rows are pending for them, so tasks of       *)
(* different events work on the same rows.  A task is named by the event   *)
(* whose producer enqueued it.  One workspace is modelled: every statement *)
(* of this component is restricted to one.                                 *)
(***************************************************************************)
EXTENDS Naturals, FiniteSets

CONSTANTS
  Endpoints, Events,
  Kind,        \* "publish" or "test": who produces an event
  RowOrder,    \* the order of the rows' random IDs
  Codes, Ok,   \* HTTP status codes, and those from 200 to 299
  Faults,      \* which calls may fail
  MaxOutages,  \* bound on the requests that get no answer
  MaxRetry,    \* asynq's retry limit of a task
  MaxRequeues, \* bound on the runs handed back by worker shutdowns
  Batch,       \* the limit given to ListPendingDeliveries
  None         \* no code, no delivery

Delivery == Events \X Endpoints
FaultKinds == {"insert", "enqueue", "endpoints", "deliveries", "decrypt",
               "mark", "crash"}

ASSUME WebhookAssumption ==
  /\ Kind \in [Events -> {"publish", "test"}]
  /\ RowOrder \in [Delivery -> Nat]
  /\ Ok \subseteq Codes
  /\ Faults \subseteq FaultKinds
  /\ MaxOutages \in Nat
  /\ MaxRetry \in Nat
  /\ MaxRequeues \in Nat
  /\ Batch \in Nat \ {0}
  /\ None \notin Codes \cup Delivery

VARIABLES
  endpoints,  \* rows of webhook_endpoints
  rows,       \* rows of webhook_deliveries
  producers,  \* where the producer of each event stands
  tasks,      \* webhook:deliver tasks and their current run
  outages,    \* requests that got no answer so far
  answers,    \* what every request that left a worker was answered
  unmarked,   \* answers of which MarkDelivered never succeeded
  requeues    \* runs handed back so far

vars == <<endpoints, rows, producers, tasks, outages, answers, unmarked,
          requeues>>

-----------------------------------------------------------------------------
Row == [status : {"none", "pending", "delivered", "deleted"},
        code : Codes \cup {None}]

Running == {"endpoints", "next", "decrypt", "send", "mark"}
Settled == {"done", "archived"}

Task == [pc : {"absent", "pending"} \cup Running \cup Settled,
         run : Nat,
         retried : 0 .. MaxRetry,
         eps : SUBSET Endpoints,
         passed : SUBSET Endpoints,  \* history: passed over after an error
         batch : SUBSET Delivery,
         cur : Delivery \cup {None},
         code : Codes \cup {None},
         failed : BOOLEAN]

Answer == [task : Events, run : Nat, to : Delivery, code : Codes \cup {None}]

NewTask == [pc |-> "absent", run |-> 0, retried |-> 0, eps |-> {},
            passed |-> {}, batch |-> {}, cur |-> None, code |-> None,
            failed |-> FALSE]

TypeOK ==
  /\ endpoints \in [Endpoints -> {"absent", "enabled", "disabled", "deleted"}]
  /\ rows \in [Delivery -> Row]
  /\ producers \in [Events -> {"idle", "insert", "enqueue", "done",
                           "dropped"}]
  /\ tasks \in [Events -> Task]
  /\ outages \in Nat
  /\ answers \in SUBSET Answer
  /\ unmarked \in SUBSET Answer
  /\ requeues \in Nat

Init ==
  /\ endpoints = [w \in Endpoints |-> "absent"]
  /\ rows = [d \in Delivery |-> [status |-> "none", code |-> None]]
  /\ producers = [e \in Events |-> "idle"]
  /\ tasks = [e \in Events |-> NewTask]
  /\ outages = 0
  /\ answers = {}
  /\ unmarked = {}
  /\ requeues = 0

-----------------------------------------------------------------------------
(* API: endpoints                                                          *)

UnchangedWorker == UNCHANGED <<tasks, outages, answers, unmarked, requeues>>

\* POST /v1/webhooks.  The secret is stored before the row and stays there.
CreateEndpoint(w, flag) ==
  /\ endpoints[w] = "absent"
  /\ endpoints' = [endpoints EXCEPT ![w] = flag]
  /\ UNCHANGED <<rows, producers>>
  /\ UnchangedWorker

\* DELETE /v1/webhooks/{id}; the foreign key of the deliveries cascades.
DeleteEndpoint(w) ==
  /\ endpoints[w] \in {"enabled", "disabled"}
  /\ endpoints' = [endpoints EXCEPT ![w] = "deleted"]
  /\ rows' = [d \in Delivery |->
                IF d[2] = w /\ rows[d].status \in {"pending", "delivered"}
                  THEN [rows[d] EXCEPT !.status = "deleted"] ELSE rows[d]]
  /\ UNCHANGED producers
  /\ UnchangedWorker

-----------------------------------------------------------------------------
(* Producers                                                               *)

\* A post was published and recorded, or Test found the endpoint it names.
Begin(e) ==
  /\ producers[e] = "idle"
  /\ Kind[e] = "test" => \E w \in Endpoints :
                           endpoints[w] \in {"enabled", "disabled"}
  /\ producers' = [producers EXCEPT ![e] = "insert"]
  /\ UNCHANGED <<endpoints, rows>>
  /\ UnchangedWorker

\* EnqueueDelivery: one INSERT ... SELECT over the enabled endpoints.
WriteRows(e) ==
  rows' = [d \in Delivery |->
             IF d[1] = e /\ endpoints[d[2]] = "enabled"
               THEN [status |-> "pending", code |-> None] ELSE rows[d]]

InsertRows(e) ==
  /\ producers[e] = "insert"
  /\ WriteRows(e)
  /\ producers' = [producers EXCEPT ![e] = "enqueue"]
  /\ UNCHANGED endpoints
  /\ UnchangedWorker

\* The statement returned an error, committed or not: publishHandler logs it
\* and goes on, Test answers 500 and enqueues nothing.
InsertFails(e) ==
  /\ "insert" \in Faults
  /\ producers[e] = "insert"
  /\ WriteRows(e) \/ UNCHANGED rows
  /\ producers' = [producers EXCEPT ![e] =
                     IF Kind[e] = "publish" THEN "enqueue" ELSE "dropped"]
  /\ UNCHANGED endpoints
  /\ UnchangedWorker

\* Mutant: the producer relies on the tasks of other events.
EnqueueOnlyTests(e) ==
  /\ producers[e] = "enqueue"
  /\ producers' = [producers EXCEPT ![e] = "done"]
  /\ tasks' = IF Kind[e] = "test" THEN [tasks EXCEPT ![e].pc = "pending"]
                                  ELSE tasks
  /\ UNCHANGED <<endpoints, rows, outages, answers, unmarked, requeues>>

Enqueue(e) ==
  /\ producers[e] = "enqueue"
  /\ producers' = [producers EXCEPT ![e] = "done"]
  /\ tasks' = [tasks EXCEPT ![e].pc = "pending"]
  /\ UNCHANGED <<endpoints, rows, outages, answers, unmarked, requeues>>

\* Both producers drop the error of Enqueue.
EnqueueFails(e) ==
  /\ "enqueue" \in Faults
  /\ producers[e] = "enqueue"
  /\ producers' = [producers EXCEPT ![e] = "dropped"]
  /\ UNCHANGED <<endpoints, rows>>
  /\ UnchangedWorker

-----------------------------------------------------------------------------
(* webhookDeliverHandler.ProcessTask                                       *)

UnchangedApi == UNCHANGED <<endpoints, producers>>

Dequeue(t) ==
  /\ tasks[t].pc = "pending"
  /\ tasks' = [tasks EXCEPT ![t].pc = "endpoints"]
  /\ UnchangedApi
  /\ UNCHANGED <<rows, outages, answers, unmarked, requeues>>

\* The next run of a task: it starts with no error and no endpoints, whatever
\* the last one left.
NextRun(t, n) == [NewTask EXCEPT !.pc = "pending",
                                 !.run = tasks[t].run + 1, !.retried = n]

\* Mutant: the limit is taken for the number of runs after the last retry.
RetryOnceMore(t) ==
  tasks' = IF tasks[t].retried <= MaxRetry
             THEN [tasks EXCEPT ![t] = NextRun(t, tasks[t].retried + 1)]
             ELSE [tasks EXCEPT ![t].pc = "archived"]

\* asynq runs a task again after an error, up to its retry limit.
Retry(t) ==
  tasks' = IF tasks[t].retried < MaxRetry
             THEN [tasks EXCEPT ![t] = NextRun(t, tasks[t].retried + 1)]
             ELSE [tasks EXCEPT ![t].pc = "archived"]

ListEndpoints(t) ==
  /\ tasks[t].pc = "endpoints"
  /\ tasks' = [tasks EXCEPT
                 ![t].pc = "next",
                 ![t].eps = {w \in Endpoints : endpoints[w] = "enabled"}]
  /\ UnchangedApi
  /\ UNCHANGED <<rows, outages, answers, unmarked, requeues>>

ListEndpointsFails(t) ==
  /\ "endpoints" \in Faults
  /\ tasks[t].pc = "endpoints"
  /\ Retry(t)
  /\ UnchangedApi
  /\ UNCHANGED <<rows, outages, answers, unmarked, requeues>>

Pending(w) == {d \in Delivery : d[2] = w /\ rows[d].status = "pending"}

FirstRows(w) ==
  {d \in Pending(w) :
     Cardinality({x \in Pending(w) : RowOrder[x] < RowOrder[d]}) < Batch}

\* ListPendingDeliveries of the next endpoint; the endpoints come newest
\* first, here in any order.
ListPending(t, w) ==
  /\ tasks[t].pc = "next"
  /\ w \in tasks[t].eps
  /\ tasks' = [tasks EXCEPT
                 ![t].pc = IF FirstRows(w) = {} THEN "next" ELSE "decrypt",
                 ![t].eps = @ \ {w},
                 ![t].batch = FirstRows(w)]
  /\ UnchangedApi
  /\ UNCHANGED <<rows, outages, answers, unmarked, requeues>>

\* The error is logged and the endpoint passed over.
ListPendingFails(t, w) ==
  /\ "deliveries" \in Faults
  /\ tasks[t].pc = "next"
  /\ w \in tasks[t].eps
  /\ tasks' = [tasks EXCEPT ![t].eps = @ \ {w},
                            ![t].passed = @ \cup {w}]
  /\ UnchangedApi
  /\ UNCHANGED <<rows, outages, answers, unmarked, requeues>>

Decrypt(t) ==
  /\ tasks[t].pc = "decrypt"
  /\ tasks' = [tasks EXCEPT ![t].pc = "send"]
  /\ UnchangedApi
  /\ UNCHANGED <<rows, outages, answers, unmarked, requeues>>

\* The error is logged and the endpoint passed over.
DecryptFails(t) ==
  /\ "decrypt" \in Faults
  /\ tasks[t].pc = "decrypt"
  /\ tasks' = [tasks EXCEPT
                 ![t].pc = "next", ![t].batch = {},
                 ![t].passed = @ \cup {d[2] : d \in tasks[t].batch}]
  /\ UnchangedApi
  /\ UNCHANGED <<rows, outages, answers, unmarked, requeues>>

\* Mutant: lastErr is assigned for every request, not only for a bad one.
PostAssignsError(t, d, c) ==
  /\ tasks[t].pc = "send"
  /\ d \in tasks[t].batch
  /\ answers' = answers \cup {[task |-> t, run |-> tasks[t].run,
                               to |-> d, code |-> c]}
  /\ tasks' = [tasks EXCEPT ![t].pc = "mark", ![t].cur = d, ![t].code = c,
                            ![t].failed = c \notin Ok]
  /\ UnchangedApi
  /\ UNCHANGED <<rows, outages, unmarked, requeues>>

\* The endpoint answers c; a code outside 200..299 fails the run at its end.
Post(t, d, c) ==
  /\ tasks[t].pc = "send"
  /\ d \in tasks[t].batch
  /\ answers' = answers \cup {[task |-> t, run |-> tasks[t].run,
                               to |-> d, code |-> c]}
  /\ tasks' = [tasks EXCEPT ![t].pc = "mark", ![t].cur = d, ![t].code = c,
                            ![t].failed = @ \/ c \notin Ok]
  /\ UnchangedApi
  /\ UNCHANGED <<rows, outages, unmarked, requeues>>

\* The step to the next delivery of the batch, or to the next endpoint.
After(t, d) == IF tasks[t].batch = {d} THEN "next" ELSE "send"

\* No connection, or no answer within 10 seconds.
PostFails(t, d) ==
  /\ outages < MaxOutages
  /\ tasks[t].pc = "send"
  /\ d \in tasks[t].batch
  /\ outages' = outages + 1
  /\ answers' = answers \cup {[task |-> t, run |-> tasks[t].run,
                               to |-> d, code |-> None]}
  /\ tasks' = [tasks EXCEPT ![t].pc = After(t, d), ![t].batch = @ \ {d},
                            ![t].failed = TRUE]
  /\ UnchangedApi
  /\ UNCHANGED <<rows, unmarked, requeues>>

Marked(t) ==
  /\ tasks[t].pc = "mark"
  /\ tasks' = [tasks EXCEPT ![t].pc = After(t, tasks[t].cur),
                            ![t].batch = @ \ {tasks[t].cur}]
  /\ UnchangedApi
  /\ UNCHANGED <<outages, answers, requeues>>

\* Mutant: the row is written whether or not it is still there.
WriteAnyway(t) ==
  rows' = [rows EXCEPT ![tasks[t].cur] =
             [status |-> "delivered", code |-> tasks[t].code]]

WriteDelivered(t) ==
  rows' = IF rows[tasks[t].cur].status \in {"pending", "delivered"}
            THEN [rows EXCEPT ![tasks[t].cur] =
                    [status |-> "delivered", code |-> tasks[t].code]]
            ELSE rows

\* Mutant: a delivery that was not accepted stays pending.
MarkAccepted(t) ==
  /\ Marked(t)
  /\ IF tasks[t].code \in Ok THEN WriteDelivered(t) ELSE UNCHANGED rows
  /\ UNCHANGED unmarked

\* Mutant: the rows of the batch are marked together.
MarkBatch(t) ==
  /\ Marked(t)
  /\ rows' = [d \in Delivery |->
                IF d \in tasks[t].batch /\ rows[d].status = "pending"
                  THEN [status |-> "delivered", code |-> tasks[t].code]
                  ELSE rows[d]]
  /\ UNCHANGED unmarked

\* MarkDelivered, whatever the code; it does not look at the row it updates.
Mark(t) ==
  /\ Marked(t)
  /\ WriteDelivered(t)
  /\ UNCHANGED unmarked

AnswerInHand(t) == [task |-> t, run |-> tasks[t].run,
                    to |-> tasks[t].cur, code |-> tasks[t].code]

\* The error of MarkDelivered is logged, whether or not it was committed.
MarkFails(t) ==
  /\ "mark" \in Faults
  /\ Marked(t)
  /\ WriteDelivered(t) \/ UNCHANGED rows
  /\ unmarked' = unmarked \cup {AnswerInHand(t)}

\* return lastErr
Finish(t) ==
  /\ tasks[t].pc = "next"
  /\ tasks[t].eps = {}
  /\ IF tasks[t].failed THEN Retry(t)
     ELSE tasks' = [tasks EXCEPT ![t].pc = "done"]
  /\ UnchangedApi
  /\ UNCHANGED <<rows, outages, answers, unmarked, requeues>>

\* An answer the run has in hand when it is cut short is never recorded.
CutShort(t) ==
  unmarked' = IF tasks[t].pc = "mark" THEN unmarked \cup {AnswerInHand(t)}
                                      ELSE unmarked

\* The worker dies in the middle of a run; the expired lease costs a retry.
Crash(t) ==
  /\ "crash" \in Faults
  /\ tasks[t].pc \in Running
  /\ Retry(t)
  /\ CutShort(t)
  /\ UnchangedApi
  /\ UNCHANGED <<rows, outages, answers, requeues>>

\* Pool.Run shuts the server down: unfinished runs go back to the queue and
\* do not count.
ShutdownRequeues(t) ==
  /\ requeues < MaxRequeues
  /\ tasks[t].pc \in Running
  /\ tasks' = [tasks EXCEPT ![t] = NextRun(t, tasks[t].retried)]
  /\ CutShort(t)
  /\ requeues' = requeues + 1
  /\ UnchangedApi
  /\ UNCHANGED <<rows, outages, answers>>

-----------------------------------------------------------------------------
ProducerStep(e) == InsertRows(e) \/ Enqueue(e)

ProducerFault(e) == InsertFails(e) \/ EnqueueFails(e)

WorkerStep(t) ==
  \/ Dequeue(t) \/ ListEndpoints(t) \/ Decrypt(t) \/ Mark(t) \/ Finish(t)
  \/ \E w \in Endpoints : ListPending(t, w)
  \/ \E d \in Delivery, c \in Codes : Post(t, d, c)

WorkerFault(t) ==
  \/ ListEndpointsFails(t) \/ DecryptFails(t) \/ MarkFails(t)
  \/ Crash(t) \/ ShutdownRequeues(t)
  \/ \E w \in Endpoints : ListPendingFails(t, w)
  \/ \E d \in Delivery : PostFails(t, d)

Api ==
  \/ \E w \in Endpoints :
       \/ \E flag \in {"enabled", "disabled"} : CreateEndpoint(w, flag)
       \/ DeleteEndpoint(w)
  \/ \E e \in Events : Begin(e)

Next ==
  \/ Api
  \/ \E e \in Events : ProducerStep(e) \/ ProducerFault(e)
  \/ \E t \in Events : WorkerStep(t) \/ WorkerFault(t)

\* A producer that began and a task that is queued are eventually scheduled;
\* an endpoint that is asked eventually answers or lets the client time out.
Fairness ==
  /\ \A e \in Events : WF_vars(ProducerStep(e))
  /\ \A t \in Events : WF_vars(WorkerStep(t))

Spec == Init /\ [][Next]_vars /\ Fairness

-----------------------------------------------------------------------------
(* Properties                                                              *)

\* A delivery row records as response_status a code that its own endpoint
\* gave for it, although several tasks work on the row at the same time.
DeliveredWasAnswered ==
  \A d \in Delivery : rows[d].status = "delivered" =>
    \E a \in answers : a.to = d /\ a.code = rows[d].code /\ a.code # None

\* A task is completed only by a run in which every request was accepted:
\* lastErr outlives the deliveries and endpoints that follow the bad one.
SuccessMeansAccepted ==
  \A a \in answers :
    tasks[a.task].pc = "done" /\ a.run = tasks[a.task].run => a.code \in Ok

\* A run asks for a delivery at most once, and a task asks again in a later run
\* only if it got no answer or could not record it; an answer of any code that
\* was recorded is the last one of that task.
ResentOnlyIfUnmarked ==
  \A a, b \in answers :
    a # b /\ a.task = b.task /\ a.to = b.to =>
      /\ a.run # b.run
      /\ a.run < b.run => a.code = None \/ a \in unmarked

\* The order of a run's stages, and of the steps within a batch.
Stage == [pc \in {"absent", "pending"} \cup Running \cup Settled |->
            CASE pc = "absent" -> 0 [] pc = "pending" -> 1
              [] pc = "endpoints" -> 2 [] pc \in Settled -> 4 [] OTHER -> 3]
Place == [pc \in {"next", "decrypt", "send", "mark"} |->
            CASE pc = "next" -> 0 [] pc = "decrypt" -> 1
              [] pc = "send" -> 2 [] pc = "mark" -> 3]

\* No step sends a task back without using up a retry or a requeue.  Within a
\* run the endpoints left get fewer, then the deliveries left of the batch,
\* then the steps left for one delivery; rows that others insert meanwhile, or
\* that stay pending, do not keep a run going.
Onward(t) ==
  LET old == tasks[t]
      new == tasks'[t] IN
  \/ new = old
  \/ new.retried = old.retried + 1 /\ new.retried <= MaxRetry
  \/ /\ new.retried = old.retried
     /\ requeues' = requeues + 1 /\ requeues' <= MaxRequeues
  \/ /\ new.run = old.run /\ new.retried = old.retried
     /\ \/ Stage[new.pc] > Stage[old.pc]
        \/ /\ Stage[new.pc] = 3 /\ Stage[old.pc] = 3
           /\ \/ new.eps \subseteq old.eps /\ new.eps # old.eps
              \/ /\ new.eps = old.eps
                 /\ \/ new.batch \subseteq old.batch /\ new.batch # old.batch
                    \/ /\ new.batch = old.batch
                       /\ Place[new.pc] > Place[old.pc]

TasksAdvance == [][\A t \in Events : Onward(t)]_vars

\* What the customer is promised of deliveries, without tasks and runs.
Contract == INSTANCE DeliveryContract WITH
  given <- {<<a.to, a.code>> : a \in {b \in answers : b.code # None}}

\* Webhook delivery implements the contract.
ImplementsContract == Contract!Spec

\* Why a stored delivery may stay pending: its producer answered an error or
\* dropped that of Enqueue, its task used up its retries, or completed in a
\* run that passed the endpoint over or failed to record the answer.
GivenUp(d) ==
  LET e == d[1] IN
  \/ producers[e] = "dropped"
  \/ tasks[e].pc = "archived"
  \/ /\ tasks[e].pc = "done"
     /\ \/ d[2] \in tasks[e].passed
        \/ \E a \in unmarked :
             a.task = e /\ a.run = tasks[e].run /\ a.to = d

\* Every stored delivery is sent and recorded, goes with its endpoint, or is
\* given up by its own event's task for one of these reasons, however the
\* tasks of other events interfere.
EventuallySent ==
  \A d \in Delivery :
    rows[d].status = "pending" ~> (rows[d].status # "pending" \/ GivenUp(d))

\* A delivery recorded as delivered was accepted by the endpoint: what the
\* comment of MarkDelivered says.
DeliveredMeansAccepted ==
  \A d \in Delivery : rows[d].status = "delivered" => rows[d].code \in Ok
=============================================================================
