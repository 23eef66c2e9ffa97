--------------------------- MODULE WebhookProofs ---------------------------
(***************************************************************************)
(* Proofs about WebhookDelivery, for every value of its constants: any     *)
(* number of events, endpoints and overlapping tasks, every fault.         *)
(***************************************************************************)
EXTENDS WebhookDelivery, TLAPS

\* A producer inserts its rows once and enqueues its task once.
ProducedOnce ==
  \A e \in Events :
    /\ producers[e] # "done" => tasks[e].pc = "absent"
    /\ producers[e] \in {"idle", "insert"} =>
         \A w \in Endpoints : rows[<<e, w>>].status = "none"

\* The answer a run is about to record is one it was given.
InHand ==
  \A t \in Events : tasks[t].pc = "mark" =>
    /\ tasks[t].cur \in Delivery
    /\ tasks[t].code \in Codes
    /\ AnswerInHand(t) \in answers

\* Tasks only work on rows that were inserted.
Inserted ==
  /\ \A t \in Events : \A d \in tasks[t].batch : rows[d].status # "none"
  /\ \A a \in answers : rows[a.to].status # "none"

\* No answer belongs to a run that is still to come, and a run that got a bad
\* answer carries an error.
RunsAndErrors ==
  /\ \A a \in answers :
       /\ a.run <= tasks[a.task].run
       /\ a.run = tasks[a.task].run =>
            /\ tasks[a.task].pc \notin {"absent", "pending", "endpoints"}
            /\ a.code \in Ok \/ tasks[a.task].failed
  /\ \A t \in Events : tasks[t].pc = "done" => ~tasks[t].failed

\* An answer is in its row, in the hands of its run, or was lost.
AnswersKept ==
  \A a \in answers :
    \/ a.code = None
    \/ a \in unmarked
    \/ rows[a.to].status \in {"delivered", "deleted"}
    \/ tasks[a.task].pc = "mark" /\ AnswerInHand(a.task) = a

\* A batch holds no delivery whose answer to an earlier run was kept.
BatchFresh ==
  \A a \in answers :
    \/ a.code = None
    \/ a \in unmarked
    \/ tasks[a.task].pc \notin {"decrypt", "send", "mark"}
    \/ a.to \notin tasks[a.task].batch
    \/ a.run = tasks[a.task].run

\* A task asks again only for want of a recorded answer.
ResendsExplained ==
  \A a, b \in answers :
    a.task = b.task /\ a.to = b.to /\ a.run < b.run =>
      a.code = None \/ a \in unmarked

IInv ==
  /\ TypeOK
  /\ ProducedOnce
  /\ InHand
  /\ Inserted
  /\ DeliveredWasAnswered
  /\ RunsAndErrors
  /\ AnswersKept
  /\ BatchFresh
  /\ ResendsExplained

-----------------------------------------------------------------------------
LEMMA InitIInv == Init => IInv
  BY WebhookAssumption
  DEF Init, IInv, TypeOK, Row, Task, NewTask, Answer, ProducedOnce, InHand,
      Inserted, DeliveredWasAnswered, RunsAndErrors, AnswersKept, BatchFresh,
      ResendsExplained, Delivery

(* Steps of the API and of producers leave the tasks and their answers.    *)

LEMMA RowsFrame ==
  ASSUME IInv,
         UNCHANGED <<tasks, answers, unmarked, outages, requeues>>,
         endpoints' \in [Endpoints -> {"absent", "enabled", "disabled",
                                       "deleted"}],
         rows' \in [Delivery -> Row],
         producers' \in [Events -> {"idle", "insert", "enqueue", "done",
                                    "dropped"}],
         ProducedOnce',
         \A d \in Delivery :
           /\ rows[d].status # "none" => rows'[d].status # "none"
           /\ rows[d].status \in {"delivered", "deleted"} =>
                rows'[d].status \in {"delivered", "deleted"}
           /\ rows'[d].status = "delivered" => rows'[d] = rows[d]
  PROVE  IInv'
<1>1. TypeOK'
  BY DEF IInv, TypeOK
<1>2. InHand' /\ RunsAndErrors' /\ BatchFresh' /\ ResendsExplained'
  BY DEF IInv, InHand, AnswerInHand, RunsAndErrors, BatchFresh,
         ResendsExplained
<1>3. Inserted'
  BY DEF IInv, TypeOK, Task, Answer, Inserted
<1>4. DeliveredWasAnswered'
  BY DEF IInv, DeliveredWasAnswered
<1>5. AnswersKept'
  BY DEF IInv, TypeOK, Answer, AnswersKept, AnswerInHand
<1> QED BY <1>1, <1>2, <1>3, <1>4, <1>5 DEF IInv

LEMMA ApiSteps == ASSUME IInv, Api PROVE IInv'
<1> USE DEF UnchangedWorker
<1>1. ASSUME NEW w \in Endpoints, NEW flag \in {"enabled", "disabled"},
             CreateEndpoint(w, flag)
      PROVE  IInv'
  BY <1>1, RowsFrame DEF CreateEndpoint, IInv, TypeOK, ProducedOnce
<1>2. ASSUME NEW w \in Endpoints, DeleteEndpoint(w) PROVE IInv'
  <2>1. rows' \in [Delivery -> Row]
    BY <1>2 DEF DeleteEndpoint, IInv, TypeOK, Row
  <2>2. ProducedOnce'
    BY <1>2 DEF DeleteEndpoint, IInv, ProducedOnce, Delivery
  <2> QED BY <1>2, <2>1, <2>2, RowsFrame DEF DeleteEndpoint, IInv, TypeOK, Row
<1>3. ASSUME NEW e \in Events, Begin(e) PROVE IInv'
  BY <1>3, RowsFrame DEF Begin, IInv, TypeOK, ProducedOnce
<1> QED BY <1>1, <1>2, <1>3 DEF Api

LEMMA ProducerSteps ==
  ASSUME IInv, NEW e \in Events, ProducerStep(e) \/ ProducerFault(e)
  PROVE  IInv'
<1> USE DEF UnchangedWorker
<1>1. ASSUME producers[e] = "insert",
             NEW pc \in {"enqueue", "dropped"},
             producers' = [producers EXCEPT ![e] = pc],
             WriteRows(e) \/ UNCHANGED rows,
             UNCHANGED endpoints, UnchangedWorker
      PROVE  IInv'
  <2>1. rows' \in [Delivery -> Row]
    BY <1>1 DEF WriteRows, IInv, TypeOK, Row
  <2>2. \A d \in Delivery : d = <<d[1], d[2]>> /\ d[1] \in Events
                            /\ d[2] \in Endpoints
    BY DEF Delivery
  <2>3. \A d \in Delivery : d[1] = e => rows[d].status = "none"
    BY <1>1, <2>2 DEF IInv, ProducedOnce
  <2>4. \A d \in Delivery :
          rows'[d] = rows[d] \/ (/\ rows[d].status = "none"
                                 /\ rows'[d].status = "pending")
    BY <1>1, <2>3 DEF WriteRows
  <2>5. ProducedOnce'
    BY <1>1 DEF WriteRows, IInv, TypeOK, ProducedOnce, Delivery
  <2> QED BY <1>1, <2>1, <2>4, <2>5, RowsFrame DEF IInv, TypeOK
<1>2. CASE InsertRows(e)
  BY <1>1, <1>2 DEF InsertRows
<1>3. CASE InsertFails(e)
  BY <1>1, <1>3 DEF InsertFails
<1>4. CASE EnqueueFails(e)
  BY <1>4, RowsFrame DEF EnqueueFails, IInv, TypeOK, ProducedOnce
<1>5. CASE Enqueue(e)
  <2> USE <1>5 DEF Enqueue
  <2>1. tasks[e].pc = "absent" /\ tasks[e] \in Task
    BY DEF IInv, TypeOK, ProducedOnce
  <2>2. tasks' = [tasks EXCEPT ![e] = [tasks[e] EXCEPT !.pc = "pending"]]
    OBVIOUS
  <2>3. TypeOK'
    BY <2>1 DEF IInv, TypeOK, Task
  <2>4. ProducedOnce' /\ InHand' /\ Inserted' /\ DeliveredWasAnswered'
    BY <2>1 DEF IInv, TypeOK, Task, ProducedOnce, InHand, AnswerInHand,
                Inserted, DeliveredWasAnswered
  <2>5. RunsAndErrors'
    BY <2>1 DEF IInv, TypeOK, Task, Answer, RunsAndErrors
  <2>6. AnswersKept' /\ BatchFresh' /\ ResendsExplained'
    BY <2>1 DEF IInv, TypeOK, Task, Answer, AnswersKept, AnswerInHand,
                BatchFresh, ResendsExplained
  <2> QED BY <2>3, <2>4, <2>5, <2>6 DEF IInv
<1> QED BY <1>2, <1>3, <1>4, <1>5 DEF ProducerStep, ProducerFault

-----------------------------------------------------------------------------
(* Steps of a run that neither send nor record.                            *)

\* A run moves on, or ends; nothing but its task changes.
LEMMA MoveFrame ==
  ASSUME IInv, NEW t \in Events, NEW x \in Task,
         UNCHANGED <<endpoints, rows, producers, outages, answers, unmarked,
                     requeues>>,
         tasks' = [tasks EXCEPT ![t] = x],
         tasks[t].pc \notin {"absent", "mark"},
         x.pc \notin {"absent", "mark"},
         \A d \in x.batch : rows[d].status # "none",
         x.pc = "done" => ~x.failed,
         \/ x.run = tasks[t].run + 1
         \/ /\ x.run = tasks[t].run
            /\ \/ tasks[t].pc \in {"pending", "endpoints"}
               \/ /\ x.pc \notin {"pending", "endpoints"}
                  /\ x.failed = tasks[t].failed,
         \A a \in answers :
           \/ a.task # t \/ a.code = None \/ a \in unmarked
           \/ x.pc \notin {"decrypt", "send"} \/ a.to \notin x.batch
           \/ a.run = x.run
  PROVE  IInv'
<1>1. tasks'[t] = x /\ \A u \in Events \ {t} : tasks'[u] = tasks[u]
  BY DEF IInv, TypeOK
<1>2. TypeOK'
  BY DEF IInv, TypeOK
<1>3. ProducedOnce'
  BY <1>1 DEF IInv, ProducedOnce
<1>4. InHand'
  BY <1>1 DEF IInv, InHand, AnswerInHand
<1>5. Inserted'
  BY <1>1 DEF IInv, Inserted
<1>6. DeliveredWasAnswered' /\ ResendsExplained'
  BY DEF IInv, DeliveredWasAnswered, ResendsExplained
<1>7. RunsAndErrors'
  <2>1. \A a \in answers : a.task \in Events /\ a.run \in Nat
                           /\ tasks[t].run \in Nat
    BY WebhookAssumption DEF IInv, TypeOK, Answer, Task
  <2>2. ASSUME NEW a \in answers
        PROVE  /\ a.run <= tasks'[a.task].run
               /\ a.run = tasks'[a.task].run =>
                    /\ tasks'[a.task].pc \notin {"absent", "pending",
                                                 "endpoints"}
                    /\ a.code \in Ok \/ tasks'[a.task].failed
    <3>1. /\ a.run <= tasks[a.task].run
          /\ a.run = tasks[a.task].run =>
               /\ tasks[a.task].pc \notin {"absent", "pending", "endpoints"}
               /\ a.code \in Ok \/ tasks[a.task].failed
      BY DEF IInv, RunsAndErrors
    <3>2. CASE a.task # t
      BY <1>1, <2>1, <3>1, <3>2
    <3>3. CASE a.task = t /\ x.run = tasks[t].run + 1
      BY <1>1, <2>1, <3>1, <3>3
    <3>4. CASE a.task = t /\ x.run = tasks[t].run
      BY <1>1, <2>1, <3>1, <3>4
    <3> QED BY <3>2, <3>3, <3>4
  <2>3. \A u \in Events : tasks'[u].pc = "done" => ~tasks'[u].failed
    BY <1>1 DEF IInv, RunsAndErrors
  <2> QED BY <2>2, <2>3 DEF RunsAndErrors
<1>8. AnswersKept'
  BY <1>1 DEF IInv, TypeOK, Answer, AnswersKept, AnswerInHand
<1>9. BatchFresh'
  BY <1>1 DEF IInv, TypeOK, Answer, BatchFresh
<1> QED BY <1>2, <1>3, <1>4, <1>5, <1>6, <1>7, <1>8, <1>9 DEF IInv

\* The next run of a task starts with nothing of the last one.
LEMMA NextRunIsTask ==
  ASSUME NEW t \in Events, tasks[t].run \in Nat, NEW n \in 0 .. MaxRetry
  PROVE  /\ NextRun(t, n) \in Task
         /\ NextRun(t, n).pc = "pending"
         /\ NextRun(t, n).run = tasks[t].run + 1
         /\ NextRun(t, n).retried = n
         /\ NextRun(t, n).batch = {}
<1>1. tasks[t].run + 1 \in Nat
  OBVIOUS
<1> QED BY <1>1, Zenon DEF NextRun, NewTask, Task

\* What Retry makes of a task: its next run, or an archived task.
LEMMA RetryGives ==
  ASSUME IInv, NEW t \in Events, Retry(t)
  PROVE  \E x \in Task :
           /\ tasks' = [tasks EXCEPT ![t] = x]
           /\ \/ /\ x.pc = "pending" /\ x.run = tasks[t].run + 1
                 /\ x.batch = {}
                 /\ x.retried = tasks[t].retried + 1
                 /\ x.retried <= MaxRetry
              \/ /\ x.pc = "archived" /\ x.run = tasks[t].run
                 /\ x.batch = tasks[t].batch /\ x.failed = tasks[t].failed
                 /\ x.retried = tasks[t].retried
<1>1. tasks[t] \in Task /\ tasks[t].run \in Nat /\ tasks[t].retried \in Nat
  BY WebhookAssumption DEF IInv, TypeOK, Task
<1>2. CASE tasks[t].retried < MaxRetry
  <2> DEFINE n == tasks[t].retried + 1
             x == NextRun(t, n)
  <2>1. n \in 0 .. MaxRetry /\ n <= MaxRetry
    BY <1>1, <1>2, WebhookAssumption
  <2>2. tasks' = [tasks EXCEPT ![t] = x]
    BY <1>2 DEF Retry
  <2>3. /\ x \in Task /\ x.pc = "pending" /\ x.run = tasks[t].run + 1
        /\ x.batch = {} /\ x.retried = n
    <3> HIDE DEF n
    <3> QED BY <1>1, <2>1, NextRunIsTask
  <2> HIDE DEF x
  <2> QED BY <2>1, <2>2, <2>3
<1>3. CASE ~(tasks[t].retried < MaxRetry)
  <2> DEFINE x == [tasks[t] EXCEPT !.pc = "archived"]
  <2>1. /\ x \in Task /\ x.pc = "archived" /\ x.run = tasks[t].run
        /\ x.batch = tasks[t].batch /\ x.failed = tasks[t].failed
        /\ x.retried = tasks[t].retried
    BY <1>1 DEF Task, Settled
  <2>2. tasks' = [tasks EXCEPT ![t] = x]
    BY <1>3 DEF Retry
  <2> HIDE DEF x
  <2> QED BY <2>1, <2>2
<1> QED BY <1>2, <1>3

LEMMA RetryFrame ==
  ASSUME IInv, NEW t \in Events, Retry(t),
         tasks[t].pc \in Running \ {"mark"},
         UNCHANGED <<endpoints, rows, producers, outages, answers, unmarked,
                     requeues>>
  PROVE  IInv'
<1>1. PICK x \in Task :
        /\ tasks' = [tasks EXCEPT ![t] = x]
        /\ \/ x.pc = "pending" /\ x.run = tasks[t].run + 1 /\ x.batch = {}
           \/ /\ x.pc = "archived" /\ x.run = tasks[t].run
              /\ x.batch = tasks[t].batch /\ x.failed = tasks[t].failed
  BY RetryGives
<1>2. \A d \in x.batch : rows[d].status # "none"
  BY <1>1 DEF IInv, Inserted
<1> QED BY <1>1, <1>2, MoveFrame DEF Running

\* The steps of a run that neither send nor record.
LEMMA QuietSteps ==
  ASSUME IInv, NEW t \in Events,
         \/ Dequeue(t) \/ ListEndpoints(t) \/ ListEndpointsFails(t)
         \/ Decrypt(t) \/ DecryptFails(t) \/ Finish(t)
         \/ \E w \in Endpoints : ListPending(t, w) \/ ListPendingFails(t, w)
  PROVE  IInv'
<1> USE DEF UnchangedApi
<1>1. tasks[t] \in Task
  BY DEF IInv, TypeOK
<1>2. \A d \in tasks[t].batch : rows[d].status # "none"
  BY DEF IInv, Inserted
<1>3. CASE Dequeue(t)
  <2> DEFINE x == [tasks[t] EXCEPT !.pc = "endpoints"]
  <2>1. /\ x \in Task /\ x.pc = "endpoints" /\ x.run = tasks[t].run
        /\ x.batch = tasks[t].batch
    BY <1>1 DEF Task, Running
  <2>2. tasks' = [tasks EXCEPT ![t] = x] /\ tasks[t].pc = "pending"
    BY <1>3 DEF Dequeue
  <2> HIDE DEF x
  <2> QED BY <1>2, <1>3, <2>1, <2>2, MoveFrame DEF Dequeue
<1>4. CASE ListEndpoints(t)
  <2> DEFINE E == {w \in Endpoints : endpoints[w] = "enabled"}
             x == [tasks[t] EXCEPT !.pc = "next", !.eps = E]
  <2>1. /\ x \in Task /\ x.pc = "next" /\ x.run = tasks[t].run
        /\ x.batch = tasks[t].batch
    BY <1>1 DEF Task, Running
  <2>2. tasks' = [tasks EXCEPT ![t] = x] /\ tasks[t].pc = "endpoints"
    BY <1>4 DEF ListEndpoints
  <2> HIDE DEF x
  <2> QED BY <1>2, <1>4, <2>1, <2>2, MoveFrame DEF ListEndpoints
<1>5. CASE ListEndpointsFails(t)
  BY <1>5, RetryFrame DEF ListEndpointsFails, Running
<1>6. CASE Decrypt(t)
  <2> DEFINE x == [tasks[t] EXCEPT !.pc = "send"]
  <2>1. /\ x \in Task /\ x.pc = "send" /\ x.run = tasks[t].run
        /\ x.batch = tasks[t].batch /\ x.failed = tasks[t].failed
    BY <1>1 DEF Task, Running
  <2>2. tasks' = [tasks EXCEPT ![t] = x] /\ tasks[t].pc = "decrypt"
    BY <1>6 DEF Decrypt
  <2>3. \A a \in answers :
          \/ a.task # t \/ a.code = None \/ a \in unmarked
          \/ a.to \notin x.batch \/ a.run = x.run
    BY <2>1, <2>2 DEF IInv, BatchFresh
  <2>4. \A d \in x.batch : rows[d].status # "none"
    BY <1>2, <2>1
  <2>5. UNCHANGED <<endpoints, rows, producers, outages, answers, unmarked,
                    requeues>>
    BY <1>6 DEF Decrypt
  <2> HIDE DEF x
  <2>6. \A a \in answers :
          \/ a.task # t \/ a.code = None \/ a \in unmarked
          \/ x.pc \notin {"decrypt", "send"} \/ a.to \notin x.batch
          \/ a.run = x.run
    BY <2>3
  <2>7. /\ tasks[t].pc \notin {"absent", "mark"}
        /\ x.pc \notin {"absent", "mark"} /\ x.pc # "done"
        /\ x.pc \notin {"pending", "endpoints"}
    BY <2>1, <2>2
  <2> QED BY <2>1, <2>2, <2>4, <2>5, <2>6, <2>7, MoveFrame
<1>7. CASE DecryptFails(t)
  <2> DEFINE P == tasks[t].passed \cup {d[2] : d \in tasks[t].batch}
             x == [tasks[t] EXCEPT !.pc = "next", !.batch = {}, !.passed = P]
  <2>0. P \subseteq Endpoints
    BY <1>1 DEF Task, Delivery
  <2>1. /\ x \in Task /\ x.pc = "next" /\ x.run = tasks[t].run
        /\ x.batch = {} /\ x.failed = tasks[t].failed
    <3> HIDE DEF P
    <3> QED BY <1>1, <2>0 DEF Task, Running
  <2>2. tasks' = [tasks EXCEPT ![t] = x] /\ tasks[t].pc = "decrypt"
    BY <1>7 DEF DecryptFails
  <2> HIDE DEF x
  <2> QED BY <1>7, <2>1, <2>2, MoveFrame DEF DecryptFails
<1>8. CASE Finish(t) /\ tasks[t].failed
  BY <1>8, RetryFrame DEF Finish, Running
<1>9. CASE Finish(t) /\ ~tasks[t].failed
  <2> DEFINE x == [tasks[t] EXCEPT !.pc = "done"]
  <2>1. /\ x \in Task /\ x.pc = "done" /\ x.run = tasks[t].run
        /\ x.batch = tasks[t].batch /\ x.failed = tasks[t].failed
    BY <1>1 DEF Task, Settled
  <2>2. tasks' = [tasks EXCEPT ![t] = x] /\ tasks[t].pc = "next"
    BY <1>9 DEF Finish
  <2> HIDE DEF x
  <2> QED BY <1>2, <1>9, <2>1, <2>2, MoveFrame DEF Finish
<1>10. ASSUME NEW w \in Endpoints, ListPendingFails(t, w) PROVE IInv'
  <2> DEFINE x == [tasks[t] EXCEPT !.eps = tasks[t].eps \ {w},
                                   !.passed = tasks[t].passed \cup {w}]
  <2>1. /\ x \in Task /\ x.pc = tasks[t].pc /\ x.run = tasks[t].run
        /\ x.batch = tasks[t].batch /\ x.failed = tasks[t].failed
    BY <1>1 DEF Task
  <2>2. tasks' = [tasks EXCEPT ![t] = x] /\ tasks[t].pc = "next"
    BY <1>10 DEF ListPendingFails
  <2>3. \A d \in x.batch : rows[d].status # "none"
    BY <1>2, <2>1
  <2>4. UNCHANGED <<endpoints, rows, producers, outages, answers, unmarked,
                    requeues>>
    BY <1>10 DEF ListPendingFails
  <2> HIDE DEF x
  <2> QED BY <2>1, <2>2, <2>3, <2>4, MoveFrame
<1>11. ASSUME NEW w \in Endpoints, ListPending(t, w) PROVE IInv'
  <2> DEFINE F == FirstRows(w)
             pc == IF F = {} THEN "next" ELSE "decrypt"
             x == [tasks[t] EXCEPT !.pc = pc, !.eps = tasks[t].eps \ {w},
                                   !.batch = F]
  <2>1. F \subseteq Delivery /\ \A d \in F : rows[d].status = "pending"
    BY DEF FirstRows, Pending
  <2>2. pc \in {"next", "decrypt"}
    OBVIOUS
  <2>3. tasks' = [tasks EXCEPT ![t] = x] /\ tasks[t].pc = "next"
    BY <1>11 DEF ListPending
  <2> HIDE DEF F, pc
  <2>4. /\ x \in Task /\ x.pc = pc /\ x.run = tasks[t].run
        /\ x.batch = F /\ x.failed = tasks[t].failed
    BY <1>1, <2>1, <2>2 DEF Task, Running
  <2>5. \A a \in answers :
          a.task # t \/ a.code = None \/ a \in unmarked \/ a.to \notin F
    BY <2>1, <2>3 DEF IInv, AnswersKept
  <2> HIDE DEF x
  <2> QED BY <1>11, <2>1, <2>2, <2>3, <2>4, <2>5, MoveFrame DEF ListPending
<1> QED BY <1>3, <1>4, <1>5, <1>6, <1>7, <1>8, <1>9, <1>10, <1>11

-----------------------------------------------------------------------------
(* Steps that send a delivery or record its answer.                        *)

\* A request of a run that has the delivery in its batch.
LEMMA SendSteps ==
  ASSUME IInv, NEW t \in Events, NEW d \in Delivery,
         (\E c \in Codes : Post(t, d, c)) \/ PostFails(t, d)
  PROVE  IInv'
<1> USE DEF UnchangedApi
<1>1. /\ tasks[t] \in Task /\ tasks[t].pc = "send" /\ d \in tasks[t].batch
      /\ UNCHANGED <<endpoints, rows, producers, unmarked, requeues>>
  BY DEF IInv, TypeOK, Post, PostFails
<1>2. PICK c \in Codes \cup {None}, x \in Task :
        /\ answers' = answers \cup {[task |-> t, run |-> tasks[t].run,
                                      to |-> d, code |-> c]}
        /\ tasks' = [tasks EXCEPT ![t] = x]
        /\ x.run = tasks[t].run
        /\ x.failed = (tasks[t].failed \/ c \notin Ok)
        /\ \/ /\ x.pc = "mark" /\ x.cur = d /\ x.code = c /\ c \in Codes
              /\ x.batch = tasks[t].batch
           \/ /\ x.pc \in {"next", "send"} /\ c = None
              /\ x.batch = tasks[t].batch \ {d}
  <2>1. ASSUME NEW c \in Codes, Post(t, d, c)
        PROVE  \E x \in Task :
                 /\ tasks' = [tasks EXCEPT ![t] = x]
                 /\ x.run = tasks[t].run
                 /\ x.failed = (tasks[t].failed \/ c \notin Ok)
                 /\ x.pc = "mark" /\ x.cur = d /\ x.code = c
                 /\ x.batch = tasks[t].batch
    <3> DEFINE f == tasks[t].failed \/ c \notin Ok
               x == [tasks[t] EXCEPT !.pc = "mark", !.cur = d, !.code = c,
                                     !.failed = f]
    <3>1. f \in BOOLEAN
      OBVIOUS
    <3>2. tasks' = [tasks EXCEPT ![t] = x]
      BY <2>1 DEF Post
    <3> HIDE DEF f
    <3>3. /\ x \in Task /\ x.run = tasks[t].run /\ x.failed = f
          /\ x.pc = "mark" /\ x.cur = d /\ x.code = c
          /\ x.batch = tasks[t].batch
      BY <1>1, <3>1 DEF Task, Running
    <3> HIDE DEF x
    <3> QED BY <3>2, <3>3 DEF f
  <2>2. ASSUME PostFails(t, d)
        PROVE  \E x \in Task :
                 /\ tasks' = [tasks EXCEPT ![t] = x]
                 /\ x.run = tasks[t].run /\ x.failed = TRUE
                 /\ x.pc \in {"next", "send"}
                 /\ x.batch = tasks[t].batch \ {d}
    <3> DEFINE pc == After(t, d)
               x == [tasks[t] EXCEPT !.pc = pc, !.batch = tasks[t].batch \ {d},
                                     !.failed = TRUE]
    <3>1. pc \in {"next", "send"}
      BY DEF After
    <3>2. tasks' = [tasks EXCEPT ![t] = x]
      BY <2>2 DEF PostFails
    <3> HIDE DEF pc
    <3>3. /\ x \in Task /\ x.run = tasks[t].run /\ x.failed = TRUE
          /\ x.pc = pc /\ x.batch = tasks[t].batch \ {d}
      BY <1>1, <3>1 DEF Task, Running
    <3> HIDE DEF x
    <3> QED BY <3>1, <3>2, <3>3
  <2>3. CASE \E c \in Codes : Post(t, d, c)
    <3>1. PICK c \in Codes : Post(t, d, c)
      BY <2>3
    <3>2. answers' = answers \cup {[task |-> t, run |-> tasks[t].run,
                                   to |-> d, code |-> c]}
      BY <3>1 DEF Post
    <3> QED BY <2>1, <3>1, <3>2
  <2>4. CASE PostFails(t, d)
    <3>1. answers' = answers \cup {[task |-> t, run |-> tasks[t].run,
                                   to |-> d, code |-> None]}
      BY <2>4 DEF PostFails
    <3>2. None \notin Ok
      BY WebhookAssumption
    <3> QED BY <2>2, <2>4, <3>1, <3>2
  <2> QED BY <2>3, <2>4
<1> DEFINE n == [task |-> t, run |-> tasks[t].run, to |-> d, code |-> c]
<1>3. /\ n \in Answer /\ n.task = t /\ n.run = tasks[t].run /\ n.to = d
      /\ n.code = c /\ answers' = answers \cup {n}
  BY <1>1, <1>2 DEF Answer, Task
<1> HIDE DEF n
<1>4. tasks'[t] = x /\ \A u \in Events \ {t} : tasks'[u] = tasks[u]
  BY <1>2 DEF IInv, TypeOK
<1>5. TypeOK'
  <2>1. outages' \in Nat
    <3>1. outages \in Nat /\ (outages' = outages \/ outages' = outages + 1)
      BY Zenon DEF IInv, TypeOK, Post, PostFails
    <3> QED BY <3>1
  <2>2. tasks' \in [Events -> Task]
    BY <1>2 DEF IInv, TypeOK
  <2>3. answers' \in SUBSET Answer
    BY <1>3 DEF IInv, TypeOK
  <2> QED BY <1>1, <2>1, <2>2, <2>3 DEF IInv, TypeOK
<1>6. ProducedOnce'
  BY <1>1, <1>2, <1>4 DEF IInv, ProducedOnce
<1>7. InHand'
  <2>1. CASE x.pc = "mark"
    <3>1. AnswerInHand(t)' = n
      BY <1>2, <1>4, <2>1 DEF AnswerInHand, n
    <3> QED BY <1>2, <1>3, <1>4, <2>1, <3>1
            DEF IInv, InHand, AnswerInHand
  <2>2. CASE x.pc # "mark"
    BY <1>3, <1>4, <2>2 DEF IInv, InHand, AnswerInHand
  <2> QED BY <2>1, <2>2
<1>8. Inserted'
  BY <1>1, <1>2, <1>3, <1>4 DEF IInv, Inserted
<1>9. DeliveredWasAnswered'
  BY <1>1, <1>3 DEF IInv, DeliveredWasAnswered
<1>10. RunsAndErrors'
  BY <1>1, <1>2, <1>3, <1>4, WebhookAssumption
  DEF IInv, TypeOK, Answer, Task, RunsAndErrors
<1>11. AnswersKept'
  <2>1. x.pc = "mark" => AnswerInHand(t)' = n
    BY <1>2, <1>4 DEF AnswerInHand, n
  <2> QED BY <1>1, <1>2, <1>3, <1>4, <2>1
          DEF IInv, TypeOK, Answer, AnswersKept, AnswerInHand
<1>12. BatchFresh'
  BY <1>1, <1>2, <1>3, <1>4 DEF IInv, TypeOK, Answer, BatchFresh
<1>13. ResendsExplained'
  <2>1. \A a \in answers : a.task = t => a.run <= n.run
    BY <1>3 DEF IInv, RunsAndErrors
  <2>2. \A a \in answers : a.task = t /\ a.to = d /\ a.run < n.run =>
          a.code = None \/ a \in unmarked
    BY <1>1, <1>3 DEF IInv, TypeOK, Answer, Task, BatchFresh
  <2>3. /\ \A a \in answers' : a.run \in Nat
        /\ n.run \in Nat
    BY <1>3, WebhookAssumption DEF IInv, TypeOK, Answer
  <2> QED BY <1>1, <1>3, <2>1, <2>2, <2>3 DEF IInv, ResendsExplained
<1> QED BY <1>5, <1>6, <1>7, <1>8, <1>9, <1>10, <1>11, <1>12, <1>13 DEF IInv

\* MarkDelivered, with or without an error.
LEMMA MarkSteps ==
  ASSUME IInv, NEW t \in Events, Mark(t) \/ MarkFails(t)
  PROVE  IInv'
<1> USE DEF UnchangedApi
<1>1. /\ tasks[t] \in Task /\ tasks[t].pc = "mark"
      /\ UNCHANGED <<endpoints, producers, outages, answers, requeues>>
      /\ \/ WriteDelivered(t) /\ UNCHANGED unmarked
         \/ (WriteDelivered(t) \/ UNCHANGED rows)
            /\ unmarked' = unmarked \cup {AnswerInHand(t)}
  BY DEF IInv, TypeOK, Mark, MarkFails, Marked
<1> DEFINE cur == tasks[t].cur
           pc == After(t, cur)
           x == [tasks[t] EXCEPT !.pc = pc, !.batch = tasks[t].batch \ {cur}]
<1>2. tasks' = [tasks EXCEPT ![t] = x]
  BY DEF Mark, MarkFails, Marked
<1>3. pc \in {"next", "send"}
  BY DEF After
<1> HIDE DEF pc
<1>4. /\ x \in Task /\ x.pc = pc /\ x.run = tasks[t].run
      /\ x.failed = tasks[t].failed /\ x.batch = tasks[t].batch \ {cur}
  BY <1>1, <1>3 DEF Task, Running
<1> HIDE DEF x
<1>5. tasks'[t] = x /\ \A u \in Events \ {t} : tasks'[u] = tasks[u]
  BY <1>2 DEF IInv, TypeOK
<1>6. /\ cur \in Delivery /\ tasks[t].code \in Codes
      /\ AnswerInHand(t) \in answers /\ AnswerInHand(t) \in Answer
  BY <1>1 DEF IInv, TypeOK, InHand
<1>7. /\ AnswerInHand(t).to = cur /\ AnswerInHand(t).code = tasks[t].code
      /\ AnswerInHand(t).task = t /\ AnswerInHand(t).run = tasks[t].run
  BY DEF AnswerInHand
<1>8. rows[cur].status # "none"
  BY <1>6, <1>7 DEF IInv, Inserted
<1>9. /\ rows' \in [Delivery -> Row]
      /\ \A d \in Delivery :
           \/ rows'[d] = rows[d]
           \/ /\ d = cur /\ rows[d].status \in {"pending", "delivered"}
              /\ rows'[d].status = "delivered"
              /\ rows'[d].code = tasks[t].code
  BY <1>1, <1>6 DEF WriteDelivered, IInv, TypeOK, Row
<1>10. WriteDelivered(t) => rows'[cur].status \in {"delivered", "deleted"}
  BY <1>6, <1>8 DEF WriteDelivered, IInv, TypeOK, Row
<1>11. TypeOK'
  BY <1>1, <1>2, <1>4, <1>6, <1>9 DEF IInv, TypeOK
<1>12. ProducedOnce'
  BY <1>1, <1>3, <1>4, <1>5, <1>8, <1>9 DEF IInv, ProducedOnce, Delivery
<1>13. InHand'
  BY <1>1, <1>3, <1>4, <1>5 DEF IInv, InHand, AnswerInHand
<1>14. Inserted'
  <2>1. \A d \in Delivery : rows[d].status # "none" =>
                             rows'[d].status # "none"
    BY <1>9
  <2> QED BY <1>1, <1>4, <1>5, <2>1 DEF IInv, TypeOK, Task, Answer, Inserted
<1>15. DeliveredWasAnswered'
  BY <1>1, <1>6, <1>7, <1>9, WebhookAssumption
  DEF IInv, DeliveredWasAnswered
<1>16. RunsAndErrors'
  BY <1>1, <1>3, <1>4, <1>5 DEF IInv, TypeOK, Answer, RunsAndErrors
<1>17. AnswersKept'
  <2>1. ASSUME NEW a \in answers
        PROVE  \/ a.code = None
               \/ a \in unmarked'
               \/ rows'[a.to].status \in {"delivered", "deleted"}
               \/ /\ tasks'[a.task].pc = "mark"
                  /\ AnswerInHand(a.task)' = a
    <3>1. a \in Answer /\ a.to \in Delivery /\ a.task \in Events
      BY DEF IInv, TypeOK, Answer
    <3>2. CASE tasks[a.task].pc = "mark" /\ AnswerInHand(a.task) = a
               /\ a.task = t
      BY <1>1, <1>7, <1>10, <3>2
    <3>3. CASE tasks[a.task].pc = "mark" /\ AnswerInHand(a.task) = a
               /\ a.task # t
      BY <1>5, <3>1, <3>3 DEF AnswerInHand
    <3>4. CASE \/ a.code = None \/ a \in unmarked
               \/ rows[a.to].status \in {"delivered", "deleted"}
      BY <1>1, <1>9, <3>1, <3>4
    <3> QED BY <3>2, <3>3, <3>4 DEF IInv, AnswersKept
  <2> QED BY <1>1, <2>1 DEF AnswersKept
<1>18. BatchFresh'
  BY <1>1, <1>4, <1>5 DEF IInv, TypeOK, Answer, BatchFresh
<1>19. ResendsExplained'
  BY <1>1 DEF IInv, ResendsExplained
<1> QED BY <1>11, <1>12, <1>13, <1>14, <1>15, <1>16, <1>17, <1>18, <1>19
        DEF IInv

\* A run is cut short: its task is queued again or archived, and an answer it
\* has in hand is lost.
LEMMA CutFrame ==
  ASSUME IInv, NEW t \in Events, NEW x \in Task,
         tasks[t].pc \in Running, CutShort(t),
         tasks' = [tasks EXCEPT ![t] = x],
         \/ x.pc = "pending" /\ x.run = tasks[t].run + 1 /\ x.batch = {}
         \/ /\ x.pc = "archived" /\ x.run = tasks[t].run
            /\ x.batch = tasks[t].batch /\ x.failed = tasks[t].failed,
         UNCHANGED <<endpoints, rows, producers, outages, answers>>,
         requeues' \in Nat
  PROVE  IInv'
<1>1. tasks[t] \in Task /\ tasks[t].run \in Nat
  BY DEF IInv, TypeOK, Task
<1>2. tasks'[t] = x /\ \A u \in Events \ {t} : tasks'[u] = tasks[u]
  BY DEF IInv, TypeOK
<1>3. /\ unmarked \subseteq unmarked'
      /\ tasks[t].pc = "mark" => AnswerInHand(t) \in unmarked'
  BY DEF CutShort
<1>4. tasks[t].pc = "mark" => AnswerInHand(t) \in Answer
  BY DEF IInv, TypeOK, InHand
<1>5. TypeOK'
  <2>1. unmarked' \in SUBSET Answer
    BY <1>4 DEF CutShort, IInv, TypeOK
  <2> QED BY <2>1 DEF IInv, TypeOK
<1>6. ProducedOnce' /\ InHand' /\ DeliveredWasAnswered'
  BY <1>2 DEF Running, IInv, ProducedOnce, InHand, AnswerInHand,
              DeliveredWasAnswered
<1>7. Inserted'
  BY <1>1, <1>2 DEF IInv, Inserted
<1>8. RunsAndErrors'
  BY <1>1, <1>2, WebhookAssumption
  DEF Running, IInv, TypeOK, Answer, RunsAndErrors
<1>9. AnswersKept'
  BY <1>2, <1>3 DEF IInv, TypeOK, Answer, AnswersKept, AnswerInHand
<1>10. BatchFresh' /\ ResendsExplained'
  BY <1>1, <1>2, <1>3 DEF IInv, TypeOK, Answer, BatchFresh, ResendsExplained
<1> QED BY <1>5, <1>6, <1>7, <1>8, <1>9, <1>10 DEF IInv

LEMMA CutSteps ==
  ASSUME IInv, NEW t \in Events, Crash(t) \/ ShutdownRequeues(t)
  PROVE  IInv'
<1> USE DEF UnchangedApi
<1>1. requeues \in Nat
  BY DEF IInv, TypeOK
<1>2. CASE Crash(t)
  <2>1. PICK x \in Task :
          /\ tasks' = [tasks EXCEPT ![t] = x]
          /\ \/ x.pc = "pending" /\ x.run = tasks[t].run + 1 /\ x.batch = {}
             \/ /\ x.pc = "archived" /\ x.run = tasks[t].run
                /\ x.batch = tasks[t].batch /\ x.failed = tasks[t].failed
    BY <1>2, RetryGives DEF Crash
  <2> QED BY <1>1, <1>2, <2>1, CutFrame DEF Crash
<1>3. CASE ShutdownRequeues(t)
  <2> DEFINE x == NextRun(t, tasks[t].retried)
  <2>1. tasks[t].run \in Nat /\ tasks[t].retried \in 0 .. MaxRetry
    BY DEF IInv, TypeOK, Task
  <2>2. x \in Task /\ x.pc = "pending" /\ x.run = tasks[t].run + 1 /\ x.batch = {}
    BY <2>1, NextRunIsTask
  <2>3. /\ tasks' = [tasks EXCEPT ![t] = x] /\ tasks[t].pc \in Running
        /\ CutShort(t) /\ requeues' = requeues + 1
        /\ UNCHANGED <<endpoints, rows, producers, outages, answers>>
    BY <1>3 DEF ShutdownRequeues
  <2>4. requeues' \in Nat
    BY <1>1, <2>3
  <2> HIDE DEF x
  <2> QED BY <2>2, <2>3, <2>4, CutFrame
<1> QED BY <1>2, <1>3

-----------------------------------------------------------------------------
LEMMA IInvStep == IInv /\ [Next]_vars => IInv'
<1> SUFFICES ASSUME IInv, [Next]_vars PROVE IInv'
  OBVIOUS
<1>1. CASE UNCHANGED vars
  BY <1>1
  DEF vars, IInv, TypeOK, ProducedOnce, InHand, AnswerInHand, Inserted,
      DeliveredWasAnswered, RunsAndErrors, AnswersKept, BatchFresh,
      ResendsExplained
<1>2. ASSUME NEW t \in Events, WorkerStep(t) \/ WorkerFault(t) PROVE IInv'
  BY <1>2, QuietSteps, SendSteps, MarkSteps, CutSteps
  DEF WorkerStep, WorkerFault
<1>3. CASE Next
  BY <1>2, <1>3, ApiSteps, ProducerSteps DEF Next
<1> QED BY <1>1, <1>3

\* Every state of the component satisfies the inductive invariant, whatever
\* the endpoints answer and however the tasks overlap.
THEOREM WebhookInductive == Spec => []IInv
  BY InitIInv, IInvStep, PTL DEF Spec

\* The types, and the retry limit of every task.
THEOREM WebhookTypeCorrect == Spec => []TypeOK
<1>1. IInv => TypeOK
  BY DEF IInv
<1> QED BY <1>1, WebhookInductive, PTL

\* A response_status is always one the endpoint gave for that delivery.
THEOREM StatusesWereAnswered == Spec => []DeliveredWasAnswered
<1>1. IInv => DeliveredWasAnswered
  BY DEF IInv
<1> QED BY <1>1, WebhookInductive, PTL

\* A completed task was refused nothing in its last run: the error of one
\* delivery is never lost among those that follow.
THEOREM CompletedRunsAccepted == Spec => []SuccessMeansAccepted
<1>1. IInv => SuccessMeansAccepted
  BY DEF IInv, TypeOK, Answer, RunsAndErrors, SuccessMeansAccepted
<1> QED BY <1>1, WebhookInductive, PTL

-----------------------------------------------------------------------------
(* What a run is made of, and that it asks for a delivery once.            *)

SameRun(t) ==
  tasks'[t].run = tasks[t].run /\ tasks'[t].retried = tasks[t].retried

Same(t, from, to) ==
  tasks[t].pc = from /\ tasks'[t].pc = to /\ SameRun(t)

\* The kinds of step a task takes.
Queued(t) == Same(t, "absent", "pending") /\ answers' = answers
Began(t) == Same(t, "pending", "endpoints") /\ answers' = answers
Listed(t) == Same(t, "endpoints", "next") /\ answers' = answers

TookEndpoint(t) ==
  \E w \in tasks[t].eps :
    /\ tasks'[t].eps = tasks[t].eps \ {w}
    /\ answers' = answers
    /\ \/ Same(t, "next", "next")
       \/ /\ Same(t, "next", "decrypt")
          /\ tasks'[t].batch # {}
          /\ \A d \in tasks'[t].batch : d[2] = w

Decrypted(t) ==
  /\ Same(t, "decrypt", "send") /\ answers' = answers
  /\ tasks'[t].eps = tasks[t].eps /\ tasks'[t].batch = tasks[t].batch

PassedOver(t) ==
  /\ Same(t, "decrypt", "next") /\ answers' = answers
  /\ tasks'[t].eps = tasks[t].eps /\ tasks'[t].batch = {}

Asked(t) ==
  /\ Same(t, "send", "mark")
  /\ tasks'[t].eps = tasks[t].eps /\ tasks'[t].batch = tasks[t].batch
  /\ tasks'[t].cur \in tasks[t].batch
  /\ answers' = answers \cup {AnswerInHand(t)'}

\* Delivery d of the batch is dealt with.
LeftBatch(t, d) ==
  /\ Same(t, tasks[t].pc, "next") \/ Same(t, tasks[t].pc, "send")
  /\ tasks'[t].eps = tasks[t].eps /\ tasks'[t].batch = tasks[t].batch \ {d}
  /\ tasks'[t].pc = "send" => tasks'[t].batch # {}

Unanswered(t) ==
  \E d \in tasks[t].batch :
    /\ tasks[t].pc = "send" /\ LeftBatch(t, d)
    /\ answers' = answers \cup {[task |-> t, run |-> tasks[t].run,
                                 to |-> d, code |-> None]}

Noted(t) ==
  tasks[t].pc = "mark" /\ LeftBatch(t, tasks[t].cur) /\ answers' = answers

Ended(t) ==
  /\ tasks[t].pc \in Running /\ tasks'[t].pc \in Settled
  /\ SameRun(t) /\ answers' = answers

Again(t) ==
  /\ tasks[t].pc \in Running /\ tasks'[t].pc = "pending"
  /\ tasks'[t].run = tasks[t].run + 1 /\ answers' = answers
  /\ \/ /\ tasks'[t].retried = tasks[t].retried + 1
        /\ tasks'[t].retried <= MaxRetry
     \/ /\ tasks'[t].retried = tasks[t].retried
        /\ requeues' = requeues + 1 /\ requeues' <= MaxRequeues

OwnStep(t) ==
  \/ Queued(t) \/ Began(t) \/ Listed(t) \/ TookEndpoint(t) \/ Decrypted(t)
  \/ PassedOver(t) \/ Asked(t) \/ Unanswered(t) \/ Noted(t) \/ Ended(t)
  \/ Again(t)

\* A batch belongs to an endpoint the run has taken, and is worked off until it
\* is empty; what the run has been answered it will not ask for again.
RunInv ==
  /\ \A t \in Events :
       tasks[t].pc \in {"decrypt", "send", "mark"} =>
         /\ tasks[t].batch # {}
         /\ \A d \in tasks[t].batch : d[2] \notin tasks[t].eps
         /\ tasks[t].pc = "mark" => tasks[t].cur \in tasks[t].batch
  /\ \A a \in answers :
       LET task == tasks[a.task] IN
       a.run = task.run /\ task.pc \in {"next", "decrypt", "send", "mark"} =>
         /\ a.to[2] \notin task.eps
         /\ task.pc # "next" /\ a.to \in task.batch =>
              task.pc = "mark" /\ a = AnswerInHand(a.task)

OncePerRun ==
  \A a, b \in answers :
    a.task = b.task /\ a.run = b.run /\ a.to = b.to => a = b

LEMMA WorkerMoves ==
  ASSUME IInv, RunInv, NEW t \in Events, WorkerStep(t) \/ WorkerFault(t)
  PROVE  OwnStep(t) /\ \A u \in Events \ {t} : tasks'[u] = tasks[u]
<1> DEFINE Rest == \A u \in Events \ {t} : tasks'[u] = tasks[u]
<1> SUFFICES OwnStep(t) /\ Rest
  OBVIOUS
<1>t. /\ tasks \in [Events -> Task] /\ tasks[t] \in Task
      /\ tasks[t].run \in Nat /\ MaxRetry \in Nat
  BY WebhookAssumption DEF IInv, TypeOK, Task
<1>1. CASE Dequeue(t)
  BY <1>1, <1>t DEF Dequeue, OwnStep, Began, Same, SameRun, Task
<1>2. CASE ListEndpoints(t)
  BY <1>2, <1>t DEF ListEndpoints, OwnStep, Listed, Same, SameRun, Task
<1>3. CASE Decrypt(t)
  BY <1>3, <1>t DEF Decrypt, OwnStep, Decrypted, Same, SameRun, Task
<1>4. CASE DecryptFails(t)
  BY <1>4, <1>t DEF DecryptFails, OwnStep, PassedOver, Same, SameRun, Task
<1>r. ASSUME Retry(t), tasks[t].pc \in Running, answers' = answers
      PROVE  OwnStep(t) /\ Rest
  <2>1. PICK x \in Task :
          /\ tasks' = [tasks EXCEPT ![t] = x]
          /\ \/ /\ x.pc = "pending" /\ x.run = tasks[t].run + 1
                /\ x.retried = tasks[t].retried + 1
                /\ x.retried <= MaxRetry
             \/ /\ x.pc = "archived" /\ x.run = tasks[t].run
                /\ x.retried = tasks[t].retried
    BY <1>r, RetryGives
  <2>2. tasks'[t] = x /\ Rest
    BY <1>t, <2>1
  <2> QED BY <1>r, <2>1, <2>2 DEF OwnStep, Again, Ended, SameRun, Settled
<1>5. CASE ListEndpointsFails(t) \/ Crash(t)
  BY <1>5, <1>r DEF ListEndpointsFails, Crash, Running
<1>12. CASE ShutdownRequeues(t)
  <2> DEFINE x == NextRun(t, tasks[t].retried)
  <2>1. tasks[t].run \in Nat /\ tasks[t].retried \in 0 .. MaxRetry
    BY <1>t DEF Task
  <2>2. /\ x.pc = "pending" /\ x.run = tasks[t].run + 1
        /\ x.retried = tasks[t].retried
    BY <2>1, NextRunIsTask
  <2>3. /\ tasks' = [tasks EXCEPT ![t] = x] /\ tasks[t].pc \in Running
        /\ answers' = answers /\ requeues' = requeues + 1
        /\ requeues < MaxRequeues
    BY <1>12 DEF ShutdownRequeues
  <2> HIDE DEF x
  <2>4. tasks'[t] = x /\ Rest
    BY <1>t, <2>3
  <2>5. requeues' <= MaxRequeues
    BY <2>3, WebhookAssumption DEF IInv, TypeOK
  <2> QED BY <2>2, <2>3, <2>4, <2>5 DEF OwnStep, Again
<1>6. CASE Finish(t)
  <2>1. CASE tasks[t].failed
    BY <1>6, <1>r, <2>1 DEF Finish, Running
  <2>2. CASE ~tasks[t].failed
    BY <1>6, <1>t, <2>2 DEF Finish, OwnStep, Ended, SameRun, Settled, Running, Task
  <2> QED BY <2>1, <2>2
<1>7. ASSUME NEW w \in Endpoints, ListPendingFails(t, w)
      PROVE  OwnStep(t) /\ Rest
  BY <1>7, <1>t DEF ListPendingFails, OwnStep, TookEndpoint, Same, SameRun, Task
<1>8. ASSUME NEW w \in Endpoints, ListPending(t, w) PROVE OwnStep(t) /\ Rest
  <2> DEFINE F == FirstRows(w)
  <2>1. \A d \in F : d[2] = w
    BY DEF FirstRows, Pending
  <2>2. /\ tasks[t].pc = "next" /\ w \in tasks[t].eps
        /\ tasks'[t].pc = IF F = {} THEN "next" ELSE "decrypt"
        /\ tasks'[t].eps = tasks[t].eps \ {w} /\ tasks'[t].batch = F
        /\ SameRun(t)
        /\ answers' = answers /\ Rest
    BY <1>8, <1>t DEF ListPending, SameRun, Task
  <2> HIDE DEF F, Rest
  <2>3. TookEndpoint(t)
    BY <2>1, <2>2 DEF TookEndpoint, Same
  <2> QED BY <2>2, <2>3 DEF OwnStep
<1>9. ASSUME NEW d \in Delivery, NEW c \in Codes, Post(t, d, c)
      PROVE  OwnStep(t) /\ Rest
  <2>1. /\ tasks[t].pc = "send" /\ d \in tasks[t].batch
        /\ tasks'[t].pc = "mark" /\ SameRun(t)
        /\ tasks'[t].eps = tasks[t].eps /\ tasks'[t].batch = tasks[t].batch
        /\ tasks'[t].cur = d /\ tasks'[t].code = c
        /\ answers' = answers \cup {[task |-> t, run |-> tasks[t].run,
                                      to |-> d, code |-> c]}
        /\ Rest
    BY <1>9, <1>t DEF Post, SameRun, Task
  <2> HIDE DEF Rest
  <2>2. Asked(t)
    BY <2>1 DEF Asked, Same, SameRun, AnswerInHand
  <2> QED BY <2>1, <2>2 DEF OwnStep
<1>10. ASSUME NEW d \in Delivery, PostFails(t, d) PROVE OwnStep(t) /\ Rest
  <2>1. /\ tasks[t].pc = "send" /\ d \in tasks[t].batch
        /\ tasks'[t].pc = IF tasks[t].batch = {d} THEN "next" ELSE "send"
        /\ SameRun(t)
        /\ tasks'[t].eps = tasks[t].eps
        /\ tasks'[t].batch = tasks[t].batch \ {d}
        /\ answers' = answers \cup {[task |-> t, run |-> tasks[t].run,
                                      to |-> d, code |-> None]}
        /\ Rest
    BY <1>10, <1>t DEF PostFails, After, SameRun, Task
  <2> HIDE DEF Rest
  <2>2. Unanswered(t)
    BY <2>1 DEF Unanswered, LeftBatch, Same
  <2> QED BY <2>1, <2>2 DEF OwnStep
<1>11. CASE Mark(t) \/ MarkFails(t)
  <2>0. tasks' = [tasks EXCEPT ![t].pc = After(t, tasks[t].cur),
                               ![t].batch = @ \ {tasks[t].cur}]
    BY <1>11 DEF Mark, MarkFails, Marked
  <2>1. /\ tasks[t].pc = "mark"
        /\ tasks'[t].pc = IF tasks[t].batch = {tasks[t].cur} THEN "next" ELSE "send"
        /\ SameRun(t)
        /\ tasks'[t].eps = tasks[t].eps
        /\ tasks'[t].batch = tasks[t].batch \ {tasks[t].cur}
        /\ answers' = answers
        /\ Rest
    BY <1>11, <1>t, <2>0 DEF Mark, MarkFails, Marked, After, SameRun, Task
  <2> HIDE DEF Rest
  <2>2. tasks[t].cur \in tasks[t].batch
    BY <2>1 DEF RunInv
  <2>3. Noted(t)
    BY <2>1, <2>2 DEF Noted, LeftBatch, Same
  <2> QED BY <2>1, <2>3 DEF OwnStep
<1> HIDE DEF Rest
<1> QED BY <1>1, <1>2, <1>3, <1>4, <1>5, <1>6, <1>7, <1>8, <1>9, <1>10, <1>11, <1>12
        DEF WorkerStep, WorkerFault

\* Everything else leaves the answers and the running tasks alone.
LEMMA OthersMove ==
  ASSUME IInv,
         \/ Api \/ UNCHANGED vars
         \/ \E e \in Events : ProducerStep(e) \/ ProducerFault(e)
  PROVE  /\ answers' = answers
         /\ \A t \in Events : tasks'[t] = tasks[t] \/ Queued(t)
<1>1. CASE Api \/ UNCHANGED vars
  BY <1>1 DEF Api, CreateEndpoint, DeleteEndpoint, Begin, UnchangedWorker, vars
<1>2. ASSUME NEW e \in Events, ProducerStep(e) \/ ProducerFault(e)
      PROVE  /\ answers' = answers
             /\ \A t \in Events : tasks'[t] = tasks[t] \/ Queued(t)
  <2>1. CASE Enqueue(e)
    <3>1. tasks[e].pc = "absent" /\ tasks \in [Events -> Task]
      BY <2>1 DEF Enqueue, IInv, TypeOK, ProducedOnce
    <3> QED BY <2>1, <3>1 DEF Enqueue, Queued, Same, SameRun, Task
  <2>2. CASE ~Enqueue(e)
    BY <1>2, <2>2 DEF ProducerStep, ProducerFault, InsertRows, InsertFails,
                      EnqueueFails, UnchangedWorker
  <2> QED BY <2>1, <2>2
<1> QED BY <1>1, <1>2

\* What RunInv and OncePerRun say of one task, for a step of that task.
LEMMA RunInvStep ==
  ASSUME IInv, RunInv, OncePerRun, [Next]_vars
  PROVE  RunInv' /\ OncePerRun'
<1>t. /\ \A a \in answers : /\ a \in Answer /\ a.task \in Events
                            /\ a.to \in Delivery /\ a.run \in Nat
      /\ \A t \in Events : tasks[t].run \in Nat
      /\ MaxRetry \in Nat
  BY WebhookAssumption DEF IInv, TypeOK, Task, Answer
<1>1. ASSUME answers' = answers,
             \A t \in Events : tasks'[t] = tasks[t] \/ Queued(t)
      PROVE  RunInv' /\ OncePerRun'
  BY <1>1, <1>t DEF RunInv, OncePerRun, Queued, Same, SameRun, AnswerInHand
<1>2. ASSUME NEW t \in Events, OwnStep(t),
             \A u \in Events \ {t} : tasks'[u] = tasks[u]
      PROVE  RunInv' /\ OncePerRun'
  <2>0. \A a \in answers :
          /\ a.run <= tasks[a.task].run
          /\ a.run = tasks[a.task].run =>
               tasks[a.task].pc \notin {"absent", "pending", "endpoints"}
    BY DEF IInv, RunsAndErrors
  <2>1. ASSUME answers' = answers,
               \/ tasks'[t].pc \notin {"next", "decrypt", "send", "mark"}
               \/ /\ tasks'[t].pc \in {"next", "decrypt", "send"}
                  /\ tasks'[t].run = tasks[t].run
                  /\ tasks'[t].pc # "next" =>
                       /\ tasks'[t].batch # {}
                       /\ \A d \in tasks'[t].batch : d[2] \notin tasks'[t].eps
                  /\ \A a \in answers : a.task = t /\ a.run = tasks[t].run =>
                       /\ a.to[2] \notin tasks'[t].eps
                       /\ tasks'[t].pc = "next" \/ a.to \notin tasks'[t].batch
        PROVE  RunInv' /\ OncePerRun'
    BY <1>2, <1>t, <2>1 DEF RunInv, OncePerRun, AnswerInHand
  <2>2. CASE Queued(t) \/ Began(t) \/ Ended(t) \/ Again(t)
    BY <2>1, <2>2 DEF Queued, Began, Ended, Again, Same, SameRun, Settled
  <2>3. CASE Listed(t)
    BY <2>0, <2>1, <2>3 DEF Listed, Same, SameRun
  <2>4. CASE TookEndpoint(t)
    <3>1. PICK w \in tasks[t].eps :
            /\ tasks'[t].eps = tasks[t].eps \ {w}
            /\ answers' = answers
            /\ tasks[t].pc = "next" /\ tasks'[t].run = tasks[t].run
            /\ \/ tasks'[t].pc = "next"
               \/ /\ tasks'[t].pc = "decrypt"
                  /\ tasks'[t].batch # {}
                  /\ \A d \in tasks'[t].batch : d[2] = w
      BY <2>4 DEF TookEndpoint, Same, SameRun
    <3>2. \A a \in answers : a.task = t /\ a.run = tasks[t].run =>
            a.to[2] \notin tasks[t].eps
      BY <3>1 DEF RunInv
    <3> QED BY <2>1, <3>1, <3>2
  <2>5. CASE Decrypted(t)
    BY <2>1, <2>5 DEF Decrypted, Same, SameRun, RunInv
  <2>6. CASE PassedOver(t)
    BY <2>1, <2>6 DEF PassedOver, Same, SameRun, RunInv
  <2>7. CASE Noted(t)
    <3>1. \A a \in answers : a.task = t /\ a.run = tasks[t].run =>
            /\ a.to[2] \notin tasks[t].eps
            /\ a.to \in tasks[t].batch => a.to = tasks[t].cur
      BY <2>7 DEF Noted, RunInv, AnswerInHand
    <3>2. \A d \in tasks[t].batch : d[2] \notin tasks[t].eps
      BY <2>7 DEF Noted, RunInv
    <3> QED BY <2>1, <2>7, <3>1, <3>2 DEF Noted, LeftBatch, Same, SameRun
  <2>8. ASSUME NEW d \in tasks[t].batch, NEW n, n.task = t,
               n.run = tasks[t].run, n.to = d, answers' = answers \cup {n},
               tasks[t].pc = "send"
        PROVE  /\ OncePerRun'
               /\ \A a \in answers : a.task = t /\ a.run = tasks[t].run =>
                    a.to[2] \notin tasks[t].eps /\ a.to \notin tasks[t].batch
               /\ \A b \in tasks[t].batch : b[2] \notin tasks[t].eps
    <3>1. \A a \in answers : a.task = t /\ a.run = tasks[t].run =>
            a.to[2] \notin tasks[t].eps /\ a.to \notin tasks[t].batch
      BY <2>8 DEF RunInv
    <3>2. \A b \in tasks[t].batch : b[2] \notin tasks[t].eps
      BY <2>8 DEF RunInv
    <3>3. OncePerRun'
      BY <2>8, <3>1 DEF OncePerRun
    <3> QED BY <3>1, <3>2, <3>3
  <2>9. CASE Asked(t)
    <3> DEFINE n == AnswerInHand(t)'
    <3>1. /\ n.task = t /\ n.run = tasks[t].run /\ n.to = tasks'[t].cur
          /\ answers' = answers \cup {n}
          /\ tasks[t].pc = "send" /\ tasks'[t].cur \in tasks[t].batch
      BY <2>9 DEF Asked, Same, SameRun, AnswerInHand
    <3>2. n = AnswerInHand(t)'
      OBVIOUS
    <3> HIDE DEF n
    <3>3. /\ OncePerRun'
          /\ \A a \in answers : a.task = t /\ a.run = tasks[t].run =>
               a.to[2] \notin tasks[t].eps /\ a.to \notin tasks[t].batch
          /\ \A b \in tasks[t].batch : b[2] \notin tasks[t].eps
      BY <2>8, <3>1
    <3>4. RunInv'
      <4>1. /\ tasks'[t].pc = "mark" /\ tasks'[t].run = tasks[t].run
            /\ tasks'[t].eps = tasks[t].eps /\ tasks'[t].batch = tasks[t].batch
        BY <2>9 DEF Asked, Same, SameRun
      <4>2. ASSUME NEW u \in Events,
                   tasks'[u].pc \in {"decrypt", "send", "mark"}
            PROVE  /\ tasks'[u].batch # {}
                   /\ \A d \in tasks'[u].batch : d[2] \notin tasks'[u].eps
                   /\ tasks'[u].pc = "mark" => tasks'[u].cur \in tasks'[u].batch
        <5>1. CASE u = t
          BY <3>1, <3>3, <4>1, <5>1
        <5>2. CASE u # t
          BY <1>2, <4>2, <5>2 DEF RunInv
        <5> QED BY <5>1, <5>2
      <4>3. ASSUME NEW a \in answers', a.run = tasks'[a.task].run,
                   tasks'[a.task].pc \in {"next", "decrypt", "send", "mark"}
            PROVE  /\ a.to[2] \notin tasks'[a.task].eps
                   /\ tasks'[a.task].pc # "next" /\ a.to \in tasks'[a.task].batch =>
                        tasks'[a.task].pc = "mark" /\ a = AnswerInHand(a.task)'
        <5>1. CASE a = n
          BY <3>1, <3>2, <3>3, <4>1, <5>1
        <5>2. CASE a \in answers /\ a.task = t
          BY <3>3, <4>1, <4>3, <5>2
        <5>3. CASE a \in answers /\ a.task # t
          BY <1>2, <1>t, <4>3, <5>3 DEF RunInv, AnswerInHand
        <5> QED BY <3>1, <5>1, <5>2, <5>3
      <4> QED BY <4>2, <4>3 DEF RunInv
    <3> QED BY <3>3, <3>4
  <2>10. CASE Unanswered(t)
    <3>1. PICK d \in tasks[t].batch :
            /\ tasks[t].pc = "send" /\ LeftBatch(t, d)
            /\ answers' = answers \cup {[task |-> t, run |-> tasks[t].run,
                                         to |-> d, code |-> None]}
      BY <2>10 DEF Unanswered
    <3> DEFINE n == [task |-> t, run |-> tasks[t].run, to |-> d, code |-> None]
    <3>2. /\ n.task = t /\ n.run = tasks[t].run /\ n.to = d
          /\ answers' = answers \cup {n}
      BY <3>1
    <3> HIDE DEF n
    <3>3. /\ OncePerRun'
          /\ \A a \in answers : a.task = t /\ a.run = tasks[t].run =>
               a.to[2] \notin tasks[t].eps /\ a.to \notin tasks[t].batch
          /\ \A b \in tasks[t].batch : b[2] \notin tasks[t].eps
      BY <2>8, <3>1, <3>2
    <3>4. RunInv'
      <4>1. /\ tasks'[t].pc \in {"next", "send"} /\ tasks'[t].run = tasks[t].run
            /\ tasks'[t].eps = tasks[t].eps
            /\ tasks'[t].batch = tasks[t].batch \ {d}
            /\ tasks'[t].pc = "send" => tasks'[t].batch # {}
        BY <3>1 DEF LeftBatch, Same, SameRun
      <4>2. ASSUME NEW u \in Events,
                   tasks'[u].pc \in {"decrypt", "send", "mark"}
            PROVE  /\ tasks'[u].batch # {}
                   /\ \A b \in tasks'[u].batch : b[2] \notin tasks'[u].eps
                   /\ tasks'[u].pc = "mark" => tasks'[u].cur \in tasks'[u].batch
        <5>1. CASE u = t
          BY <3>1, <3>3, <4>1, <4>2, <5>1
        <5>2. CASE u # t
          BY <1>2, <4>2, <5>2 DEF RunInv
        <5> QED BY <5>1, <5>2
      <4>3. ASSUME NEW a \in answers', a.run = tasks'[a.task].run,
                   tasks'[a.task].pc \in {"next", "decrypt", "send", "mark"}
            PROVE  /\ a.to[2] \notin tasks'[a.task].eps
                   /\ tasks'[a.task].pc # "next" /\ a.to \in tasks'[a.task].batch =>
                        tasks'[a.task].pc = "mark" /\ a = AnswerInHand(a.task)'
        <5>1. CASE a = n
          BY <3>1, <3>2, <3>3, <4>1, <5>1
        <5>2. CASE a \in answers /\ a.task = t
          BY <3>3, <4>1, <4>3, <5>2
        <5>3. CASE a \in answers /\ a.task # t
          BY <1>2, <1>t, <4>3, <5>3 DEF RunInv, AnswerInHand
        <5> QED BY <3>2, <5>1, <5>2, <5>3
      <4> QED BY <4>2, <4>3 DEF RunInv
    <3> QED BY <3>3, <3>4
  <2> QED BY <1>2, <2>2, <2>3, <2>4, <2>5, <2>6, <2>7, <2>9, <2>10 DEF OwnStep
<1>3. CASE \E t \in Events : WorkerStep(t) \/ WorkerFault(t)
  BY <1>2, <1>3, WorkerMoves
<1>4. CASE \/ Api \/ UNCHANGED vars
           \/ \E e \in Events : ProducerStep(e) \/ ProducerFault(e)
  BY <1>1, <1>4, OthersMove
<1> QED BY <1>3, <1>4 DEF Next

LEMMA RunsInductive == Spec => [](IInv /\ RunInv /\ OncePerRun)
<1>1. Init => RunInv /\ OncePerRun
  BY DEF Init, RunInv, OncePerRun, NewTask
<1>2. IInv /\ [Next]_vars => IInv'
  BY IInvStep
<1> QED BY <1>1, <1>2, InitIInv, RunInvStep, PTL DEF Spec

\* A run asks for a delivery once, and a task asks for it again in a later run
\* only for want of a recorded answer.
THEOREM NoNeedlessResend == Spec => []ResentOnlyIfUnmarked
<1>1. IInv /\ OncePerRun => ResentOnlyIfUnmarked
  BY DEF IInv, ResendsExplained, OncePerRun, ResentOnlyIfUnmarked
<1> QED BY <1>1, RunsInductive, PTL

\* Every step of a task uses up a retry, or a requeue by a shutdown, or shortens
\* the rest of its run: no run goes round in circles, whatever other producers
\* insert meanwhile.
THEOREM NoFreeRuns == Spec => TasksAdvance
<1>1. IInv /\ RunInv /\ [Next]_vars => [\A t \in Events : Onward(t)]_vars
  <2> SUFFICES ASSUME IInv, RunInv, [Next]_vars, NEW t \in Events
               PROVE  Onward(t)
    OBVIOUS
  <2>1. CASE tasks'[t] = tasks[t]
    BY <2>1 DEF Onward
  <2>2. CASE OwnStep(t)
    <3> USE DEF Same, SameRun, Stage, Place, Running, Settled
    <3>1. CASE Queued(t) \/ Began(t) \/ Listed(t) \/ Ended(t)
      BY <3>1 DEF Queued, Began, Listed, Ended, Onward
    <3>2. CASE TookEndpoint(t)
      BY <3>2 DEF TookEndpoint, Onward
    <3>3. CASE Decrypted(t) \/ Asked(t)
      BY <3>3 DEF Decrypted, Asked, Onward
    <3>4. CASE PassedOver(t)
      <4>1. tasks[t].batch # {}
        BY <3>4 DEF PassedOver, RunInv
      <4> QED BY <3>4, <4>1 DEF PassedOver, Onward
    <3>5. ASSUME NEW d \in tasks[t].batch, LeftBatch(t, d),
                 tasks[t].pc \in {"send", "mark"}
          PROVE  Onward(t)
      BY <3>5 DEF LeftBatch, Onward
    <3>6. CASE Unanswered(t)
      BY <3>5, <3>6 DEF Unanswered
    <3>7. CASE Noted(t)
      <4>1. tasks[t].cur \in tasks[t].batch
        BY <3>7 DEF Noted, RunInv
      <4> QED BY <3>5, <3>7, <4>1 DEF Noted
    <3>8. CASE Again(t)
      BY <3>8 DEF Again, Onward
    <3> QED BY <2>2, <3>1, <3>2, <3>3, <3>4, <3>6, <3>7, <3>8 DEF OwnStep
  <2>3. CASE \E u \in Events : WorkerStep(u) \/ WorkerFault(u)
    BY <2>1, <2>2, <2>3, WorkerMoves
  <2>4. CASE \/ Api \/ UNCHANGED vars
             \/ \E e \in Events : ProducerStep(e) \/ ProducerFault(e)
    BY <2>1, <2>2, <2>4, OthersMove DEF OwnStep
  <2> QED BY <2>3, <2>4 DEF Next
<1> QED BY <1>1, RunsInductive, PTL DEF Spec, TasksAdvance

-----------------------------------------------------------------------------
(* Refinement of DeliveryContract                                          *)

Given == {<<a.to, a.code>> : a \in {b \in answers : b.code # None}}

LEMMA StutterGiven ==
  ASSUME rows' = rows, Given' = Given PROVE UNCHANGED Contract!vars
  BY DEF Contract!vars, Given

\* A new answer with a code is a new element of Given.
LEMMA GivenGrows ==
  ASSUME NEW n, answers' = answers \cup {n}, n.code # None
  PROVE  Given' = Given \cup {<<n.to, n.code>>}
<1>1. \A x : x \in Given <=>
               \E a \in answers : a.code # None /\ x = <<a.to, a.code>>
  BY DEF Given
<1>2. \A x : x \in Given' <=>
               \E a \in answers' : a.code # None /\ x = <<a.to, a.code>>
  BY DEF Given
<1> QED BY <1>1, <1>2

LEMMA ApiImplements ==
  ASSUME IInv, Api PROVE [Contract!Next]_(Contract!vars)
<1>1. Given' = Given
  BY DEF Api, CreateEndpoint, DeleteEndpoint, Begin, UnchangedWorker, Given
<1>2. ASSUME NEW w \in Endpoints, DeleteEndpoint(w)
      PROVE  Contract!Withdraw(w)
  BY <1>1, <1>2 DEF DeleteEndpoint, Contract!Withdraw, Contract!Delivery,
                    Delivery, Given
<1>3. ASSUME rows' = rows PROVE UNCHANGED Contract!vars
  BY <1>1, <1>3, StutterGiven
<1> QED BY <1>2, <1>3 DEF Api, CreateEndpoint, Begin, Contract!Next

LEMMA ProducerImplements ==
  ASSUME IInv, NEW e \in Events, ProducerStep(e) \/ ProducerFault(e)
  PROVE  [Contract!Next]_(Contract!vars)
<1>1. Given' = Given
  BY DEF ProducerStep, ProducerFault, InsertRows, InsertFails, Enqueue,
         EnqueueFails, UnchangedWorker, Given
<1>2. ASSUME rows' = rows PROVE UNCHANGED Contract!vars
  BY <1>1, <1>2, StutterGiven
<1>3. ASSUME producers[e] = "insert", WriteRows(e)
      PROVE  Contract!Next
  <2> DEFINE ws == {w \in Endpoints : endpoints[w] = "enabled"}
  <2>1. \A w \in Endpoints : rows[<<e, w>>].status = "none"
    BY <1>3 DEF IInv, ProducedOnce
  <2>2. rows' = [d \in Delivery |->
                   IF d[1] = e /\ d[2] \in ws
                     THEN [status |-> "pending", code |-> None] ELSE rows[d]]
    BY <1>3 DEF WriteRows, Delivery
  <2>3. ws \in SUBSET Endpoints
    OBVIOUS
  <2> HIDE DEF ws
  <2>4. Contract!Store(e, ws)
    BY <1>1, <2>1, <2>2 DEF Contract!Store, Contract!Delivery, Delivery, Given
  <2> QED BY <2>3, <2>4 DEF Contract!Next
<1> QED BY <1>2, <1>3
        DEF ProducerStep, ProducerFault, InsertRows, InsertFails, Enqueue,
            EnqueueFails, UnchangedWorker

LEMMA WorkerImplements ==
  ASSUME IInv, NEW t \in Events, WorkerStep(t) \/ WorkerFault(t)
  PROVE  [Contract!Next]_(Contract!vars)
<1>1. ASSUME rows' = rows, answers' = answers PROVE UNCHANGED Contract!vars
  BY <1>1, StutterGiven DEF Given
<1>2. ASSUME NEW d \in Delivery, NEW c \in Codes, Post(t, d, c)
      PROVE  Contract!Next
  <2>1. Given' = Given \cup {<<d, c>>}
    <3>1. c # None
      BY WebhookAssumption
    <3> DEFINE n == [task |-> t, run |-> tasks[t].run, to |-> d, code |-> c]
    <3>2. answers' = answers \cup {n} /\ n.to = d /\ n.code = c
      BY <1>2 DEF Post
    <3> HIDE DEF n
    <3> QED BY <3>1, <3>2, GivenGrows
  <2>2. rows[d].status # "none" /\ rows' = rows
    BY <1>2 DEF Post, IInv, Inserted
  <2>3. Contract!Give(d, c)
    BY <2>1, <2>2 DEF Contract!Give, Given
  <2> QED BY <2>3 DEF Contract!Next, Contract!Delivery, Delivery
<1>3. ASSUME NEW d \in Delivery, PostFails(t, d)
      PROVE  UNCHANGED Contract!vars
  <2>1. rows' = rows /\ answers' = answers \cup
          {[task |-> t, run |-> tasks[t].run, to |-> d, code |-> None]}
    BY <1>3 DEF PostFails
  <2>2. Given' = Given
    BY <2>1 DEF Given
  <2> QED BY <2>1, <2>2, StutterGiven
<1>4. ASSUME tasks[t].pc = "mark", answers' = answers,
             WriteDelivered(t) \/ UNCHANGED rows
      PROVE  [Contract!Next]_(Contract!vars)
  <2> DEFINE d == tasks[t].cur
             c == tasks[t].code
  <2>1. d \in Delivery /\ c \in Codes /\ <<d, c>> \in Given
    <3>1. d \in Delivery /\ c \in Codes /\ AnswerInHand(t) \in answers
      BY <1>4 DEF IInv, InHand
    <3>2. AnswerInHand(t).to = d /\ AnswerInHand(t).code = c
      BY DEF AnswerInHand
    <3>3. c # None
      BY <3>1, WebhookAssumption
    <3> HIDE DEF d, c
    <3> QED BY <3>1, <3>2, <3>3 DEF Given
  <2>2. CASE rows' = rows
    BY <1>1, <1>4, <2>2
  <2>3. CASE rows' # rows
    <3>1. /\ rows[d].status \in {"pending", "delivered"}
          /\ rows' = [rows EXCEPT ![d] = [status |-> "delivered", code |-> c]]
      BY <1>4, <2>3 DEF WriteDelivered
    <3>2. Given' = Given
      BY <1>4 DEF Given
    <3>3. Contract!Record(d, c)
      BY <2>1, <3>1, <3>2 DEF Contract!Record, Given
    <3> QED BY <2>1, <3>3 DEF Contract!Next, Contract!Delivery, Delivery
  <2> QED BY <2>2, <2>3
<1>5. CASE Mark(t) \/ MarkFails(t)
  BY <1>4, <1>5 DEF Mark, MarkFails, Marked
<1>6. ASSUME NEW w \in Endpoints, ListPending(t, w) \/ ListPendingFails(t, w)
      PROVE  UNCHANGED Contract!vars
  BY <1>1, <1>6 DEF ListPending, ListPendingFails
<1>7. CASE \/ Dequeue(t) \/ ListEndpoints(t) \/ ListEndpointsFails(t)
           \/ Decrypt(t) \/ DecryptFails(t) \/ Finish(t) \/ Crash(t)
           \/ ShutdownRequeues(t)
  BY <1>1, <1>7 DEF Dequeue, ListEndpoints, ListEndpointsFails, Decrypt,
                    DecryptFails, Finish, Crash, ShutdownRequeues
<1> QED BY <1>2, <1>3, <1>5, <1>6, <1>7 DEF WorkerStep, WorkerFault

\* Webhook delivery implements DeliveryContract: every step of the API, the
\* producers and the tasks stores an event's rows, gets an answer, records an
\* answer, withdraws rows, or changes nothing the customer sees.
THEOREM DeliveryImplements == Spec => ImplementsContract
<1>1. Init => Contract!Init
  BY DEF Init, Contract!Init, Contract!Delivery, Delivery
<1>2. IInv /\ [Next]_vars => [Contract!Next]_(Contract!vars)
  <2> SUFFICES ASSUME IInv, [Next]_vars
               PROVE  [Contract!Next]_(Contract!vars)
    OBVIOUS
  <2>1. CASE UNCHANGED vars
    BY <2>1, StutterGiven DEF vars, Given
  <2>2. CASE Next
    BY <2>2, ApiImplements, ProducerImplements, WorkerImplements DEF Next
  <2> QED BY <2>1, <2>2
<1> QED BY <1>1, <1>2, WebhookInductive, PTL
        DEF Spec, ImplementsContract, Contract!Spec
=============================================================================
