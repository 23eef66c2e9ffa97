----------------------------- MODULE MediaProofs -----------------------------
(***************************************************************************)
(* Proofs about MediaLifecycle, for every value of its constants: any      *)
(* number of media, presets, clients and retries, every fault.             *)
(***************************************************************************)
EXTENDS MediaLifecycle, TLAPS

\* What is known of an original before its row goes.
BucketInv ==
  /\ purged \cap objects \subseteq strays
  /\ \A c \in Clients :
       /\ reqs[c].pc # "idle" => reqs[c].medium \in Media
       /\ reqs[c].pc # "idle" => media[reqs[c].medium].status # "absent"
       /\ reqs[c].pc = "deleteRow" => reqs[c].medium \in purged \cup strays
  /\ \A m \in Media :
       /\ media[m].status = "deleted" => m \in purged \cup strays
       /\ media[m].status = "absent" => m \notin purged

\* A run about to mark its medium ready has written its output, a row names
\* an output of its own medium, and tasks come after the row.
WorkInv ==
  /\ \A t \in Tasks :
       /\ tasks[t].pc = "markReady" => t \in whole
       /\ tasks[t].pc # "absent" => media[MediaOf[t]].status # "absent"
  /\ \A m \in Media :
       media[m].format # Null => MediaOf[media[m].format] = m

IInv ==
  /\ TypeOK
  /\ BucketInv
  /\ WorkInv
  /\ BucketAgrees
  /\ ReadyIsWhole
  /\ StatusIsEarned

-----------------------------------------------------------------------------
\* Writing columns of a row leaves a table of rows.
LEMMA RowUpdates ==
  ASSUME TypeOK, NEW m \in Media
  PROVE  /\ [media EXCEPT ![m].thumbnail = TRUE] \in [Media -> Row]
         /\ \A t \in Tasks :
              [media EXCEPT ![m].status = "ready", ![m].format = t,
                            ![m].thumbnail = TRUE] \in [Media -> Row]
         /\ [media EXCEPT ![m].status = "failed", ![m].error = TRUE]
              \in [Media -> Row]
<1>1. media[m] \in Row
  BY DEF TypeOK
<1>2. ASSUME NEW r \in Row PROVE [media EXCEPT ![m] = r] \in [Media -> Row]
  BY DEF TypeOK
<1>3. [media EXCEPT ![m].thumbnail = TRUE] \in [Media -> Row]
  <2>1. [media[m] EXCEPT !.thumbnail = TRUE] \in Row
    BY <1>1, Zenon DEF Row
  <2> QED BY <1>2, <2>1, Zenon
<1>4. ASSUME NEW t \in Tasks
      PROVE  [media EXCEPT ![m].status = "ready", ![m].format = t,
                           ![m].thumbnail = TRUE] \in [Media -> Row]
  <2> DEFINE a == [media[m] EXCEPT !.status = "ready"]
             b == [a EXCEPT !.format = t]
             d == [b EXCEPT !.thumbnail = TRUE]
  <2>1. a \in Row
    BY <1>1, Zenon DEF Row, Live
  <2>2. b \in Row
    BY <2>1, Zenon DEF Row
  <2>3. d \in Row
    BY <2>2, Zenon DEF Row
  <2> QED BY <2>3 DEF TypeOK
<1>5. [media EXCEPT ![m].status = "failed", ![m].error = TRUE]
        \in [Media -> Row]
  <2> DEFINE a == [media[m] EXCEPT !.status = "failed"]
             b == [a EXCEPT !.error = TRUE]
  <2>1. a \in Row
    BY <1>1, Zenon DEF Row, Live
  <2>2. b \in Row
    BY <2>1, Zenon DEF Row
  <2> QED BY <2>2 DEF TypeOK
<1> QED BY <1>3, <1>4, <1>5

LEMMA InitIInv == Init => IInv
<1> SUFFICES ASSUME Init PROVE IInv
  OBVIOUS
<1>1. TypeOK
  BY DEF Init, TypeOK, Row, NoRow, Live, Request, Idle, Task
<1>2. BucketInv /\ WorkInv
  BY ConstantsAssumption
  DEF Init, BucketInv, WorkInv, NoRow, Idle
<1>3. BucketAgrees /\ ReadyIsWhole /\ StatusIsEarned
  BY DEF Init, BucketAgrees, ReadyIsWhole, StatusIsEarned, NoRow, RowExists,
         Live
<1> QED BY <1>1, <1>2, <1>3 DEF IInv

(* Requests and puts leave the tasks; the rows they touch keep their status *)
(* and their output, or come or go.                                         *)

RowsKept ==
  \A m \in Media :
    \/ media'[m].status = media[m].status /\ media'[m].format = media[m].format
    \/ media[m].status = "absent" /\ media'[m] = NoRow("uploading")
    \/ media'[m] = NoRow("deleted") /\ RowExists(m)

LEMMA ApiKeepsWork ==
  ASSUME IInv, RowsKept, UNCHANGED work
  PROVE  WorkInv' /\ ReadyIsWhole' /\ StatusIsEarned'
<1> USE ConstantsAssumption
    DEF IInv, TypeOK, Row, NoRow, Live, Task, RowExists, RowsKept, work
<1>1. WorkInv'
  <2>1. \A m \in Media : media[m].status # "absent"
                          => media'[m].status # "absent"
    OBVIOUS
  <2>2. \A m \in Media : media'[m].format \in {media[m].format, Null}
    OBVIOUS
  <2>3. \A t \in Tasks : MediaOf[t] \in Media
    OBVIOUS
  <2> QED BY <2>1, <2>2, <2>3 DEF WorkInv
<1>2. ReadyIsWhole'
  BY DEF ReadyIsWhole
<1>3. StatusIsEarned'
  <2>1. ASSUME NEW m \in Media, media'[m].status = "uploading",
               NEW t \in Tasks, MediaOf[t] = m
        PROVE  tasks[t].pc # "done"
               /\ (tasks[t].pc = "archived" => t \in unmarked)
    BY <2>1 DEF StatusIsEarned, WorkInv
  <2>2. ASSUME NEW m \in Media, media'[m].status = "failed"
        PROVE  media[m].status = "failed"
    BY <2>2
  <2> QED BY <2>1, <2>2 DEF StatusIsEarned
<1> QED BY <1>1, <1>2, <1>3

LEMMA ApiSteps ==
  ASSUME IInv,
         \/ \E c \in Clients, m \in Media : Upload(c, m) \/ BeginDelete(c, m)
         \/ \E m \in Media : SetThumbnail(m) \/ PutObject(m) \/ UrlExpires(m)
         \/ \E c \in Clients : HandlerStep(c) \/ HandlerFault(c)
  PROVE  IInv'
<1> SUFFICES TypeOK' /\ BucketInv' /\ BucketAgrees' /\ RowsKept /\ UNCHANGED work
  BY ApiKeepsWork DEF IInv
<1> USE NullAssumption
    DEF IInv, TypeOK, Row, NoRow, Live, Request, Idle, RowExists, RowsKept,
        bucket, BucketInv, BucketAgrees
<1>1. ASSUME NEW c \in Clients, NEW m \in Media, Upload(c, m)
      PROVE  TypeOK' /\ BucketInv' /\ BucketAgrees' /\ RowsKept /\ UNCHANGED work
  <2>1. TypeOK' /\ RowsKept /\ UNCHANGED work
    BY <1>1 DEF Upload, work
  <2>2. BucketInv'
    BY <1>1 DEF Upload
  <2>3. BucketAgrees'
    BY <1>1 DEF Upload
  <2> QED BY <2>1, <2>2, <2>3
<1>2. ASSUME NEW c \in Clients, NEW m \in Media, BeginDelete(c, m)
      PROVE  TypeOK' /\ BucketInv' /\ BucketAgrees' /\ RowsKept /\ UNCHANGED work
  <2>1. TypeOK' /\ RowsKept /\ UNCHANGED work
    BY <1>2 DEF BeginDelete, work
  <2>2. BucketInv'
    BY <1>2 DEF BeginDelete
  <2>3. BucketAgrees'
    BY <1>2 DEF BeginDelete
  <2> QED BY <2>1, <2>2, <2>3
<1>3. ASSUME NEW m \in Media, SetThumbnail(m)
      PROVE  TypeOK' /\ BucketInv' /\ BucketAgrees' /\ RowsKept /\ UNCHANGED work
  <2>1. media' \in [Media -> Row]
    BY <1>3, RowUpdates, Zenon DEF SetThumbnail
  <2>2. \A x \in Media : /\ media'[x].status = media[x].status
                          /\ media'[x].format = media[x].format
    BY <1>3 DEF SetThumbnail
  <2>3. UNCHANGED <<bucket, reqs, halfway, work>>
    BY <1>3 DEF SetThumbnail
  <2>6. TypeOK' /\ RowsKept /\ UNCHANGED work
    BY <2>1, <2>2, <2>3 DEF work
  <2>4. BucketInv'
    BY <2>2, <2>3
  <2>5. BucketAgrees'
    BY <2>2, <2>3
  <2> QED BY <2>4, <2>5, <2>6
<1>4. ASSUME NEW m \in Media, PutObject(m) \/ UrlExpires(m)
      PROVE  TypeOK' /\ BucketInv' /\ BucketAgrees' /\ RowsKept /\ UNCHANGED work
  BY <1>4 DEF PutObject, UrlExpires, work
<1>5. ASSUME NEW c \in Clients, PresignUpload(c)
      PROVE  TypeOK' /\ BucketInv' /\ BucketAgrees' /\ RowsKept /\ UNCHANGED work
  <2>1. TypeOK' /\ RowsKept /\ UNCHANGED work
    BY <1>5 DEF PresignUpload, work
  <2>2. BucketInv' /\ BucketAgrees'
    BY <1>5 DEF PresignUpload
  <2> QED BY <2>1, <2>2
<1>6. ASSUME NEW c \in Clients, DeleteObject(c) \/ DeleteObjectFails(c)
      PROVE  TypeOK' /\ BucketInv' /\ BucketAgrees' /\ RowsKept /\ UNCHANGED work
  <2>1. TypeOK' /\ RowsKept /\ UNCHANGED work
    BY <1>6 DEF DeleteObject, DeleteObjectFails, work
  <2>2. BucketInv'
    BY <1>6 DEF DeleteObject, DeleteObjectFails
  <2>3. BucketAgrees'
    BY <1>6 DEF DeleteObject, DeleteObjectFails
  <2> QED BY <2>1, <2>2, <2>3
<1>7. ASSUME NEW c \in Clients, DeleteRow(c)
      PROVE  TypeOK' /\ BucketInv' /\ BucketAgrees' /\ RowsKept /\ UNCHANGED work
  <2>1. TypeOK' /\ RowsKept /\ UNCHANGED work
    BY <1>7 DEF DeleteRow, work
  <2>2. BucketInv'
    BY <1>7 DEF DeleteRow
  <2>3. BucketAgrees'
    BY <1>7 DEF DeleteRow
  <2> QED BY <2>1, <2>2, <2>3
<1>8. ASSUME NEW c \in Clients, RequestAborts(c)
      PROVE  TypeOK' /\ BucketInv' /\ BucketAgrees' /\ RowsKept /\ UNCHANGED work
  <2>1. TypeOK' /\ RowsKept /\ UNCHANGED work
    BY <1>8 DEF RequestAborts, work
  <2>2. BucketInv' /\ BucketAgrees'
    BY <1>8 DEF RequestAborts
  <2> QED BY <2>1, <2>2
<1> QED BY <1>1, <1>2, <1>3, <1>4, <1>5, <1>6, <1>7, <1>8
        DEF HandlerStep, HandlerFault

-----------------------------------------------------------------------------
(* A step of the worker touches one task, and at most the row of its medium. *)

TaskStep(t) ==
  /\ tasks' \in [Tasks -> Task]
  /\ whole' \in SUBSET Tasks
  /\ unmarked' \in SUBSET Tasks
  /\ requeues' \in Nat
  /\ \A u \in Tasks \ {t} : /\ tasks'[u] = tasks[u]
                            /\ u \in whole' <=> u \in whole
                            /\ u \in unmarked' <=> u \in unmarked
  /\ UnchangedApi

LEMMA GotoStep ==
  ASSUME TypeOK, NEW t \in Tasks,
         NEW l \in {"pending", "done"} \cup Running, Goto(t, l)
  PROVE  /\ tasks' \in [Tasks -> Task]
         /\ tasks'[t].pc = l
         /\ \A u \in Tasks \ {t} : tasks'[u] = tasks[u]
  BY DEF TypeOK, Task, Goto, Running, Settled

LEMMA RetryStep ==
  ASSUME TypeOK, NEW t \in Tasks, Retry(t)
  PROVE  /\ tasks' \in [Tasks -> Task]
         /\ tasks'[t].pc \in {"pending", "archived"}
         /\ \A u \in Tasks \ {t} : tasks'[u] = tasks[u]
<1>1. tasks[t].retried \in Nat /\ tasks[t].retried + 1 \in Nat
  BY DEF TypeOK, Task
<1>2. CASE tasks[t].retried < MaxRetry
  BY <1>1, <1>2 DEF TypeOK, Task, Retry, Running, Settled
<1>3. CASE ~(tasks[t].retried < MaxRetry)
  BY <1>1, <1>3 DEF TypeOK, Task, Retry, Running, Settled
<1> QED BY <1>2, <1>3

LEMMA WorkKeepsBucket ==
  ASSUME IInv, UnchangedApi,
         \A m \in Media :
           \/ media'[m].status = media[m].status
           \/ RowExists(m) /\ media'[m].status \in {"ready", "failed"}
  PROVE  BucketInv' /\ BucketAgrees'
<1> USE DEF IInv, TypeOK, RowExists, Live, UnchangedApi, bucket
<1>1. BucketInv'
  BY NullAssumption DEF BucketInv
<1>2. BucketAgrees'
  BY DEF BucketAgrees
<1> QED BY <1>1, <1>2

\* A step that writes no row.
LEMMA RunStep ==
  ASSUME IInv, NEW t \in Tasks, TaskStep(t), UNCHANGED media,
         tasks[t].pc \notin Settled,
         media[MediaOf[t]].status # "absent",
         tasks'[t].pc \notin {"absent", "done"},
         tasks'[t].pc = "archived" => t \in unmarked',
         tasks'[t].pc = "markReady" => t \in whole'
  PROVE  IInv'
<1> USE DEF IInv, TaskStep
<1>1. TypeOK'
  BY DEF TypeOK, UnchangedApi, bucket
<1>2. BucketInv' /\ BucketAgrees'
  BY WorkKeepsBucket
<1>3. WorkInv'
  BY DEF WorkInv
<1>4. ReadyIsWhole'
  BY DEF TypeOK, Row, ReadyIsWhole, Settled
<1>5. StatusIsEarned'
  BY DEF StatusIsEarned, Settled
<1> QED BY <1>1, <1>2, <1>3, <1>4, <1>5

LEMMA ReadyStep ==
  ASSUME IInv, NEW t \in Tasks, TaskStep(t), WriteReady(t),
         tasks[t].pc = "markReady", t \in whole',
         tasks'[t].pc \in {"done", "pending", "archived"}
  PROVE  IInv'
<1> USE ConstantsAssumption DEF IInv, TaskStep
<1> DEFINE n == MediaOf[t]
<1>1. n \in Media
  OBVIOUS
<1>2. media' \in [Media -> Row]
  BY <1>1, RowUpdates, Zenon DEF WriteReady, TypeOK
<1>3. \A m \in Media \ {n} : media'[m] = media[m]
  BY DEF TypeOK, WriteReady
<1>4. \/ /\ RowExists(n)
         /\ media'[n].status = "ready" /\ media'[n].format = t
      \/ ~RowExists(n) /\ media'[n] = media[n]
  BY <1>1 DEF TypeOK, Row, WriteReady
<1> HIDE DEF n
<1>5. TypeOK'
  BY <1>2 DEF TypeOK, UnchangedApi, bucket
<1>6. BucketInv' /\ BucketAgrees'
  BY <1>3, <1>4, WorkKeepsBucket
<1>7. WorkInv'
  <2>1. \A m \in Media : media[m].status # "absent"
                          => media'[m].status # "absent"
    BY <1>3, <1>4
  <2>2. \A m \in Media : media'[m].format # Null
                          => MediaOf[media'[m].format] = m
    BY <1>3, <1>4 DEF WorkInv, n
  <2>3. \A u \in Tasks : MediaOf[u] \in Media
    OBVIOUS
  <2> QED BY <2>1, <2>2, <2>3 DEF WorkInv
<1>8. ReadyIsWhole'
  BY <1>3, <1>4, NullAssumption DEF TypeOK, Row, WorkInv, ReadyIsWhole
<1>9. StatusIsEarned'
  <2>1. ASSUME NEW m \in Media, media'[m].status = "uploading",
               NEW u \in Tasks, MediaOf[u] = m
        PROVE  tasks'[u].pc # "done"
               /\ (tasks'[u].pc = "archived" => u \in unmarked')
    BY <2>1, <1>3, <1>4 DEF StatusIsEarned, n, RowExists, Live
  <2>2. ASSUME NEW m \in Media, media'[m].status = "failed"
        PROVE  \E u \in Tasks : /\ MediaOf[u] = m
                                /\ tasks'[u].pc \notin {"absent", "done"}
    BY <2>2, <1>3, <1>4 DEF StatusIsEarned, n, RowExists, Live
  <2> QED BY <2>1, <2>2 DEF StatusIsEarned
<1> QED BY <1>5, <1>6, <1>7, <1>8, <1>9

LEMMA FailedStep ==
  ASSUME IInv, NEW t \in Tasks, TaskStep(t), WriteFailed(t),
         tasks[t].pc = "markFailed",
         tasks'[t].pc \in {"pending", "archived"}
  PROVE  IInv'
<1> USE ConstantsAssumption DEF IInv, TaskStep
<1> DEFINE n == MediaOf[t]
<1>1. n \in Media
  OBVIOUS
<1>2. media' \in [Media -> Row]
  BY <1>1, RowUpdates, Zenon DEF WriteFailed, TypeOK
<1>3. \A m \in Media : media'[m].format = media[m].format
  BY DEF TypeOK, Row, WriteFailed
<1>4. /\ \A m \in Media \ {n} : media'[m] = media[m]
      /\ \/ RowExists(n) /\ media'[n].status = "failed"
         \/ ~RowExists(n) /\ media'[n] = media[n]
  BY <1>1 DEF TypeOK, Row, WriteFailed
<1> HIDE DEF n
<1>5. TypeOK'
  BY <1>2 DEF TypeOK, UnchangedApi, bucket
<1>6. BucketInv' /\ BucketAgrees'
  BY <1>4, WorkKeepsBucket
<1>7. WorkInv'
  <2>1. \A m \in Media : media[m].status # "absent"
                          => media'[m].status # "absent"
    BY <1>4
  <2>2. \A u \in Tasks : MediaOf[u] \in Media
    OBVIOUS
  <2> QED BY <1>3, <2>1, <2>2 DEF WorkInv
<1>8. ReadyIsWhole'
  BY <1>3, <1>4 DEF TypeOK, Row, WorkInv, ReadyIsWhole, RowExists, Live, n
<1>9. StatusIsEarned'
  <2>1. ASSUME NEW m \in Media, media'[m].status = "uploading",
               NEW u \in Tasks, MediaOf[u] = m
        PROVE  tasks'[u].pc # "done"
               /\ (tasks'[u].pc = "archived" => u \in unmarked')
    BY <2>1, <1>4 DEF StatusIsEarned, n, RowExists, Live
  <2>2. ASSUME NEW m \in Media, media'[m].status = "failed"
        PROVE  \E u \in Tasks : /\ MediaOf[u] = m
                                /\ tasks'[u].pc \notin {"absent", "done"}
    BY <2>2, <1>4 DEF StatusIsEarned, n, RowExists, Live
  <2> QED BY <2>1, <2>2 DEF StatusIsEarned
<1> QED BY <1>5, <1>6, <1>7, <1>8, <1>9

LEMMA WorkerSteps ==
  ASSUME IInv, NEW t \in Tasks, Enqueue(t) \/ WorkerStep(t) \/ WorkerFault(t)
  PROVE  IInv'
<1> USE DEF IInv
<1>1. /\ whole \in SUBSET Tasks /\ unmarked \in SUBSET Tasks /\ TypeOK
      /\ requeues \in Nat /\ requeues + 1 \in Nat
  BY DEF TypeOK
<1>2. tasks[t].pc \notin {"absent"} \cup Settled
        => /\ media[MediaOf[t]].status # "absent"
           /\ tasks[t].pc = "markReady" => t \in whole
  BY DEF WorkInv, Settled
<1>3. ASSUME Enqueue(t) \/ Dequeue(t) \/ TranscodeRefused(t)
             \/ FfmpegStarts(t) \/ FfmpegSucceeds(t) \/ FfmpegFails(t)
      PROVE  IInv'
  <2>1. /\ tasks' \in [Tasks -> Task]
        /\ tasks'[t].pc \in {"pending"} \cup Running
        /\ tasks'[t].pc = "markReady" => t \in whole'
        /\ \A u \in Tasks \ {t} : tasks'[u] = tasks[u]
    BY <1>1, <1>3, GotoStep
    DEF Enqueue, Dequeue, TranscodeRefused, FfmpegStarts, FfmpegSucceeds,
        FfmpegFails, Running
  <2>2. /\ UNCHANGED media
        /\ tasks[t].pc \notin Settled
        /\ media[MediaOf[t]].status # "absent"
    BY <1>2, <1>3
    DEF Enqueue, Dequeue, TranscodeRefused, FfmpegStarts, FfmpegSucceeds,
        FfmpegFails, Settled
  <2>3. TaskStep(t)
    BY <1>1, <1>3, <2>1
    DEF TaskStep, Enqueue, Dequeue, TranscodeRefused, FfmpegStarts,
        FfmpegSucceeds, FfmpegFails
  <2> QED BY <2>1, <2>2, <2>3, RunStep DEF Running
<1>4. ASSUME tasks[t].pc \in Running, Retry(t), UnchangedApi,
             UNCHANGED <<media, whole, requeues>>,
             unmarked' = unmarked \cup {t}
      PROVE  IInv'
  <2>1. TaskStep(t)
    BY <1>1, <1>4, RetryStep DEF TaskStep
  <2> QED BY <1>1, <1>2, <1>4, <2>1, RetryStep, RunStep DEF Running, Settled
<1>5. ASSUME RunLost(t) \/ FfmpegTimesOut(t) PROVE IInv'
  BY <1>4, <1>5 DEF RunLost, FfmpegTimesOut, Running
<1>6. ASSUME tasks[t].pc = "markReady", WriteReady(t), UnchangedApi,
             UNCHANGED whole, unmarked' = unmarked \ {t}, requeues' \in Nat,
             Goto(t, "done") \/ Goto(t, "pending") \/ Retry(t)
      PROVE  IInv'
  <2>1. /\ tasks' \in [Tasks -> Task]
        /\ tasks'[t].pc \in {"done", "pending", "archived"}
        /\ \A u \in Tasks \ {t} : tasks'[u] = tasks[u]
    BY <1>1, <1>6, GotoStep, RetryStep
  <2>2. TaskStep(t)
    BY <1>1, <1>6, <2>1 DEF TaskStep
  <2> QED BY <1>2, <1>6, <2>1, <2>2, ReadyStep DEF Settled
<1>7. ASSUME MarkReady(t) \/ MarkReadyFails(t) PROVE IInv'
  <2>1. requeues' \in Nat
    BY <1>1, <1>7 DEF MarkReady, MarkReadyFails
  <2> QED BY <1>4, <1>6, <1>7, <2>1 DEF MarkReady, MarkReadyFails, Running
<1>8. ASSUME MarkFailed(t) PROVE IInv'
  <2>1. CASE WriteFailed(t) /\ unmarked' = unmarked \ {t}
    <3>1. TaskStep(t)
      BY <1>1, <1>8, <2>1, RetryStep DEF TaskStep, MarkFailed
    <3> QED BY <1>1, <1>8, <2>1, <3>1, RetryStep, FailedStep DEF MarkFailed
  <2>2. CASE UNCHANGED media /\ unmarked' = unmarked \cup {t}
    BY <1>4, <1>8, <2>2 DEF MarkFailed, Running
  <2> QED BY <1>8, <2>1, <2>2 DEF MarkFailed
<1>9. ASSUME ShutdownRequeues(t) PROVE IInv'
  <2>1. /\ tasks[t].pc \in Running /\ Goto(t, "pending") /\ UnchangedApi
        /\ UNCHANGED whole /\ requeues' \in Nat
    BY <1>1, <1>9 DEF ShutdownRequeues
  <2>2. /\ tasks' \in [Tasks -> Task] /\ tasks'[t].pc = "pending"
        /\ \A u \in Tasks \ {t} : tasks'[u] = tasks[u]
    BY <1>1, <2>1, GotoStep
  <2>3. CASE UNCHANGED media /\ unmarked' = unmarked \cup {t}
    <3>1. TaskStep(t)
      BY <1>1, <2>1, <2>2, <2>3 DEF TaskStep
    <3> QED BY <1>1, <1>2, <2>1, <2>2, <2>3, <3>1, RunStep
            DEF Running, Settled
  <2>4. CASE unmarked' = unmarked \ {t}
    <3>1. TaskStep(t)
      BY <1>1, <2>1, <2>2, <2>4 DEF TaskStep
    <3>2. CASE tasks[t].pc = "markReady" /\ WriteReady(t)
      BY <1>6, <2>1, <2>4, <3>2
    <3>3. CASE tasks[t].pc = "markFailed" /\ WriteFailed(t)
      BY <2>2, <3>1, <3>3, FailedStep
    <3>4. CASE UNCHANGED media /\ unmarked' = unmarked \cup {t}
      BY <2>3, <3>4
    <3> QED BY <1>9, <3>2, <3>3, <3>4 DEF ShutdownRequeues
  <2> QED BY <1>9, <2>3, <2>4 DEF ShutdownRequeues
<1> QED BY <1>3, <1>5, <1>7, <1>8, <1>9 DEF WorkerStep, WorkerFault

-----------------------------------------------------------------------------
LEMMA Invariance == Spec => []IInv
<1>1. IInv /\ [Next]_vars => IInv'
  <2> SUFFICES ASSUME IInv, [Next]_vars PROVE IInv'
    OBVIOUS
  <2>1. CASE Next
    BY <2>1, ApiSteps, WorkerSteps DEF Next, ClientStep
  <2>2. CASE UNCHANGED vars
    <3>1. TypeOK' /\ BucketInv' /\ WorkInv'
      BY <2>2 DEF vars, IInv, TypeOK, BucketInv, WorkInv
    <3>2. BucketAgrees' /\ ReadyIsWhole' /\ StatusIsEarned'
      BY <2>2 DEF vars, IInv, BucketAgrees, RowExists, ReadyIsWhole,
                  StatusIsEarned
    <3> QED BY <3>1, <3>2 DEF IInv
  <2> QED BY <2>1, <2>2
<1> QED BY InitIInv, <1>1, PTL DEF Spec

\* Every row, request and task has its type: the columns the code writes, and
\* the places its handlers can stand at.
THEOREM TypeCorrect == Spec => []TypeOK
  BY Invariance, PTL DEF IInv

\* Row and original agree for any number of overlapping uploads, puts and
\* deletes, up to the failures and the late puts that explain why not.
THEOREM BucketAgreement == Spec => []BucketAgrees
  BY Invariance, PTL DEF IInv

\* A ready row names a whole file, for any number of presets and retries,
\* unless its task runs again or ended without writing a status.
THEOREM ReadyMeansWhole == Spec => []ReadyIsWhole
  BY Invariance, PTL DEF IInv

\* The status of a row is that of its tasks, in whatever order they run.
THEOREM StatusFromTasks == Spec => []StatusIsEarned
  BY Invariance, PTL DEF IInv

-----------------------------------------------------------------------------
(* Progress: what fairness of the workers needs for tasks to settle.        *)

\* The order in which a run passes its places.
Place == [pc \in {"absent", "pending"} \cup Running \cup Settled |->
            CASE pc = "absent" -> 0 [] pc = "pending" -> 1
              [] pc = "transcode" -> 2 [] pc = "ffmpeg" -> 3
              [] pc \in Settled -> 5 [] OTHER -> 4]

\* A task moves on in its run, and is given up only after its last retry, or
\* uses up one of its retries or one of the runs a shutdown hands back.
Onward(t) ==
  LET old == tasks[t]
      new == tasks'[t] IN
  \/ new = old
  \/ /\ new.retried = old.retried
     /\ Place[new.pc] > Place[old.pc]
     /\ new.pc = "archived" => old.retried >= MaxRetry
  \/ new.retried = old.retried + 1 /\ new.retried <= MaxRetry
  \/ /\ new.retried = old.retried
     /\ requeues' = requeues + 1 /\ requeues' <= MaxRequeues

TasksAdvance == [][\A t \in Tasks : Onward(t)]_vars

LEMMA RetryAdvances ==
  ASSUME TypeOK, NEW t \in Tasks, tasks[t].pc \in Running, Retry(t)
  PROVE  Onward(t)
<1>1. tasks \in [Tasks -> Task] /\ tasks[t].retried \in Nat /\ MaxRetry \in Nat
  BY ConstantsAssumption DEF TypeOK, Task
<1>2. CASE tasks[t].retried < MaxRetry
  BY <1>1, <1>2 DEF Retry, Onward, Task
<1>3. CASE ~(tasks[t].retried < MaxRetry)
  <2>1. tasks'[t].pc = "archived" /\ tasks'[t].retried = tasks[t].retried
    BY <1>1, <1>3 DEF Retry, Task
  <2>2. Place[tasks'[t].pc] > Place[tasks[t].pc]
    BY <2>1 DEF Place, Running, Settled
  <2> QED BY <1>1, <1>3, <2>1, <2>2 DEF Onward
<1> QED BY <1>2, <1>3

LEMMA GotoAdvances ==
  ASSUME TypeOK, NEW t \in Tasks, NEW l \in {"pending", "done"} \cup Running,
         Goto(t, l), Place[l] > Place[tasks[t].pc]
  PROVE  Onward(t)
<1>1. tasks \in [Tasks -> Task]
  BY DEF TypeOK
<1>2. tasks'[t].pc = l /\ tasks'[t].retried = tasks[t].retried
  BY <1>1 DEF Goto, Task
<1> QED BY <1>2 DEF Onward, Running

\* No step of a task is free, whatever requests, puts, other presets and
\* faults come in between: a run that is lost, times out or cannot write its
\* status is paid for with a retry, one that a shutdown interrupts with a
\* requeue, and no task is given up before its last retry.
THEOREM NoFreeRuns == Spec => TasksAdvance
<1>1. TypeOK /\ [Next]_vars => [\A t \in Tasks : Onward(t)]_vars
  <2> SUFFICES ASSUME TypeOK, [Next]_vars, NEW t \in Tasks PROVE Onward(t)
    OBVIOUS
  <2>1. CASE UNCHANGED tasks
    BY <2>1 DEF Onward
  <2>2. ASSUME NEW u \in Tasks, Enqueue(u) \/ WorkerStep(u) \/ WorkerFault(u)
        PROVE  Onward(t)
    <3>1. CASE u = t
      <4> USE DEF Place, Running, Settled
      <4>1. CASE RunLost(t) \/ FfmpegTimesOut(t) \/ MarkReadyFails(t)
                 \/ MarkFailed(t)
        BY <4>1, RetryAdvances
        DEF RunLost, FfmpegTimesOut, MarkReadyFails, MarkFailed
      <4>2. CASE Enqueue(t)
        <5>1. Goto(t, "pending") /\ Place["pending"] > Place[tasks[t].pc]
          BY <4>2 DEF Enqueue
        <5> QED BY <5>1, GotoAdvances
      <4>3. CASE Dequeue(t)
        <5>1. Goto(t, "transcode") /\ Place["transcode"] > Place[tasks[t].pc]
          BY <4>3 DEF Dequeue
        <5> QED BY <5>1, GotoAdvances
      <4>4. CASE TranscodeRefused(t) \/ FfmpegFails(t)
        <5>1. Goto(t, "markFailed") /\ Place["markFailed"] > Place[tasks[t].pc]
          BY <4>4 DEF TranscodeRefused, FfmpegFails
        <5> QED BY <5>1, GotoAdvances
      <4>5. CASE FfmpegStarts(t)
        <5>1. Goto(t, "ffmpeg") /\ Place["ffmpeg"] > Place[tasks[t].pc]
          BY <4>5 DEF FfmpegStarts
        <5> QED BY <5>1, GotoAdvances
      <4>6. CASE FfmpegSucceeds(t)
        <5>1. Goto(t, "markReady") /\ Place["markReady"] > Place[tasks[t].pc]
          BY <4>6 DEF FfmpegSucceeds
        <5> QED BY <5>1, GotoAdvances
      <4>7. CASE MarkReady(t)
        <5>1. Goto(t, "done") /\ Place["done"] > Place[tasks[t].pc]
          BY <4>7 DEF MarkReady
        <5> QED BY <5>1, GotoAdvances
      <4>8. CASE ShutdownRequeues(t)
        <5>1. tasks'[t].retried = tasks[t].retried
          BY <4>8 DEF ShutdownRequeues, Goto, TypeOK, Task
        <5>2. requeues' = requeues + 1 /\ requeues' <= MaxRequeues
          BY <4>8, ConstantsAssumption DEF ShutdownRequeues, TypeOK
        <5> QED BY <5>1, <5>2 DEF Onward
      <4> QED BY <2>2, <3>1, <4>1, <4>2, <4>3, <4>4, <4>5, <4>6, <4>7, <4>8
              DEF WorkerStep, WorkerFault
    <3>2. CASE u # t
      <4>1. tasks \in [Tasks -> Task]
        BY DEF TypeOK
      <4>2. PICK l \in {"pending", "done"} \cup Running : Goto(u, l) \/ Retry(u)
        BY <2>2 DEF Enqueue, WorkerStep, WorkerFault, Dequeue,
           TranscodeRefused, FfmpegStarts, FfmpegSucceeds, FfmpegFails,
           FfmpegTimesOut, MarkReady, MarkFailed, RunLost, MarkReadyFails,
           ShutdownRequeues, Running
      <4>3. tasks'[t] = tasks[t]
        BY <3>2, <4>2, GotoStep, RetryStep
      <4> QED BY <4>3 DEF Onward
    <3> QED BY <3>1, <3>2
  <2>3. CASE \E c \in Clients : HandlerStep(c) \/ HandlerFault(c)
    BY <2>1, <2>3 DEF HandlerStep, HandlerFault, PresignUpload, DeleteObject,
       DeleteRow, DeleteObjectFails, RequestAborts, work
  <2>4. CASE \/ \E c \in Clients, m \in Media : Upload(c, m) \/ BeginDelete(c, m)
             \/ \E m \in Media : SetThumbnail(m) \/ PutObject(m) \/ UrlExpires(m)
    BY <2>1, <2>4 DEF Upload, BeginDelete, SetThumbnail, PutObject, UrlExpires,
       work
  <2>5. CASE UNCHANGED vars
    BY <2>1, <2>5 DEF vars
  <2> QED BY <2>2, <2>3, <2>4, <2>5 DEF Next, ClientStep
<1> QED BY <1>1, TypeCorrect, PTL DEF Spec, TasksAdvance

=============================================================================
