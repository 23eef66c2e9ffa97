--------------------------- MODULE MediaLifecycle ---------------------------
(***************************************************************************)
(* An uploaded medium: its row in Postgres, its original in the bucket and *)
(* the files the transcode worker makes of it.                             *)
(*                                                                         *)
(*   API replica  handlers of internal/api/handler/media.go;               *)
(*   bucket       S3Storage of internal/storage/s3.go: an object per       *)
(*                original_key, put by the client through a presigned URL; *)
(*   worker       transcodeHandler.ProcessTask and ffmpeg.Runner.  Nothing *)
(*                in the repository enqueues media:transcode; a task is    *)
(*                modelled from what its handler expects of the payload.   *)
(*                                                                         *)
(* One action is one SQL statement, one call of the bucket or one step of  *)
(* the ffmpeg process.  A task stands for its preset and its OutputPath.   *)
(***************************************************************************)
EXTENDS Naturals

CONSTANTS
  Media, Clients, Tasks,
  MediaOf,       \* the MediaID in a task's payload
  NullScan,      \* TRUE: a NULL column is read as ""; FALSE: as a scan error
  Faults,        \* TRUE: SQL and bucket calls may fail, runs may be lost
  MaxRetry,      \* asynq's retry limit of a task
  MaxRequeues,   \* bound: runs a graceful shutdown hands back
  Null           \* no medium, no output

ASSUME ConstantsAssumption ==
  /\ MediaOf \in [Tasks -> Media]
  /\ NullScan \in BOOLEAN
  /\ Faults \in BOOLEAN
  /\ MaxRetry \in Nat
  /\ MaxRequeues \in Nat

ASSUME NullAssumption == Null \notin Media \cup Tasks

VARIABLES
  media,     \* rows of the table media
  objects,   \* originals the bucket holds
  urls,      \* presigned URLs that have not expired
  reqs,      \* the Upload or Delete request each client has in flight
  tasks,     \* media:transcode tasks and where their current run stands
  whole,     \* tasks whose output file is complete
  requeues,  \* runs handed back so far
  \* history
  purged,    \* originals a DeleteObject has removed
  strays,    \* originals whose DeleteObject failed, the error dropped, or
             \* that were put after one
  halfway,   \* media whose Delete ended between the object and the row
  unmarked   \* tasks whose last run ended without having written a status

vars == <<media, objects, urls, reqs, tasks, whole, requeues, purged, strays,
          halfway, unmarked>>
bucket == <<objects, urls, purged, strays>>
work == <<tasks, whole, requeues, unmarked>>

-----------------------------------------------------------------------------
Live == {"uploading", "ready", "failed"}

Row == [status : Live \cup {"absent", "deleted"},
        format : Tasks \cup {Null},     \* the one output formats names
        thumbnail : BOOLEAN,            \* thumbnail_key is not NULL
        error : BOOLEAN]                \* error_message is not NULL

NoRow(s) == [status |-> s, format |-> Null, thumbnail |-> FALSE,
             error |-> FALSE]

RowExists(m) == media[m].status \in Live

\* pgx refuses a NULL thumbnail_key or error_message: the fields of
\* store.Media they are scanned into are plain strings.
Readable(m) == NullScan \/ (media[m].thumbnail /\ media[m].error)

Request == [pc : {"idle", "presign", "deleteObject", "deleteRow"},
            medium : Media \cup {Null}]

Idle == [pc |-> "idle", medium |-> Null]

Running == {"transcode", "ffmpeg", "markReady", "markFailed"}
Settled == {"done", "archived"}

Task == [pc : {"absent", "pending"} \cup Running \cup Settled, retried : Nat]

TypeOK ==
  /\ media \in [Media -> Row]
  /\ objects \in SUBSET Media
  /\ urls \in SUBSET Media
  /\ reqs \in [Clients -> Request]
  /\ tasks \in [Tasks -> Task]
  /\ whole \in SUBSET Tasks
  /\ requeues \in Nat
  /\ purged \in SUBSET Media
  /\ strays \in SUBSET Media
  /\ halfway \in SUBSET Media
  /\ unmarked \in SUBSET Tasks

Init ==
  /\ media = [m \in Media |-> NoRow("absent")]
  /\ objects = {}
  /\ urls = {}
  /\ reqs = [c \in Clients |-> Idle]
  /\ tasks = [t \in Tasks |-> [pc |-> "absent", retried |-> 0]]
  /\ whole = {}
  /\ requeues = 0
  /\ purged = {}
  /\ strays = {}
  /\ halfway = {}
  /\ unmarked = {}

-----------------------------------------------------------------------------
(* API handlers                                                            *)

\* POST /v1/media/upload: the row first, under an original_key of its own.
Upload(c, m) ==
  /\ reqs[c].pc = "idle"
  /\ media[m].status = "absent"
  /\ media' = [media EXCEPT ![m] = NoRow("uploading")]
  /\ reqs' = [reqs EXCEPT ![c] = [pc |-> "presign", medium |-> m]]
  /\ UNCHANGED <<bucket, halfway, work>>

PresignUpload(c) ==
  /\ reqs[c].pc = "presign"
  /\ urls' = urls \cup {reqs[c].medium}
  /\ reqs' = [reqs EXCEPT ![c] = Idle]
  /\ UNCHANGED <<media, objects, purged, strays, halfway, work>>

\* Mutant: only the row is deleted.
BeginDeleteRow(c, m) ==
  /\ reqs[c].pc = "idle"
  /\ RowExists(m)
  /\ Readable(m)
  /\ reqs' = [reqs EXCEPT ![c] = [pc |-> "deleteRow", medium |-> m]]
  /\ UNCHANGED <<media, bucket, halfway, work>>

\* Get, then 404 for a row that is missing or cannot be read.
BeginDelete(c, m) ==
  /\ reqs[c].pc = "idle"
  /\ RowExists(m)
  /\ Readable(m)
  /\ reqs' = [reqs EXCEPT ![c] = [pc |-> "deleteObject", medium |-> m]]
  /\ UNCHANGED <<media, bucket, halfway, work>>

\* DeleteObject succeeds for an object that is not there, too.
DeleteObject(c) ==
  LET m == reqs[c].medium IN
  /\ reqs[c].pc = "deleteObject"
  /\ objects' = objects \ {m}
  /\ purged' = purged \cup {m}
  /\ reqs' = [reqs EXCEPT ![c].pc = "deleteRow"]
  /\ UNCHANGED <<media, urls, strays, halfway, work>>

\* Its error is dropped, whether or not the object is gone.
DeleteObjectFails(c) ==
  LET m == reqs[c].medium IN
  /\ Faults
  /\ reqs[c].pc = "deleteObject"
  /\ \/ objects' = objects \ {m} /\ purged' = purged \cup {m}
     \/ UNCHANGED <<objects, purged>>
  /\ strays' = strays \cup {m}
  /\ reqs' = [reqs EXCEPT ![c].pc = "deleteRow"]
  /\ UNCHANGED <<media, urls, halfway, work>>

\* No row affected is an error of mediaStore.Delete, and answered 500.
DeleteRow(c) ==
  LET m == reqs[c].medium IN
  /\ reqs[c].pc = "deleteRow"
  /\ media' = IF RowExists(m) THEN [media EXCEPT ![m] = NoRow("deleted")]
                              ELSE media
  /\ reqs' = [reqs EXCEPT ![c] = Idle]
  /\ UNCHANGED <<bucket, halfway, work>>

\* A statement or the presigner fails, the client goes away or the replica
\* dies.  What the handler has done stays done.
RequestAborts(c) ==
  /\ Faults
  /\ reqs[c].pc # "idle"
  /\ halfway' = IF reqs[c].pc = "deleteRow"
                  THEN halfway \cup {reqs[c].medium} ELSE halfway
  /\ reqs' = [reqs EXCEPT ![c] = Idle]
  /\ UNCHANGED <<media, bucket, work>>

\* PUT /v1/media/{id}/thumbnail: an UPDATE, which a missing row does not fail.
SetThumbnail(m) ==
  /\ RowExists(m)
  /\ media' = [media EXCEPT ![m].thumbnail = TRUE]
  /\ UNCHANGED <<bucket, reqs, halfway, work>>

-----------------------------------------------------------------------------
(* The client and the bucket                                               *)

\* The URL is good for any number of puts for 15 minutes; neither a Delete
\* nor anything else revokes it.
PutObject(m) ==
  /\ m \in urls
  /\ objects' = objects \cup {m}
  /\ strays' = IF m \in purged THEN strays \cup {m} ELSE strays
  /\ UNCHANGED <<media, urls, reqs, purged, halfway, work>>

UrlExpires(m) ==
  /\ m \in urls
  /\ urls' = urls \ {m}
  /\ UNCHANGED <<media, objects, reqs, purged, strays, halfway, work>>

-----------------------------------------------------------------------------
(* asynq: delivery, retries, lost workers                                  *)

UnchangedApi == UNCHANGED <<bucket, reqs, halfway>>

Goto(t, label) == tasks' = [tasks EXCEPT ![t].pc = label]

\* Mutant: a retry does not count.
RetryForever(t) == tasks' = [tasks EXCEPT ![t].pc = "pending"]

\* A run that returned an error is retried until the task's limit is reached.
Retry(t) ==
  tasks' = IF tasks[t].retried < MaxRetry
             THEN [tasks EXCEPT ![t].pc = "pending", ![t].retried = @ + 1]
             ELSE [tasks EXCEPT ![t].pc = "archived"]

\* A producer knows the ID of a medium from the answer to its upload.
Enqueue(t) ==
  /\ tasks[t].pc = "absent"
  /\ media[MediaOf[t]].status # "absent"
  /\ Goto(t, "pending")
  /\ UnchangedApi
  /\ UNCHANGED <<media, whole, requeues, unmarked>>

Dequeue(t) ==
  /\ tasks[t].pc = "pending"
  /\ Goto(t, "transcode")
  /\ UnchangedApi
  /\ UNCHANGED <<media, whole, requeues, unmarked>>

\* The worker dies: the lease expires and the run counts as a failed one.
RunLost(t) ==
  /\ Faults
  /\ tasks[t].pc \in Running
  /\ Retry(t)
  /\ unmarked' = unmarked \cup {t}
  /\ UnchangedApi
  /\ UNCHANGED <<media, whole, requeues>>

-----------------------------------------------------------------------------
(* transcodeHandler.ProcessTask                                            *)

\* Paths are missing, the binary does not start or the input cannot be read:
\* the output is not touched.
TranscodeRefused(t) ==
  /\ tasks[t].pc = "transcode"
  /\ Goto(t, "markFailed")
  /\ UnchangedApi
  /\ UNCHANGED <<media, whole, requeues, unmarked>>

\* "-y" truncates the output of an earlier run.
FfmpegStarts(t) ==
  /\ tasks[t].pc = "transcode"
  /\ whole' = whole \ {t}
  /\ Goto(t, "ffmpeg")
  /\ UnchangedApi
  /\ UNCHANGED <<media, requeues, unmarked>>

FfmpegSucceeds(t) ==
  /\ tasks[t].pc = "ffmpeg"
  /\ whole' = whole \cup {t}
  /\ Goto(t, "markReady")
  /\ UnchangedApi
  /\ UNCHANGED <<media, requeues, unmarked>>

FfmpegFails(t) ==
  /\ tasks[t].pc = "ffmpeg"
  /\ Goto(t, "markFailed")
  /\ UnchangedApi
  /\ UNCHANGED <<media, whole, requeues, unmarked>>

\* The context of a task without a timeout is done after asynq's default of
\* 30 minutes, before Transcode's own 30 minutes that start later; MarkFailed
\* is then called with a context that is done.
FfmpegTimesOut(t) ==
  /\ tasks[t].pc = "ffmpeg"
  /\ Retry(t)
  /\ unmarked' = unmarked \cup {t}
  /\ UnchangedApi
  /\ UNCHANGED <<media, whole, requeues>>

\* Mutant: only a medium that is still "uploading" becomes "ready".
WriteReadyOnce(t) ==
  LET m == MediaOf[t] IN
  media' = IF media[m].status = "uploading"
             THEN [media EXCEPT ![m].status = "ready", ![m].format = t,
                                ![m].thumbnail = TRUE]
             ELSE media

\* MarkReady names this output alone and sets the thumbnail to ""; an earlier
\* error_message stays.  A missing row does not fail the UPDATE.
WriteReady(t) ==
  LET m == MediaOf[t] IN
  media' = IF RowExists(m)
             THEN [media EXCEPT ![m].status = "ready", ![m].format = t,
                                ![m].thumbnail = TRUE]
             ELSE media

MarkReady(t) ==
  /\ tasks[t].pc = "markReady"
  /\ WriteReady(t)
  /\ Goto(t, "done")
  /\ unmarked' = unmarked \ {t}
  /\ UnchangedApi
  /\ UNCHANGED <<whole, requeues>>

\* The statement returned an error, whether or not the server committed it.
MarkReadyFails(t) ==
  /\ Faults
  /\ tasks[t].pc = "markReady"
  /\ \/ WriteReady(t) /\ unmarked' = unmarked \ {t}
     \/ UNCHANGED media /\ unmarked' = unmarked \cup {t}
  /\ Retry(t)
  /\ UnchangedApi
  /\ UNCHANGED <<whole, requeues>>

\* Mutant: a medium that is "ready" keeps its status.
WriteFailedUnlessReady(t) ==
  LET m == MediaOf[t] IN
  media' = IF media[m].status \in {"uploading", "failed"}
             THEN [media EXCEPT ![m].status = "failed", ![m].error = TRUE]
             ELSE media

WriteFailed(t) ==
  LET m == MediaOf[t] IN
  media' = IF RowExists(m)
             THEN [media EXCEPT ![m].status = "failed", ![m].error = TRUE]
             ELSE media

\* The error of Transcode is returned in any case.
MarkFailed(t) ==
  /\ tasks[t].pc = "markFailed"
  /\ \/ WriteFailed(t) /\ unmarked' = unmarked \ {t}
     \/ Faults /\ UNCHANGED media /\ unmarked' = unmarked \cup {t}
  /\ Retry(t)
  /\ UnchangedApi
  /\ UNCHANGED <<whole, requeues>>

-----------------------------------------------------------------------------
\* Pool.Run shuts the server down: a run that does not end in asynq's eight
\* seconds goes back to the queue and does not count, ffmpeg's context is
\* canceled, and an UPDATE under way may still be committed.
ShutdownRequeues(t) ==
  /\ Faults
  /\ requeues < MaxRequeues
  /\ tasks[t].pc \in Running
  /\ \/ UNCHANGED media /\ unmarked' = unmarked \cup {t}
     \/ /\ \/ tasks[t].pc = "markReady" /\ WriteReady(t)
           \/ tasks[t].pc = "markFailed" /\ WriteFailed(t)
        /\ unmarked' = unmarked \ {t}
  /\ Goto(t, "pending")
  /\ requeues' = requeues + 1
  /\ UnchangedApi
  /\ UNCHANGED whole

-----------------------------------------------------------------------------
HandlerStep(c) ==
  PresignUpload(c) \/ DeleteObject(c) \/ DeleteRow(c)

HandlerFault(c) == DeleteObjectFails(c) \/ RequestAborts(c)

ClientStep ==
  \/ \E c \in Clients, m \in Media : Upload(c, m) \/ BeginDelete(c, m)
  \/ \E m \in Media : SetThumbnail(m) \/ PutObject(m) \/ UrlExpires(m)
  \/ \E t \in Tasks : Enqueue(t)

WorkerStep(t) ==
  \/ Dequeue(t)
  \/ TranscodeRefused(t) \/ FfmpegStarts(t)
  \/ FfmpegSucceeds(t) \/ FfmpegFails(t) \/ FfmpegTimesOut(t)
  \/ MarkReady(t) \/ MarkFailed(t)

WorkerFault(t) == RunLost(t) \/ MarkReadyFails(t) \/ ShutdownRequeues(t)

Next ==
  \/ ClientStep
  \/ \E c \in Clients : HandlerStep(c) \/ HandlerFault(c)
  \/ \E t \in Tasks : WorkerStep(t) \/ WorkerFault(t)

\* asynq runs a pending task, and a timeout bounds ffmpeg; nobody is obliged
\* to send or to finish requests, and no fault ever has to happen.
Fairness == \A t \in Tasks : WF_vars(WorkerStep(t))

Spec == Init /\ [][Next]_vars /\ Fairness

-----------------------------------------------------------------------------
(* Properties                                                              *)

\* An original outlives its row only where DeleteObject failed and Delete
\* went on, or where the client put it after the object was deleted; and a
\* row outlives its original only while a Delete of it is under way or after
\* one that was cut short, however Upload, Delete and puts overlap.
BucketAgrees ==
  \A m \in Media :
    /\ media[m].status = "deleted" /\ m \in objects => m \in strays
    /\ RowExists(m) /\ m \in purged \ objects =>
         \/ m \in halfway
         \/ \E c \in Clients :
              reqs[c] = [pc |-> "deleteRow", medium |-> m]

\* The file a "ready" row names is a whole one, unless its task runs again,
\* overwriting it in place, or ended without having written a status: a
\* failed run always takes the row out of "ready".
ReadyIsWhole ==
  \A m \in Media :
    LET t == media[m].format IN
    media[m].status = "ready" =>
      /\ t # Null
      /\ \/ t \in whole
         \/ tasks[t].pc \notin Settled
         \/ t \in unmarked

\* A row's status is that of its tasks: "uploading" until the first one is
\* done or has written its failure, and "failed" only while some task of the
\* medium is not done: when each of several presets has succeeded, in
\* whatever order and after however many failures, the row is "ready".
StatusIsEarned ==
  \A m \in Media :
    /\ media[m].status = "uploading" =>
         \A t \in Tasks : MediaOf[t] = m =>
           /\ tasks[t].pc # "done"
           /\ tasks[t].pc = "archived" => t \in unmarked
    /\ media[m].status = "failed" =>
         \E t \in Tasks : MediaOf[t] = m /\ tasks[t].pc \notin {"absent", "done"}

\* Every transcode task ends: once enqueued, none stays short of "done" or,
\* when its retries are used up, "archived".
TranscodesSettle ==
  \A t \in Tasks : []<>(tasks[t].pc \in {"absent"} \cup Settled)

=============================================================================
