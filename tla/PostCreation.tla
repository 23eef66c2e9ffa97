---------------------------- MODULE PostCreation ----------------------------
(***************************************************************************)
(* From the fluent builder of the SDK to the row of a post.                *)
(*                                                                         *)
(*   program    calls of sdk/services/post/builder.go, in any order, and   *)
(*              Create and Update of service.go;                           *)
(*   transport  DoJSON: the body is marshalled once, then sent until an    *)
(*              answer comes or the retries are used up (SdkTransport has  *)
(*              the details);                                              *)
(*   server     Create and Update of internal/api/handler/post.go.         *)
(*                                                                         *)
(* What the program can reach through a pointer stays shared: requests     *)
(* returned by Build refer to the map of WithMetadata, and a target to the *)
(* configuration inside its sub-builder, which the program may still hold. *)
(* The calls of one builder do not run in parallel, and neither does the   *)
(* marshalling: the code has no locks, so a program must see to that.      *)
(***************************************************************************)
EXTENDS Naturals, Sequences

CONSTANTS
  Subs,        \* sub-builders, each made by one ForInstagram or ForYouTube
  PlatformOf,  \* the platform of a sub-builder
  Accounts,    \* account IDs
  Empty,       \* the empty account ID
  Times,       \* times a minute ahead, and more, at the call of ScheduleAt
  Soon,        \* the zero time, and any other
  Calls,       \* calls of Create
  MaxRetries,  \* the client's retries
  MaxMedia, MaxTargets, MaxWrites, MaxEdits, MaxBuilds,
               \* bounds on what a program does
  None         \* a nil pointer or map

ASSUME ConstantsAssumption ==
  /\ PlatformOf \in [Subs -> {"instagram", "youtube"}]
  /\ Empty \notin Accounts
  /\ Soon \notin Times
  /\ None \notin Times \cup Accounts \cup {Empty, Soon} \cup Nat
  /\ {MaxRetries, MaxMedia, MaxTargets, MaxWrites, MaxEdits, MaxBuilds}
       \subseteq Nat

VARIABLES
  structs,   \* the CreateRequests in memory, the builder's own at address 0
  built,     \* addresses that Build returned
  erred,     \* the builder's list of errors is not empty
  subs,      \* the sub-builders
  writes,    \* writes to the metadata map so far
  calls,     \* calls of Create
  flight,    \* requests on their way to the server
  posts      \* rows of posts, with their targets

vars == <<structs, built, erred, subs, writes, calls, flight, posts>>
builder == <<structs, built, erred, subs, writes>>
remote == <<calls, flight, posts>>

-----------------------------------------------------------------------------
Platforms == {"instagram", "youtube"}

\* An InstagramConfig or a YouTubeConfig: how often a field of it was set.
Config == Nat

\* The parent is the one builder of the model.
Sub == [account : Accounts \cup {Empty, None}, config : Config]

\* A target is the sub-builder whose configuration it points to.
CreateRequest == [media : Nat,
                  targets : Seq(Subs),
                  scheduledAt : Times \cup {None},
                  immediate : BOOLEAN,
                  metadata : BOOLEAN]      \* the map was made

\* A target, and the body of a POST /v1/posts, as JSON.
Target == [account : Accounts \cup {Empty, None},
           platform : Platforms,
           config : Config]

Body == [media : Nat,
         targets : Seq(Target),
         scheduledAt : Times \cup {None},
         immediate : BOOLEAN,
         metadata : Nat \cup {None}]

Call == [pc : {"idle", "sending", "returned"},
         request : Nat \cup {None},
         body : Body \cup {None},
         tries : Nat]

Row == [account : Accounts \cup {Empty, None},
        platform : Platforms]

Json == {"null", "object", "array"}

\* What the server keeps of a body, the JSON type of the metadata column, and
\* the targets that Create, which is still at it, has not inserted yet.
Post == [call : Calls, try : Nat,
         status : {"draft", "scheduled"},
         media : Nat,
         targets : Seq(Row),
         rest : Seq(Row),
         scheduledAt : Times \cup {None},
         metadata : Json,
         cut : BOOLEAN,                    \* history: a CreateTarget failed
         nulled : BOOLEAN]                 \* history: a PATCH was "null"

Addresses == 0 .. MaxBuilds
b == structs[0]

TypeOK ==
  /\ structs \in [Addresses -> CreateRequest]
  /\ built \in SUBSET Addresses
  /\ erred \in BOOLEAN
  /\ subs \in [Subs -> Sub]
  /\ writes \in Nat
  /\ calls \in [Calls -> Call]
  /\ \A m \in flight : /\ m.call \in Calls /\ m.try \in Nat
                       /\ m.body \in Body
  /\ posts \in SUBSET Post

EmptyRequest == [media |-> 0, targets |-> <<>>, scheduledAt |-> None,
                 immediate |-> FALSE, metadata |-> FALSE]

Init ==
  /\ structs = [a \in Addresses |-> EmptyRequest]
  /\ built = {}
  /\ erred = FALSE
  /\ subs = [s \in Subs |->
               [account |-> None, config |-> 0]]
  /\ writes = 0
  /\ calls = [c \in Calls |-> [pc |-> "idle", request |-> None,
                               body |-> None, tries |-> 0]]
  /\ flight = {}
  /\ posts = {}

-----------------------------------------------------------------------------
(* Builder                                                                  *)

WithMedia ==
  /\ b.media < MaxMedia
  /\ structs' = [structs EXCEPT ![0].media = @ + 1]
  /\ UNCHANGED <<built, erred, subs, writes, remote>>

\* A time that is not a minute ahead is an error and leaves an earlier one.
ScheduleAt(t) ==
  /\ IF t = Soon
       THEN erred' = TRUE /\ UNCHANGED structs
       ELSE structs' = [structs EXCEPT ![0].scheduledAt = t] /\ UNCHANGED erred
  /\ UNCHANGED <<built, subs, writes, remote>>

PublishNow ==
  /\ structs' = [structs EXCEPT ![0].immediate = TRUE]
  /\ UNCHANGED <<built, erred, subs, writes, remote>>

\* The first write makes the map; copies made before do not refer to it.
WithMetadata ==
  /\ writes < MaxWrites
  /\ structs' = [structs EXCEPT ![0].metadata = TRUE]
  /\ writes' = writes + 1
  /\ UNCHANGED <<built, erred, subs, remote>>

\* The program gets its sub-builder in any case; an empty account is an error
\* of the parent.
For(platform, s, a) ==
  /\ PlatformOf[s] = platform
  /\ subs[s].account = None
  /\ subs' = [subs EXCEPT ![s].account = a]
  /\ erred' = (erred \/ a = Empty)
  /\ UNCHANGED <<structs, built, writes, remote>>

ForInstagram(s, a) == For("instagram", s, a)
ForYouTube(s, a) == For("youtube", s, a)

\* A setter writes into the configuration of the sub-builder, whichever
\* targets and requests point to it by now.
Set(platform, s) ==
  /\ PlatformOf[s] = platform
  /\ subs[s].account # None
  /\ subs[s].config < MaxEdits
  /\ subs' = [subs EXCEPT ![s].config = @ + 1]
  /\ UNCHANGED <<structs, built, erred, writes, remote>>

\* AsReel, AsStory, AsCarousel, cover, collaborators, feed.
InstagramSet(s) == Set("instagram", s)

\* AsShort, AsVideo, privacy, tags, category, playlists and so on.
YouTubeSet(s) == Set("youtube", s)

\* Done appends a target that points into the sub-builder; called again, it
\* appends another that points to the same place.
Done(platform, s) ==
  /\ PlatformOf[s] = platform
  /\ subs[s].account # None
  /\ Len(b.targets) < MaxTargets
  /\ structs' = [structs EXCEPT ![0].targets = Append(@, s)]
  /\ UNCHANGED <<built, erred, subs, writes, remote>>

InstagramDone(s) == Done("instagram", s)
YouTubeDone(s) == Done("youtube", s)

Accepted(r) ==
  /\ r.media > 0
  /\ r.targets # <<>>
  /\ ~(r.scheduledAt # None /\ r.immediate)

\* Mutant: Build returns the address of the builder's own request.
BuildInPlace ==
  /\ ~erred /\ Accepted(b)
  /\ built' = built \cup {0}
  /\ UNCHANGED <<structs, erred, subs, writes, remote>>

\* req := b.req, at an address of its own; return &req.
Free == Addresses \ ({0} \cup built)

Returns(a) ==
  /\ structs' = [structs EXCEPT ![a] = b]
  /\ built' = built \cup {a}

\* Mutant: an error is forgotten once Build has returned it.
BuildForgetsErrors ==
  /\ IF erred
       THEN erred' = FALSE /\ UNCHANGED <<structs, built>>
       ELSE /\ Accepted(b)
            /\ \E a \in Free : Returns(a)
            /\ UNCHANGED erred
  /\ UNCHANGED <<subs, writes, remote>>

\* Build copies the struct, not what it points to.  Where it returns an error
\* nothing changes.
Build ==
  /\ ~erred
  /\ Accepted(b)
  /\ \E a \in Free : Returns(a)
  /\ UNCHANGED <<erred, subs, writes, remote>>

-----------------------------------------------------------------------------
(* Create of the SDK                                                        *)

\* json.Marshal follows the pointers.
Marshal(r) ==
  [media |-> r.media,
   targets |-> [i \in 1 .. Len(r.targets) |->
                  [account |-> subs[r.targets[i]].account,
                   platform |-> PlatformOf[r.targets[i]],
                   config |-> subs[r.targets[i]].config]],
   scheduledAt |-> r.scheduledAt,
   immediate |-> r.immediate,
   metadata |-> IF r.metadata THEN writes ELSE None]

Message(c, body) == [call |-> c, try |-> calls[c].tries, body |-> body]

Create(c, a) ==
  /\ calls[c].pc = "idle"
  /\ a \in built
  /\ LET body == Marshal(structs[a]) IN
     /\ calls' = [calls EXCEPT ![c] =
                    [pc |-> "sending", request |-> a, body |-> body,
                     tries |-> 1]]
     /\ flight' = flight \cup {Message(c, body)}
  /\ UNCHANGED <<builder, posts>>

\* Mutant: the body is marshalled for every attempt.
RetryMarshals(c) ==
  /\ calls[c].pc = "sending"
  /\ calls[c].tries <= MaxRetries
  /\ calls' = [calls EXCEPT ![c].tries = @ + 1]
  /\ flight' = flight \cup {Message(c, Marshal(structs[calls[c].request]))}
  /\ UNCHANGED <<builder, posts>>

\* No answer, or one that may be retried: the same bytes are sent again.
Retry(c) ==
  /\ calls[c].pc = "sending"
  /\ calls[c].tries <= MaxRetries
  /\ calls' = [calls EXCEPT ![c].tries = @ + 1]
  /\ flight' = flight \cup {Message(c, calls[c].body)}
  /\ UNCHANGED <<builder, posts>>

\* With an answer or an error, while requests may still be on their way.
Return(c) ==
  /\ calls[c].pc = "sending"
  /\ calls' = [calls EXCEPT ![c].pc = "returned"]
  /\ UNCHANGED <<builder, flight, posts>>

-----------------------------------------------------------------------------
(* Server                                                                   *)

\* Mutant: the field is spelled meta.
KindOfMeta(body) == "null"

KindOf(body) == IF body.metadata = None THEN "null" ELSE "object"

\* createPostRequest has no instagram or youtube in a target: the row has an
\* empty format and no configuration.
Rows(body) ==
  [i \in 1 .. Len(body.targets) |-> [account |-> body.targets[i].account,
                                     platform |-> body.targets[i].platform]]

\* It has no publish_immediately either.
Decode(m) ==
  [call |-> m.call, try |-> m.try,
   status |-> IF m.body.scheduledAt = None THEN "draft" ELSE "scheduled",
   media |-> m.body.media,
   targets |-> <<>>,
   rest |-> Rows(m.body),
   scheduledAt |-> m.body.scheduledAt,
   metadata |-> KindOf(m.body),
   cut |-> FALSE,
   nulled |-> FALSE]

\* A request arrives, before or after the call it belongs to has returned,
\* and the post is inserted.
Receive(m) ==
  /\ m \in flight
  /\ flight' = flight \ {m}
  /\ posts' = posts \cup {Decode(m)}
  /\ UNCHANGED <<builder, calls>>

Replace(p, q) ==
  /\ posts' = (posts \ {p}) \cup {q}
  /\ UNCHANGED <<builder, calls, flight>>

\* The loop of Create inserts the targets one by one, in their order; after
\* the last the answer is 201.
StoreTarget(p) ==
  /\ p \in posts
  /\ p.rest # <<>>
  /\ Replace(p, [p EXCEPT !.targets = Append(@, Head(p.rest)),
                          !.rest = Tail(@)])

\* An INSERT fails, as it does when the client is gone, or the replica dies:
\* the post stays with the targets it has, and a 500 may be sent again.
StoreFails(p) ==
  /\ p \in posts
  /\ p.rest # <<>>
  /\ Replace(p, [p EXCEPT !.rest = <<>>, !.cut = TRUE])

\* It is lost, or refused.
Lose(m) ==
  /\ m \in flight
  /\ flight' = flight \ {m}
  /\ UNCHANGED <<builder, calls, posts>>

\* metadata || patch: two objects are merged, anything else makes an array,
\* which no query can scan into the map of store.Post again.
Concat(kind, patch) ==
  IF kind = "object" /\ patch = "object" THEN "object" ELSE "array"

\* The JSON type of an UpdateRequest, a pointer.
Patches == {"object", "null"}

\* PATCH /v1/posts/{id}; the patch is "null" for the Update of a nil request.
Update(p, patch) ==
  /\ p \in posts
  /\ Replace(p, [p EXCEPT !.metadata = Concat(@, patch),
                          !.nulled = @ \/ patch = "null"])

-----------------------------------------------------------------------------
Program ==
  \/ WithMedia \/ PublishNow \/ WithMetadata \/ Build
  \/ \E t \in Times \cup {Soon} : ScheduleAt(t)
  \/ \E s \in Subs, a \in Accounts \cup {Empty} :
       ForInstagram(s, a) \/ ForYouTube(s, a)
  \/ \E s \in Subs : InstagramSet(s) \/ InstagramDone(s)
  \/ \E s \in Subs : YouTubeSet(s) \/ YouTubeDone(s)
  \/ \E c \in Calls, a \in built : Create(c, a)

Next ==
  \/ Program
  \/ \E c \in Calls : Retry(c) \/ Return(c)
  \/ \E m \in flight : Receive(m) \/ Lose(m)
  \/ \E p \in posts : StoreTarget(p) \/ StoreFails(p)
  \/ \E p \in posts, patch \in Patches : Update(p, patch)

Spec == Init /\ [][Next]_vars

-----------------------------------------------------------------------------
(* Properties                                                               *)

\* A request that Build returned is one Build accepts, now and later, and no
\* target of it lacks an account, although the account is looked at by
\* ForInstagram and ForYouTube only and the program goes on with the builder.
BuiltIsValid ==
  \A a \in built :
    /\ Accepted(structs[a])
    /\ \A i \in 1 .. Len(structs[a].targets) :
         subs[structs[a].targets[i]].account \in Accounts

\* A request that Build returned keeps its media, targets and time, and gets
\* no metadata map, whatever the program does with the builder afterwards.
BuiltIsKept ==
  [][\A a \in built : a \in built' /\ structs'[a] = structs[a]]_vars

IsPrefix(s, t) ==
  /\ Len(s) <= Len(t)
  /\ \A i \in 1 .. Len(s) : s[i] = t[i]

\* All posts that come of one call of Create have the media, the time and the
\* status of its request, and targets with an account in the order of the
\* request: all of them, or, where Create is still at it or a CreateTarget
\* failed, the first ones, so that of two such posts one has the beginning of
\* the other's.  Nothing but that makes them differ: neither writes to the
\* shared metadata and configurations between two attempts nor late arrivals.
SentAsBuilt ==
  /\ \A m, n \in flight : m.call = n.call => m.body = n.body
  /\ \A p, q \in posts :
       p.call = q.call => /\ p.media = q.media
                          /\ p.scheduledAt = q.scheduledAt
                          /\ \/ IsPrefix(p.targets, q.targets)
                             \/ IsPrefix(q.targets, p.targets)
  /\ \A p \in posts :
       LET r == structs[calls[p.call].request] IN
       /\ p.media = r.media /\ p.media > 0
       /\ p.scheduledAt = r.scheduledAt
       /\ p.status = "scheduled" <=> p.scheduledAt # None
       /\ Len(p.targets) <= Len(r.targets)
       /\ p.rest = <<>> /\ ~p.cut => Len(p.targets) = Len(r.targets)
       /\ \A i \in 1 .. Len(p.targets) :
            /\ p.targets[i].account = subs[r.targets[i]].account
            /\ p.targets[i].platform = PlatformOf[r.targets[i]]
            /\ p.targets[i].account \in Accounts

\* A post whose row can no longer be read, because Update left an array in
\* its metadata, was created without metadata or updated with a null.
UnreadableExplained ==
  \A p \in posts :
    p.metadata = "array" => calls[p.call].body.metadata = None \/ p.nulled

=============================================================================
