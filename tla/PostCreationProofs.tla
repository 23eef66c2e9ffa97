------------------------- MODULE PostCreationProofs -------------------------
(***************************************************************************)
(* Proofs about PostCreation, for every value of its constants: any number *)
(* of sub-builders, builds, calls and retries.                             *)
(***************************************************************************)
EXTENDS PostCreation, TLAPS

\* A sub-builder without an account is an error, a target has its
\* sub-builder, and what Build returned was accepted.
BuilderInv ==
  /\ built \subseteq Addresses \ {0}
  /\ \A s \in Subs : subs[s].account = Empty => erred
  /\ \A i \in 1 .. Len(b.targets) : subs[b.targets[i]].account # None
  /\ BuiltIsValid

\* The targets of a body are those of the request, each with the account and
\* the platform of its sub-builder.
Matches(targets, r) ==
  /\ Len(targets) = Len(r.targets)
  /\ \A i \in 1 .. Len(r.targets) :
       /\ targets[i].account = subs[r.targets[i]].account
       /\ targets[i].account \in Accounts
       /\ targets[i].platform = PlatformOf[r.targets[i]]

\* A call under way holds one body, of a request that Build returned.
CallInv ==
  \A c \in Calls : calls[c].pc # "idle" =>
    LET body == calls[c].body
        r == structs[calls[c].request] IN
    /\ calls[c].request \in built
    /\ body \in Body
    /\ body.media = r.media
    /\ body.scheduledAt = r.scheduledAt
    /\ Matches(body.targets, r)

\* What is on its way carries the body of its call ...
FlightInv ==
  \A m \in flight : /\ m.call \in Calls
                    /\ m.try \in Nat
                    /\ calls[m.call].pc # "idle"
                    /\ m.body = calls[m.call].body

\* The targets of a post are the first rows of its body; the ones Create has
\* still to insert come next, and are the remaining ones unless an INSERT
\* failed.
Progress(p, body) ==
  /\ Len(p.targets) <= Len(body.targets)
  /\ \A i \in 1 .. Len(p.targets) : p.targets[i] = Rows(body)[i]
  /\ ~p.cut => Len(p.targets) + Len(p.rest) = Len(body.targets)
  /\ p.cut => p.rest = <<>>
  /\ \A i \in 1 .. Len(p.rest) : p.rest[i] = Rows(body)[Len(p.targets) + i]

\* ... and a post shows it.
Shows(p, body) ==
  /\ p.media = body.media
  /\ p.scheduledAt = body.scheduledAt
  /\ (p.status = "scheduled") <=> (body.scheduledAt # None)
  /\ Progress(p, body)
  /\ p.metadata = "array" => body.metadata = None \/ p.nulled
  /\ p.metadata = "null" => body.metadata = None

PostInv ==
  \A p \in posts : /\ p.call \in Calls
                   /\ calls[p.call].pc # "idle"
                   /\ Shows(p, calls[p.call].body)

\* The types the other parts rest on.
Shape ==
  /\ structs \in [Addresses -> CreateRequest]
  /\ subs \in [Subs -> Sub]
  /\ calls \in [Calls -> Call]
  /\ writes \in Nat
  /\ erred \in BOOLEAN
  /\ posts \in SUBSET Post

IInv == Shape /\ BuilderInv /\ CallInv /\ FlightInv /\ PostInv

-----------------------------------------------------------------------------
LEMMA ZeroIsAddress == 0 \in Addresses /\ MaxBuilds \in Nat
BY ConstantsAssumption DEF Addresses

LEMMA InitIInv == Init => IInv
<1> SUFFICES ASSUME Init PROVE IInv
  OBVIOUS
<1>1. Shape
  <2>1. EmptyRequest \in CreateRequest
    <3>1. 0 \in Nat /\ <<>> \in Seq(Subs)
      OBVIOUS
    <3> QED BY <3>1, Zenon DEF EmptyRequest, CreateRequest
  <2>2. structs \in [Addresses -> CreateRequest]
    BY <2>1 DEF Init
  <2>3. subs \in [Subs -> Sub]
    BY DEF Init, Sub, Config
  <2>4. calls \in [Calls -> Call]
    BY DEF Init, Call
  <2> QED BY <2>2, <2>3, <2>4 DEF Init, Shape
<1>2. BuilderInv
  BY ConstantsAssumption, ZeroIsAddress
  DEF Init, BuilderInv, BuiltIsValid, b, EmptyRequest
<1>3. CallInv /\ FlightInv /\ PostInv
  BY DEF Init, CallInv, FlightInv, PostInv
<1> QED BY <1>1, <1>2, <1>3 DEF IInv

-----------------------------------------------------------------------------
(* The program goes on with its builder.                                    *)

\* The remote part does not look at the builder's own request.
LEMMA RemoteKept ==
  ASSUME IInv, UNCHANGED remote, built' = built,
         \A a \in built : structs'[a] = structs[a],
         \A s \in Subs : subs[s].account # None =>
                           subs'[s].account = subs[s].account
  PROVE  CallInv' /\ FlightInv' /\ PostInv'
<1> USE DEF IInv, remote
<1>1. CallInv'
  <2> SUFFICES ASSUME NEW c \in Calls, calls[c].pc # "idle"
               PROVE  Matches(calls[c].body.targets,
                              structs[calls[c].request])'
    BY DEF CallInv
  <2> DEFINE r == structs[calls[c].request]
             targets == calls[c].body.targets
  <2>1. calls[c].request \in built /\ Matches(targets, r)
    BY DEF CallInv
  <2>2. r \in CreateRequest
    BY <2>1 DEF BuilderInv, Shape
  <2>3. r' = r /\ targets' = targets
    BY <2>1
  <2>4. r.targets \in Seq(Subs)
    BY <2>2 DEF CreateRequest
  <2> HIDE DEF r, targets
  <2>5. \A i \in 1 .. Len(r.targets) :
          subs'[r.targets[i]].account = subs[r.targets[i]].account
    BY <2>1, <2>4, ConstantsAssumption DEF Matches
  <2>6. Matches(targets, r)'
    BY <2>1, <2>3, <2>5 DEF Matches
  <2> QED BY <2>6 DEF r, targets
<1>2. FlightInv'
  BY DEF FlightInv
<1>3. PostInv'
  BY DEF PostInv
<1> QED BY <1>1, <1>2, <1>3

\* Setters of the builder's own request.
LEMMA SettersKeep ==
  ASSUME IInv, UNCHANGED <<built, subs, remote>>,
         erred' \in BOOLEAN, erred => erred', writes' \in Nat,
         NEW r \in CreateRequest, structs' = [structs EXCEPT ![0] = r],
         \/ r.targets = b.targets
         \/ \E s \in Subs : subs[s].account # None
                            /\ r.targets = Append(b.targets, s)
  PROVE  IInv'
<1> USE DEF IInv
<1>1. /\ structs'[0] = r
      /\ \A a \in Addresses \ {0} : structs'[a] = structs[a]
      /\ structs' \in [Addresses -> CreateRequest]
  BY ZeroIsAddress DEF Shape
<1>2. \A a \in built : a \in Addresses \ {0} /\ structs'[a] = structs[a]
  BY <1>1 DEF BuilderInv
<1>3. CallInv' /\ FlightInv' /\ PostInv'
  BY <1>2, RemoteKept
<1>4. b.targets \in Seq(Subs)
  BY ZeroIsAddress DEF Shape, CreateRequest, b
<1>5. \A i \in 1 .. Len(r.targets) : subs[r.targets[i]].account # None
  BY <1>4 DEF BuilderInv
<1>6. BuiltIsValid'
  BY <1>2 DEF BuilderInv, BuiltIsValid, Accepted
<1>7. BuilderInv'
  BY <1>1, <1>5, <1>6 DEF BuilderInv, b
<1>8. Shape'
  BY <1>1 DEF Shape, remote
<1> QED BY <1>3, <1>7, <1>8

\* Setters of a sub-builder, which keep its account, and For*, which gives it
\* one.
LEMMA SubsKeep ==
  ASSUME IInv, UNCHANGED <<structs, built, writes, remote>>,
         subs' \in [Subs -> Sub], erred' \in BOOLEAN, erred => erred',
         \A s \in Subs : subs[s].account # None =>
                           subs'[s].account = subs[s].account,
         \A s \in Subs : subs'[s].account = Empty => erred'
  PROVE  IInv'
<1> USE DEF IInv
<1>1. CallInv' /\ FlightInv' /\ PostInv'
  BY RemoteKept
<1>2. \A a \in Addresses : structs[a].targets \in Seq(Subs)
  BY DEF Shape, CreateRequest
<1>3. \A i \in 1 .. Len(b.targets) : subs'[b.targets[i]].account # None
  BY <1>2, ZeroIsAddress DEF BuilderInv, b
<1>4. BuiltIsValid'
  <2> SUFFICES ASSUME NEW a \in built
               PROVE  /\ Accepted(structs[a])
                      /\ \A i \in 1 .. Len(structs[a].targets) :
                           subs'[structs[a].targets[i]].account \in Accounts
    BY DEF BuiltIsValid, Accepted
  <2>1. /\ Accepted(structs[a])
        /\ \A i \in 1 .. Len(structs[a].targets) :
             subs[structs[a].targets[i]].account \in Accounts
    BY DEF BuilderInv, BuiltIsValid
  <2>2. structs[a].targets \in Seq(Subs)
    BY <1>2 DEF BuilderInv
  <2> QED BY <2>1, <2>2, ConstantsAssumption
<1>5. BuilderInv'
  BY <1>3, <1>4 DEF BuilderInv, b
<1>6. Shape'
  BY DEF Shape, remote
<1> QED BY <1>1, <1>5, <1>6

LEMMA SetterSteps ==
  ASSUME IInv,
         \/ WithMedia \/ PublishNow \/ WithMetadata
         \/ \E t \in Times \cup {Soon} : ScheduleAt(t)
         \/ \E s \in Subs : InstagramDone(s) \/ YouTubeDone(s)
  PROVE  IInv'
<1> USE DEF IInv
<1>1. b \in CreateRequest /\ structs \in [Addresses -> CreateRequest]
      /\ erred \in BOOLEAN /\ writes \in Nat
  BY ZeroIsAddress DEF Shape, b
<1>2. CASE WithMedia
  <2> DEFINE r == [b EXCEPT !.media = @ + 1]
  <2>1. structs' = [structs EXCEPT ![0] = r]
    BY <1>1, <1>2, ZeroIsAddress DEF WithMedia, b
  <2>2. b.media + 1 \in Nat
    BY <1>1 DEF CreateRequest
  <2>3. r \in CreateRequest
    BY <1>1, <2>2, Zenon DEF CreateRequest
  <2>4. r.targets = b.targets
    BY <1>1 DEF CreateRequest
  <2> HIDE DEF r
  <2> QED BY <1>1, <1>2, <2>1, <2>3, <2>4, SettersKeep DEF WithMedia
<1>3. CASE PublishNow
  <2> DEFINE r == [b EXCEPT !.immediate = TRUE]
  <2>1. structs' = [structs EXCEPT ![0] = r]
    BY <1>1, <1>3, ZeroIsAddress DEF PublishNow, b
  <2>2. r \in CreateRequest
    BY <1>1, Zenon DEF CreateRequest
  <2>3. r.targets = b.targets
    BY <1>1 DEF CreateRequest
  <2> HIDE DEF r
  <2> QED BY <1>1, <1>3, <2>1, <2>2, <2>3, SettersKeep DEF PublishNow
<1>4. CASE WithMetadata
  <2> DEFINE r == [b EXCEPT !.metadata = TRUE]
  <2>1. structs' = [structs EXCEPT ![0] = r]
    BY <1>1, <1>4, ZeroIsAddress DEF WithMetadata, b
  <2>2. r \in CreateRequest
    BY <1>1, Zenon DEF CreateRequest
  <2>3. r.targets = b.targets
    BY <1>1 DEF CreateRequest
  <2>4. writes' \in Nat /\ UNCHANGED <<built, erred, subs, remote>>
    BY <1>1, <1>4 DEF WithMetadata
  <2> HIDE DEF r
  <2> QED BY <1>1, <2>1, <2>2, <2>3, <2>4, SettersKeep
<1>5. ASSUME NEW t \in Times \cup {Soon}, ScheduleAt(t) PROVE IInv'
  <2>1. CASE t = Soon
    <3>1. structs' = [structs EXCEPT ![0] = b] /\ erred' = TRUE
      BY <1>1, <1>5, <2>1 DEF ScheduleAt, b
    <3> QED BY <1>1, <1>5, <3>1, SettersKeep DEF ScheduleAt
  <2>2. CASE t # Soon
    <3> DEFINE r == [b EXCEPT !.scheduledAt = t]
    <3>1. structs' = [structs EXCEPT ![0] = r]
      BY <1>1, <1>5, <2>2, ZeroIsAddress DEF ScheduleAt, b
    <3>2. r \in CreateRequest /\ r.targets = b.targets
      BY <1>1, <2>2 DEF CreateRequest
    <3> HIDE DEF r
    <3> QED BY <1>1, <1>5, <2>2, <3>1, <3>2, SettersKeep DEF ScheduleAt
  <2> QED BY <2>1, <2>2
<1>6. ASSUME NEW s \in Subs, InstagramDone(s) \/ YouTubeDone(s) PROVE IInv'
  <2> DEFINE r == [b EXCEPT !.targets = Append(@, s)]
  <2>1. structs' = [structs EXCEPT ![0] = r]
    BY <1>1, <1>6, ZeroIsAddress DEF InstagramDone, YouTubeDone, Done, b
  <2>2. Append(b.targets, s) \in Seq(Subs) /\ b.targets \in Seq(Subs)
    BY <1>1 DEF CreateRequest
  <2>3. r \in CreateRequest
    BY <1>1, <2>2, Zenon DEF CreateRequest
  <2>4. r.targets = Append(b.targets, s)
    BY <1>1 DEF CreateRequest
  <2>5. UNCHANGED <<built, erred, subs, writes, remote>>
        /\ subs[s].account # None
    BY <1>6 DEF InstagramDone, YouTubeDone, Done
  <2> HIDE DEF r
  <2> QED BY <1>1, <2>1, <2>3, <2>4, <2>5, SettersKeep
<1> QED BY <1>2, <1>3, <1>4, <1>5, <1>6

LEMMA SubSteps ==
  ASSUME IInv, NEW s \in Subs,
         \/ InstagramSet(s) \/ YouTubeSet(s)
         \/ \E a \in Accounts \cup {Empty} : ForInstagram(s, a) \/ ForYouTube(s, a)
  PROVE  IInv'
<1> USE DEF IInv
<1>1. subs \in [Subs -> Sub] /\ erred \in BOOLEAN
  BY DEF Shape
<1>2. \A r \in Subs : subs[r].account = Empty => erred
  BY DEF BuilderInv
<1>3. PlatformOf[s] \in Platforms
  BY ConstantsAssumption DEF Platforms
<1>4. ASSUME NEW platform \in Platforms, Set(platform, s) PROVE IInv'
  <2>1. subs' \in [Subs -> Sub]
    BY <1>1, <1>4 DEF Set, Sub, Config
  <2>2. \A r \in Subs : subs'[r].account = subs[r].account
    BY <1>1, <1>4 DEF Set, Sub
  <2>3. UNCHANGED <<structs, built, erred, writes, remote>>
    BY <1>4 DEF Set
  <2> QED BY <1>1, <1>2, <2>1, <2>2, <2>3, SubsKeep
<1>5. ASSUME NEW platform \in Platforms, NEW a \in Accounts \cup {Empty},
             For(platform, s, a)
      PROVE  IInv'
  <2>1. subs' \in [Subs -> Sub]
    BY <1>1, <1>5 DEF For, Sub
  <2>2. /\ \A r \in Subs \ {s} : subs'[r] = subs[r]
        /\ subs[s].account = None /\ subs'[s].account = a
    BY <1>1, <1>5 DEF For, Sub
  <2>3. erred' \in BOOLEAN /\ (erred => erred') /\ (a = Empty => erred')
    BY <1>1, <1>5 DEF For
  <2>4. UNCHANGED <<structs, built, writes, remote>>
    BY <1>5 DEF For
  <2>5. \A r \in Subs : subs'[r].account = Empty => erred'
    BY <1>2, <2>2, <2>3
  <2> QED BY <2>1, <2>2, <2>3, <2>4, <2>5, SubsKeep
<1> QED BY <1>4, <1>5 DEF InstagramSet, YouTubeSet, ForInstagram, ForYouTube,
                           Platforms

LEMMA BuildStep == IInv /\ Build => IInv'
<1> SUFFICES ASSUME IInv, Build PROVE IInv'
  OBVIOUS
<1> USE DEF IInv
<1>1. PICK a \in Free : Returns(a)
  BY DEF Build
<1>2. a \in Addresses \ {0} /\ a \notin built
  BY <1>1 DEF Free
<1>3. /\ ~erred /\ Accepted(b)
      /\ UNCHANGED <<erred, subs, writes, remote>>
      /\ built' = built \cup {a}
      /\ structs' = [structs EXCEPT ![a] = b]
  BY <1>1 DEF Build, Returns
<1>4. /\ structs'[a] = b /\ structs'[0] = b
      /\ \A c \in built : c \in Addresses /\ structs'[c] = structs[c]
      /\ structs' \in [Addresses -> CreateRequest]
      /\ b \in CreateRequest
  BY <1>2, <1>3, ZeroIsAddress DEF Shape, BuilderInv, b
<1>5. \A i \in 1 .. Len(b.targets) : subs[b.targets[i]].account \in Accounts
  <2>1. \A i \in 1 .. Len(b.targets) : b.targets[i] \in Subs
    BY <1>4 DEF CreateRequest
  <2>2. \A s \in Subs : subs[s].account \in Accounts \cup {Empty, None}
    BY DEF Shape, Sub
  <2> QED BY <1>3, <2>1, <2>2 DEF BuilderInv
<1>6. BuiltIsValid'
  BY <1>3, <1>4, <1>5 DEF BuilderInv, BuiltIsValid, Accepted
<1>7. BuilderInv'
  BY <1>2, <1>3, <1>4, <1>6 DEF BuilderInv, b
<1>8. CallInv'
  BY <1>3, <1>4 DEF CallInv, Matches, remote
<1>9. FlightInv' /\ PostInv'
  BY <1>3 DEF FlightInv, PostInv, remote
<1>10. Shape'
  BY <1>3, <1>4 DEF Shape, remote
<1> QED BY <1>7, <1>8, <1>9, <1>10

-----------------------------------------------------------------------------
(* Calls, messages and posts.                                               *)

\* Steps outside the program leave the builder alone.
LEMMA BuilderKept ==
  ASSUME BuilderInv, UNCHANGED builder
  PROVE  BuilderInv'
BY DEF BuilderInv, BuiltIsValid, Accepted, builder, b

\* A call that is not idle keeps what it has; the ones that start have it.
LEMMA CallsKept ==
  ASSUME CallInv, UNCHANGED builder,
         \A c \in Calls :
           calls'[c].pc # "idle" =>
             \/ /\ calls[c].pc # "idle"
                /\ calls'[c].request = calls[c].request
                /\ calls'[c].body = calls[c].body
             \/ /\ calls'[c].request \in built
                /\ calls'[c].body \in Body
                /\ calls'[c].body.media = structs[calls'[c].request].media
                /\ calls'[c].body.scheduledAt =
                     structs[calls'[c].request].scheduledAt
                /\ Matches(calls'[c].body.targets, structs[calls'[c].request])
  PROVE  CallInv'
<1>1. \A c \in Calls : calls'[c].pc # "idle" =>
        /\ calls'[c].request \in built
        /\ calls'[c].body \in Body
        /\ calls'[c].body.media = structs[calls'[c].request].media
        /\ calls'[c].body.scheduledAt = structs[calls'[c].request].scheduledAt
        /\ Matches(calls'[c].body.targets, structs[calls'[c].request])
  BY DEF CallInv
<1>2. /\ built' = built /\ structs' = structs /\ subs' = subs
  BY DEF builder
<1> QED BY <1>1, <1>2 DEF CallInv, Matches

LEMMA CreateStep ==
  ASSUME IInv, NEW c \in Calls, NEW a \in built, Create(c, a)
  PROVE  IInv'
<1> USE DEF IInv
<1> DEFINE body == Marshal(structs[a])
           r == structs[a]
<1>1. /\ a \in Addresses /\ a \in Nat /\ r \in CreateRequest
      /\ \A i \in 1 .. Len(r.targets) :
           r.targets[i] \in Subs /\ subs[r.targets[i]].account \in Accounts
  <2>1. a \in Addresses /\ a \in Nat
    BY ConstantsAssumption DEF BuilderInv, Addresses
  <2>2. r \in CreateRequest
    BY <2>1 DEF Shape
  <2>3. r.targets \in Seq(Subs)
    BY <2>2 DEF CreateRequest
  <2>4. \A i \in 1 .. Len(r.targets) : subs[r.targets[i]].account \in Accounts
    BY DEF BuilderInv, BuiltIsValid
  <2> HIDE DEF r
  <2> QED BY <2>1, <2>2, <2>3, <2>4
<1>2. /\ body.media = r.media /\ body.scheduledAt = r.scheduledAt
      /\ body.targets = [i \in 1 .. Len(r.targets) |->
                           [account |-> subs[r.targets[i]].account,
                            platform |-> PlatformOf[r.targets[i]],
                            config |-> subs[r.targets[i]].config]]
  BY DEF Marshal
<1>3. Len(r.targets) \in Nat /\ Len(body.targets) = Len(r.targets)
  BY <1>1, <1>2 DEF CreateRequest
<1>4. Matches(body.targets, r)
  <2> HIDE DEF body, r
  <2>1. \A i \in 1 .. Len(r.targets) :
          /\ body.targets[i].account = subs[r.targets[i]].account
          /\ body.targets[i].platform = PlatformOf[r.targets[i]]
    BY <1>2
  <2> QED BY <1>1, <1>3, <2>1 DEF Matches
<1>5. body \in Body
  <2>1. \A i \in 1 .. Len(r.targets) :
          [account |-> subs[r.targets[i]].account,
           platform |-> PlatformOf[r.targets[i]],
           config |-> subs[r.targets[i]].config] \in Target
    BY <1>1, ConstantsAssumption DEF Shape, Sub, Target, Platforms
  <2>2. body.targets \in Seq(Target)
    BY <1>2, <1>3, <2>1
  <2>3. /\ body.media \in Nat /\ body.scheduledAt \in Times \cup {None}
        /\ body.metadata \in Nat \cup {None}
    BY <1>1 DEF Marshal, CreateRequest, Shape
  <2>4. body.immediate \in BOOLEAN
    BY <1>1, Zenon DEF Marshal, CreateRequest
  <2>5. body = [media |-> body.media, targets |-> body.targets,
                scheduledAt |-> body.scheduledAt,
                immediate |-> body.immediate, metadata |-> body.metadata]
    BY DEF Marshal
  <2> HIDE DEF body
  <2> QED BY <2>2, <2>3, <2>4, <2>5, Zenon DEF Body
<1>6. /\ calls[c].pc = "idle"
      /\ calls' = [calls EXCEPT ![c] =
                     [pc |-> "sending", request |-> a, body |-> body,
                      tries |-> 1]]
      /\ flight' = flight \cup {Message(c, body)}
      /\ UNCHANGED <<builder, posts>>
  BY DEF Create
<1> HIDE DEF body
<1>7. /\ calls'[c] = [pc |-> "sending", request |-> a, body |-> body,
                      tries |-> 1]
      /\ \A d \in Calls \ {c} : calls'[d] = calls[d]
  BY <1>6 DEF Shape
<1>8. CallInv'
  <2>1. UNCHANGED builder
    BY <1>6
  <2>2. /\ calls'[c].request = a /\ calls'[c].body = body
        /\ structs[a] = r /\ a \in built
    BY <1>7
  <2> HIDE DEF r
  <2> QED BY <1>2, <1>4, <1>5, <1>7, <2>1, <2>2, CallsKept
<1>9. FlightInv'
  <2>1. calls[c].tries \in Nat
    BY DEF Shape, Call
  <2> QED BY <1>6, <1>7, <2>1 DEF FlightInv, Message
<1>10. PostInv'
  <2>1. \A p \in posts : p.call \in Calls \ {c}
    BY <1>6 DEF PostInv
  <2> QED BY <1>6, <1>7, <2>1 DEF PostInv
<1>11. Shape'
  <2>1. calls' \in [Calls -> Call]
    BY <1>1, <1>5, <1>6 DEF Shape, Call
  <2> QED BY <1>6, <2>1 DEF Shape, builder
<1> QED BY <1>6, <1>8, <1>9, <1>10, <1>11, BuilderKept

\* A call that goes on keeps its request and its body.
LEMMA CallSteps ==
  ASSUME IInv, NEW c \in Calls, Retry(c) \/ Return(c)
  PROVE  IInv'
<1> USE DEF IInv
<1>1. calls[c].pc = "sending" /\ UNCHANGED <<builder, posts>>
  BY DEF Retry, Return
<1>2. PICK n \in Nat, pc \in {"sending", "returned"} :
        calls' = [calls EXCEPT ![c] = [calls[c] EXCEPT !.pc = pc, !.tries = n]]
  <2>1. calls[c] \in Call /\ calls[c].tries \in Nat
    BY DEF Shape, Call
  <2>2. CASE Retry(c)
    <3>1. calls' = [calls EXCEPT ![c] = [calls[c] EXCEPT !.pc = "sending",
                                           !.tries = calls[c].tries + 1]]
      BY <1>1, <2>1, <2>2 DEF Retry, Call
    <3>2. calls[c].tries + 1 \in Nat
      BY <2>1
    <3> QED BY <3>1, <3>2, Zenon
  <2>3. CASE Return(c)
    <3>1. calls' = [calls EXCEPT ![c] = [calls[c] EXCEPT !.pc = "returned",
                                           !.tries = calls[c].tries]]
      BY <2>1, <2>3 DEF Return, Call
    <3> QED BY <2>1, <3>1, Zenon
  <2> QED BY <2>2, <2>3
<1>3. /\ calls' \in [Calls -> Call]
      /\ \A d \in Calls : /\ calls'[d].pc = "idle" <=> calls[d].pc = "idle"
                          /\ calls'[d].request = calls[d].request
                          /\ calls'[d].body = calls[d].body
  BY <1>1, <1>2 DEF Shape, Call
<1>4. \A m \in flight' : \/ m \in flight
                         \/ /\ m.call = c /\ m.try \in Nat
                            /\ m.body = calls[c].body
  BY DEF Retry, Return, Message, Shape, Call
<1>5. CallInv'
  BY <1>1, <1>3, CallsKept
<1>6. FlightInv'
  BY <1>1, <1>3, <1>4 DEF FlightInv
<1>7. PostInv'
  BY <1>1, <1>3 DEF PostInv
<1>8. Shape'
  BY <1>1, <1>3 DEF Shape, builder
<1> QED BY <1>1, <1>5, <1>6, <1>7, <1>8, BuilderKept

\* What the server makes of a message.
LEMMA Decoded ==
  ASSUME IInv, NEW m \in flight
  PROVE  Decode(m) \in Post /\ Shows(Decode(m), m.body)
<1> USE DEF IInv
<1>1. m.call \in Calls /\ m.try \in Nat /\ m.body \in Body
  BY DEF FlightInv, CallInv
<1>2. /\ m.body.media \in Nat /\ m.body.targets \in Seq(Target)
      /\ m.body.scheduledAt \in Times \cup {None}
  BY <1>1, Zenon DEF Body
<1>3. Rows(m.body) \in Seq(Row) /\ Len(Rows(m.body)) = Len(m.body.targets)
  <2>1. \A i \in 1 .. Len(m.body.targets) :
          [account |-> m.body.targets[i].account,
           platform |-> m.body.targets[i].platform] \in Row
    <3>1. \A i \in 1 .. Len(m.body.targets) : m.body.targets[i] \in Target
      BY <1>2
    <3> QED BY <3>1 DEF Target, Row
  <2> QED BY <1>2, <2>1 DEF Rows
<1>4. /\ Decode(m).call = m.call /\ Decode(m).try = m.try
      /\ Decode(m).media = m.body.media
      /\ Decode(m).scheduledAt = m.body.scheduledAt
      /\ Decode(m).status \in {"draft", "scheduled"}
      /\ (Decode(m).status = "scheduled") <=> (m.body.scheduledAt # None)
      /\ Decode(m).targets = <<>> /\ Decode(m).rest = Rows(m.body)
      /\ Decode(m).cut = FALSE
      /\ Decode(m).metadata = KindOf(m.body)
  BY DEF Decode
<1>5. /\ KindOf(m.body) \in Json /\ KindOf(m.body) # "array"
      /\ KindOf(m.body) = "null" => m.body.metadata = None
  BY DEF KindOf, Json
<1>6. Progress(Decode(m), m.body)
  <2> DEFINE d == Decode(m)
  <2>1. /\ Len(m.body.targets) \in Nat /\ Len(d.targets) = 0
        /\ Len(d.rest) = Len(m.body.targets) /\ ~d.cut
        /\ d.rest = Rows(m.body)
    BY <1>2, <1>3, <1>4
  <2> HIDE DEF d
  <2>2. \A i \in 1 .. Len(d.rest) : d.rest[i] = Rows(m.body)[0 + i]
    BY <2>1
  <2>3. Progress(d, m.body)
    BY <2>1, <2>2 DEF Progress
  <2> QED BY <2>3 DEF d
<1>7. Shows(Decode(m), m.body)
  BY <1>4, <1>5, <1>6, Zenon DEF Shows
<1>8. PICK status \in {"draft", "scheduled"} :
        Decode(m) = [call |-> m.call, try |-> m.try,
                     status |-> status, media |-> m.body.media,
                     targets |-> <<>>, rest |-> Rows(m.body),
                     scheduledAt |-> m.body.scheduledAt,
                     metadata |-> KindOf(m.body), cut |-> FALSE,
                     nulled |-> FALSE]
  BY Zenon DEF Decode
<1>9. <<>> \in Seq(Row) /\ m.body.scheduledAt \in Times \cup {None}
  BY <1>2
<1>10. Decode(m) \in Post
  <2>1. ASSUME NEW s \in {"draft", "scheduled"}, NEW targets \in Seq(Row),
               NEW rest \in Seq(Row), NEW kind \in Json, NEW call \in Calls,
               NEW try \in Nat, NEW media \in Nat, NEW at \in Times \cup {None}
        PROVE  [call |-> call, try |-> try, status |-> s, media |-> media,
                targets |-> targets, rest |-> rest, scheduledAt |-> at,
                metadata |-> kind, cut |-> FALSE, nulled |-> FALSE] \in Post
    BY <2>1, Zenon DEF Post
  <2>2. /\ m.call \in Calls /\ m.try \in Nat /\ m.body.media \in Nat
        /\ m.body.scheduledAt \in Times \cup {None}
        /\ Rows(m.body) \in Seq(Row) /\ <<>> \in Seq(Row)
        /\ KindOf(m.body) \in Json
    BY <1>1, <1>2, <1>3, <1>5, <1>9
  <2>3. [call |-> m.call, try |-> m.try,
         status |-> status, media |-> m.body.media,
         targets |-> <<>>, rest |-> Rows(m.body),
         scheduledAt |-> m.body.scheduledAt,
         metadata |-> KindOf(m.body), cut |-> FALSE, nulled |-> FALSE] \in Post
    BY <2>1, <2>2
  <2> QED BY <1>8, <2>3, Zenon
<1> QED BY <1>7, <1>10

LEMMA MessageSteps ==
  ASSUME IInv, NEW m \in flight, Receive(m) \/ Lose(m)
  PROVE  IInv'
<1> USE DEF IInv
<1>1. /\ UNCHANGED <<builder, calls>> /\ flight' \subseteq flight
      /\ posts' \subseteq posts \cup {Decode(m)}
  BY DEF Receive, Lose
<1>2. CallInv' /\ FlightInv'
  BY <1>1 DEF CallInv, Matches, FlightInv, builder
<1>3. Shape'
  BY <1>1, Decoded DEF Shape, builder
<1>4. PostInv'
  <2>1. Decode(m).call = m.call
    BY DEF Decode
  <2>2. /\ m.call \in Calls /\ calls[m.call].pc # "idle"
        /\ Shows(Decode(m), calls[m.call].body)
    BY Decoded DEF FlightInv
  <2> QED BY <1>1, <2>1, <2>2 DEF PostInv
<1> QED BY <1>1, <1>2, <1>3, <1>4, BuilderKept

\* A post is replaced by one of the same call that shows the body as well.
LEMMA ReplaceKeeps ==
  ASSUME IInv, NEW p \in posts, NEW q \in Post, Replace(p, q),
         q.call = p.call, Shows(q, calls[p.call].body)
  PROVE  IInv'
<1> USE DEF IInv
<1>1. UNCHANGED <<builder, calls, flight>> /\ posts' = (posts \ {p}) \cup {q}
  BY DEF Replace
<1>2. CallInv' /\ FlightInv'
  BY <1>1 DEF CallInv, Matches, FlightInv, builder
<1>3. Shape'
  BY <1>1 DEF Shape, builder
<1>4. PostInv'
  BY <1>1 DEF PostInv
<1> QED BY <1>1, <1>2, <1>3, <1>4, BuilderKept

\* Shows and Progress look at a few fields of a post.
LEMMA ProgressAlso ==
  ASSUME NEW p, NEW q, NEW body, Progress(p, body),
         q.targets = p.targets, q.rest = p.rest, q.cut = p.cut
  PROVE  Progress(q, body)
BY DEF Progress

LEMMA ShowsAlso ==
  ASSUME NEW p, NEW q, NEW body, Shows(p, body), Progress(q, body),
         q.media = p.media, q.status = p.status,
         q.scheduledAt = p.scheduledAt,
         q.metadata = "array" => body.metadata = None \/ q.nulled,
         q.metadata = "null" => body.metadata = None
  PROVE  Shows(q, body)
<1>1. /\ q.media = body.media /\ q.scheduledAt = body.scheduledAt
      /\ (q.status = "scheduled") <=> (body.scheduledAt # None)
  BY DEF Shows
<1> QED BY <1>1 DEF Shows

LEMMA StoreSteps ==
  ASSUME IInv, NEW p \in posts, StoreTarget(p) \/ StoreFails(p)
  PROVE  IInv'
<1> USE DEF IInv
<1> DEFINE body == calls[p.call].body
<1>1. p \in Post /\ p.rest # <<>> /\ Shows(p, body)
  BY DEF StoreTarget, StoreFails, PostInv, Shape
<1>2. p.targets \in Seq(Row) /\ p.rest \in Seq(Row) /\ Progress(p, body)
  BY <1>1, Zenon DEF Post, Shows
<1>3. ~p.cut
  BY <1>1, <1>2 DEF Progress
<1>4. ASSUME NEW targets \in Seq(Row), NEW rest \in Seq(Row),
             NEW cut \in BOOLEAN,
             Replace(p, [p EXCEPT !.targets = targets, !.rest = rest,
                                  !.cut = cut]),
             \A q : q.targets = targets /\ q.rest = rest /\ q.cut = cut
                      => Progress(q, body)
      PROVE  IInv'
  <2> DEFINE q == [p EXCEPT !.targets = targets, !.rest = rest, !.cut = cut]
  <2>1. q \in Post
    BY <1>1, <1>4, Zenon DEF Post
  <2>2. /\ q.targets = targets /\ q.rest = rest /\ q.cut = cut
        /\ q.call = p.call /\ q.media = p.media /\ q.status = p.status
        /\ q.scheduledAt = p.scheduledAt /\ q.metadata = p.metadata
        /\ q.nulled = p.nulled
    BY <1>1, Zenon DEF Post
  <2>3. Replace(p, q)
    BY <1>4
  <2> HIDE DEF q
  <2>4. Progress(q, body)
    BY <1>4, <2>2
  <2>5. Shows(q, body)
    BY <1>1, <2>2, <2>4, Zenon DEF Shows
  <2> QED BY <2>1, <2>2, <2>3, <2>5, ReplaceKeeps
<1>5. CASE StoreTarget(p)
  <2> DEFINE targets == Append(p.targets, Head(p.rest))
             rest == Tail(p.rest)
  <2>1. Replace(p, [p EXCEPT !.targets = targets, !.rest = rest,
                             !.cut = FALSE])
    <3>1. Replace(p, [p EXCEPT !.targets = targets, !.rest = rest])
      BY <1>1, <1>5, Zenon DEF StoreTarget, Post
    <3>2. [p EXCEPT !.targets = targets, !.rest = rest] =
          [p EXCEPT !.targets = targets, !.rest = rest, !.cut = FALSE]
      BY <1>1, <1>3, Zenon DEF Post
    <3> QED BY <3>1, <3>2
  <2>2. /\ targets \in Seq(Row) /\ rest \in Seq(Row)
        /\ \A i \in 1 .. Len(p.targets) : targets[i] = p.targets[i]
        /\ targets[Len(p.targets) + 1] = p.rest[1]
        /\ \A i \in 1 .. Len(rest) : rest[i] = p.rest[i + 1]
    BY <1>1, <1>2
  <2>3. PICK m \in Nat, n \in Nat :
          /\ Len(p.targets) = m /\ Len(targets) = m + 1
          /\ Len(p.rest) = n + 1 /\ Len(rest) = n
    <3>1. p.targets \in Seq(Row) /\ p.rest \in Seq(Row) /\ p.rest # <<>>
      BY <1>1, <1>2
    <3>2. Head(p.rest) \in Row /\ Len(p.rest) \in Nat /\ Len(p.rest) # 0
      BY <3>1
    <3>3. Len(p.targets) \in Nat /\ Len(targets) = Len(p.targets) + 1
      BY <3>1, <3>2
    <3>4. Len(rest) = Len(p.rest) - 1
      BY <3>1
    <3> HIDE DEF targets, rest
    <3>5. Len(rest) \in Nat /\ Len(p.rest) = Len(rest) + 1
      BY <3>2, <3>4
    <3> QED BY <3>3, <3>5
  <2>4. /\ m + (n + 1) = Len(body.targets)
        /\ \A i \in 1 .. m : p.targets[i] = Rows(body)[i]
        /\ \A i \in 1 .. (n + 1) : p.rest[i] = Rows(body)[m + i]
    BY <1>2, <1>3, <2>3 DEF Progress
  <2> HIDE DEF targets, rest, body
  <2>5. \A i \in 1 .. Len(targets) : targets[i] = Rows(body)[i]
    <3>1. p.rest[1] = Rows(body)[m + 1]
      BY <2>4
    <3>2. ASSUME NEW i \in 1 .. (m + 1) PROVE targets[i] = Rows(body)[i]
      <4>1. i \in 1 .. m \/ i = m + 1
        OBVIOUS
      <4> QED BY <2>2, <2>3, <2>4, <3>1, <4>1
    <3> QED BY <2>3, <3>2
  <2>6. \A i \in 1 .. Len(rest) : rest[i] = Rows(body)[Len(targets) + i]
    <3>1. ASSUME NEW i \in 1 .. n PROVE rest[i] = Rows(body)[(m + 1) + i]
      <4>1. i + 1 \in 1 .. (n + 1) /\ m + (i + 1) = (m + 1) + i
        OBVIOUS
      <4>2. p.rest[i + 1] = Rows(body)[m + (i + 1)]
        BY <2>4, <4>1
      <4> QED BY <2>2, <2>3, <4>1, <4>2
    <3> QED BY <2>3, <3>1
  <2>7. Len(targets) <= Len(body.targets)
        /\ Len(targets) + Len(rest) = Len(body.targets)
    <3>1. (m + 1) + n = m + (n + 1) /\ m + 1 <= m + (n + 1)
      OBVIOUS
    <3> QED BY <2>3, <2>4, <3>1
  <2>8. \A q : q.targets = targets /\ q.rest = rest /\ q.cut = FALSE
                 => Progress(q, body)
    BY <2>5, <2>6, <2>7 DEF Progress
  <2> QED BY <1>4, <2>1, <2>2, <2>8 DEF body
<1>6. CASE StoreFails(p)
  <2>1. Replace(p, [p EXCEPT !.targets = p.targets, !.rest = <<>>, !.cut = TRUE])
    <3>1. Replace(p, [p EXCEPT !.rest = <<>>, !.cut = TRUE])
      BY <1>6 DEF StoreFails
    <3>2. [p EXCEPT !.rest = <<>>, !.cut = TRUE] =
          [p EXCEPT !.targets = p.targets, !.rest = <<>>, !.cut = TRUE]
      BY <1>1, Zenon DEF Post
    <3> QED BY <3>1, <3>2
  <2> HIDE DEF body
  <2>2. /\ Len(p.targets) <= Len(body.targets)
        /\ \A i \in 1 .. Len(p.targets) : p.targets[i] = Rows(body)[i]
    BY <1>2 DEF Progress
  <2>3. \A q : q.targets = p.targets /\ q.rest = <<>> /\ q.cut = TRUE
                 => Progress(q, body)
    BY <2>2 DEF Progress
  <2>4. <<>> \in Seq(Row)
    OBVIOUS
  <2> QED BY <1>2, <1>4, <2>1, <2>3, <2>4, Zenon DEF body
<1> QED BY <1>5, <1>6

LEMMA UpdateStep ==
  ASSUME IInv, NEW p \in posts, NEW patch \in Patches, Update(p, patch)
  PROVE  IInv'
<1> USE DEF IInv
<1> DEFINE q == [p EXCEPT !.metadata = Concat(@, patch),
                          !.nulled = @ \/ patch = "null"]
<1>1. Replace(p, q)
  BY Zenon DEF Update
<1>2. p \in Post
  BY DEF Shape
<1>3. p.metadata \in Json /\ p.nulled \in BOOLEAN
  BY <1>2, Zenon DEF Post
<1>4. Concat(p.metadata, patch) \in Json
  BY DEF Concat, Json
<1>5. q \in Post
  BY <1>2, <1>4, Zenon DEF Post
<1>6. /\ q.call = p.call /\ q.media = p.media /\ q.status = p.status
      /\ q.scheduledAt = p.scheduledAt /\ q.targets = p.targets
      /\ q.rest = p.rest /\ q.cut = p.cut
      /\ q.metadata = Concat(p.metadata, patch)
      /\ q.nulled = (p.nulled \/ patch = "null")
  BY <1>2, Zenon DEF Post
<1> HIDE DEF q
<1>7. Shows(p, calls[p.call].body) /\ p.call \in Calls
      /\ calls[p.call].pc # "idle"
  BY DEF PostInv
<1>8. /\ q.metadata = "array" => calls[q.call].body.metadata = None \/ q.nulled
      /\ q.metadata # "null"
  <2>1. CASE p.metadata = "object"
    <3>1. q.metadata = "array" => patch = "null"
      BY <1>6, <2>1 DEF Concat, Patches
    <3> QED BY <1>6, <3>1, Zenon DEF Concat
  <2>2. CASE p.metadata = "null"
    BY <1>6, <1>7, <2>2, Zenon DEF Shows, Concat
  <2>3. CASE p.metadata = "array"
    BY <1>6, <1>7, <2>3, Zenon DEF Shows, Concat
  <2> QED BY <1>3, <2>1, <2>2, <2>3 DEF Json
<1>9. Progress(q, calls[q.call].body)
  <2>1. Progress(p, calls[q.call].body)
    BY <1>6, <1>7 DEF Shows
  <2> QED BY <1>6, <2>1, ProgressAlso
<1>10. Shows(q, calls[q.call].body)
  <2>1. Shows(p, calls[q.call].body)
    BY <1>6, <1>7
  <2>2. q.media = p.media /\ q.status = p.status
        /\ q.scheduledAt = p.scheduledAt
    BY <1>6
  <2>3. q.metadata = "null" => calls[q.call].body.metadata = None
    BY <1>8, Zenon
  <2> QED BY <1>8, <1>9, <2>1, <2>2, <2>3, ShowsAlso, Zenon
<1> QED BY <1>1, <1>5, <1>6, <1>10, ReplaceKeeps

-----------------------------------------------------------------------------
LEMMA NextStep == IInv /\ [Next]_vars => IInv'
<1> SUFFICES ASSUME IInv, [Next]_vars PROVE IInv'
  OBVIOUS
<1>1. CASE UNCHANGED vars
  BY <1>1 DEF vars, IInv, Shape, BuilderInv, BuiltIsValid, Accepted, b,
              CallInv, Matches, FlightInv, PostInv
<1>2. CASE Program
  BY <1>2, SetterSteps, SubSteps, BuildStep, CreateStep DEF Program
<1>3. CASE \E c \in Calls : Retry(c) \/ Return(c)
  BY <1>3, CallSteps
<1>4. CASE \E m \in flight : Receive(m) \/ Lose(m)
  BY <1>4, MessageSteps
<1>5. CASE \E p \in posts : StoreTarget(p) \/ StoreFails(p)
  BY <1>5, StoreSteps
<1>6. CASE \E p \in posts, patch \in Patches : Update(p, patch)
  BY <1>6, UpdateStep
<1> QED BY <1>1, <1>2, <1>3, <1>4, <1>5, <1>6 DEF Next

\* The builder, the calls and the rows agree in every reachable state.
THEOREM Invariance == Spec => []IInv
BY InitIInv, NextStep, PTL DEF Spec

\* Type correctness.
THEOREM TypeCorrect == Spec => []TypeOK
<1>1. IInv => TypeOK
  BY DEF IInv, Shape, BuilderInv, FlightInv, CallInv, TypeOK
<1> QED BY <1>1, Invariance, PTL

\* Whatever a program does with its builder, every request that Build
\* returned is one Build accepts, with an account in each target.
THEOREM BuiltStaysValid == Spec => []BuiltIsValid
<1>1. IInv => BuiltIsValid
  BY DEF IInv, BuilderInv
<1> QED BY <1>1, Invariance, PTL

\* No step changes a request that Build returned.
THEOREM RequestsKept == Spec => BuiltIsKept
<1>1. IInv /\ [Next]_vars =>
        \/ \A a \in built : a \in built' /\ structs'[a] = structs[a]
        \/ UNCHANGED vars
  <2> SUFFICES ASSUME IInv, Next
               PROVE  \A a \in built : a \in built' /\ structs'[a] = structs[a]
    OBVIOUS
  <2>1. /\ structs \in [Addresses -> CreateRequest]
        /\ built \subseteq Addresses \ {0}
    BY DEF IInv, Shape, BuilderInv
  <2>2. CASE Build
    BY <2>1, <2>2 DEF Build, Returns, Free
  <2>3. CASE WithMedia \/ PublishNow \/ WithMetadata
             \/ \E t \in Times \cup {Soon} : ScheduleAt(t)
    BY <2>1, <2>3 DEF WithMedia, PublishNow, WithMetadata, ScheduleAt
  <2>4. CASE \E s \in Subs : InstagramDone(s) \/ YouTubeDone(s)
    BY <2>1, <2>4 DEF InstagramDone, YouTubeDone, Done
  <2>5. CASE UNCHANGED <<structs, built>>
    BY <2>5
  <2>6. CASE \E s \in Subs :
               \/ InstagramSet(s) \/ YouTubeSet(s)
               \/ \E a \in Accounts \cup {Empty} :
                    ForInstagram(s, a) \/ ForYouTube(s, a)
    BY <2>5, <2>6 DEF InstagramSet, YouTubeSet, Set, ForInstagram, ForYouTube,
                      For
  <2>7. CASE \E c \in Calls, a \in built : Create(c, a)
    BY <2>5, <2>7 DEF Create, builder
  <2>8. CASE \E c \in Calls : Retry(c) \/ Return(c)
    BY <2>5, <2>8 DEF Retry, Return, builder
  <2>9. CASE \E m \in flight : Receive(m) \/ Lose(m)
    BY <2>5, <2>9 DEF Receive, Lose, builder
  <2>10. CASE \E p \in posts : \/ StoreTarget(p) \/ StoreFails(p)
                               \/ \E patch \in Patches : Update(p, patch)
    BY <2>5, <2>10 DEF StoreTarget, StoreFails, Update, Replace, builder
  <2> QED BY <2>2, <2>3, <2>4, <2>6, <2>7, <2>8, <2>9, <2>10 DEF Next, Program
<1> QED BY <1>1, Invariance, PTL DEF Spec, BuiltIsKept

\* All posts of one call of Create have the media, the time and the status of
\* its request, and its targets or the first of them, with any number of
\* retries, losses and late arrivals.
THEOREM SentAlike == Spec => []SentAsBuilt
<1>1. IInv => SentAsBuilt
  <2> SUFFICES ASSUME IInv PROVE SentAsBuilt
    OBVIOUS
  <2> USE DEF IInv
  <2>1. \A m, n \in flight : m.call = n.call => m.body = n.body
    BY DEF FlightInv
  <2>2. \A p, q \in posts :
          p.call = q.call => /\ p.media = q.media
                             /\ p.scheduledAt = q.scheduledAt
                             /\ \/ IsPrefix(p.targets, q.targets)
                                \/ IsPrefix(q.targets, p.targets)
    <3> SUFFICES ASSUME NEW p \in posts, NEW q \in posts, p.call = q.call
                 PROVE  /\ p.media = q.media /\ p.scheduledAt = q.scheduledAt
                        /\ \/ IsPrefix(p.targets, q.targets)
                           \/ IsPrefix(q.targets, p.targets)
      OBVIOUS
    <3>1. Shows(p, calls[p.call].body) /\ Shows(q, calls[p.call].body)
      BY DEF PostInv
    <3>2. p.media = q.media /\ p.scheduledAt = q.scheduledAt
      BY <3>1, Zenon DEF Shows
    <3>3. p \in Post /\ q \in Post
      BY DEF Shape
    <3>4. p.targets \in Seq(Row) /\ q.targets \in Seq(Row)
      BY <3>3, Zenon DEF Post
    <3> DEFINE body == calls[p.call].body
    <3>5. /\ \A i \in 1 .. Len(p.targets) : p.targets[i] = Rows(body)[i]
          /\ \A i \in 1 .. Len(q.targets) : q.targets[i] = Rows(body)[i]
      BY <3>1, Zenon DEF Shows, Progress
    <3> HIDE DEF body
    <3>6. \/ IsPrefix(p.targets, q.targets) \/ IsPrefix(q.targets, p.targets)
      BY <3>4, <3>5 DEF IsPrefix
    <3> QED BY <3>2, <3>6
  <2>3. ASSUME NEW p \in posts
        PROVE  LET r == structs[calls[p.call].request] IN
               /\ p.media = r.media /\ p.media > 0
               /\ p.scheduledAt = r.scheduledAt
               /\ p.status = "scheduled" <=> p.scheduledAt # None
               /\ Len(p.targets) <= Len(r.targets)
               /\ p.rest = <<>> /\ ~p.cut => Len(p.targets) = Len(r.targets)
               /\ \A i \in 1 .. Len(p.targets) :
                    /\ p.targets[i].account = subs[r.targets[i]].account
                    /\ p.targets[i].platform = PlatformOf[r.targets[i]]
                    /\ p.targets[i].account \in Accounts
    <3> DEFINE call == calls[p.call]
               r == structs[call.request]
    <3>1. /\ p.call \in Calls /\ call.pc # "idle" /\ Shows(p, call.body)
      BY DEF PostInv
    <3>2. /\ call.request \in built /\ call.body \in Body
          /\ call.body.media = r.media
          /\ call.body.scheduledAt = r.scheduledAt
          /\ Matches(call.body.targets, r)
      BY <3>1 DEF CallInv
    <3>3. Accepted(r) /\ r \in CreateRequest
      BY <3>2 DEF BuilderInv, BuiltIsValid, Shape
    <3>4. p \in Post
      BY DEF Shape
    <3>5. p.targets \in Seq(Row)
      BY <3>4, Zenon DEF Post
    <3> HIDE DEF r, call
    <3>6. p.media = r.media /\ p.scheduledAt = r.scheduledAt /\ p.media > 0
      BY <3>1, <3>2, <3>3 DEF Shows, Accepted
    <3>7. p.status = "scheduled" <=> p.scheduledAt # None
      BY <3>1 DEF Shows
    <3>8. r.targets \in Seq(Subs)
      BY <3>3 DEF CreateRequest
    <3>9. /\ Len(call.body.targets) = Len(r.targets) /\ Len(r.targets) \in Nat
          /\ \A i \in 1 .. Len(r.targets) :
               /\ call.body.targets[i].account = subs[r.targets[i]].account
               /\ call.body.targets[i].account \in Accounts
               /\ call.body.targets[i].platform = PlatformOf[r.targets[i]]
      BY <3>2, <3>8 DEF Matches
    <3>10. /\ Len(p.targets) <= Len(call.body.targets)
           /\ ~p.cut => Len(p.targets) + Len(p.rest) = Len(call.body.targets)
           /\ \A i \in 1 .. Len(p.targets) : p.targets[i] = Rows(call.body)[i]
      BY <3>1, Zenon DEF Shows, Progress
    <3>11. \A i \in 1 .. Len(p.targets) : i \in 1 .. Len(call.body.targets)
      BY <3>5, <3>9, <3>10
    <3>12. ASSUME NEW i \in 1 .. Len(p.targets)
           PROVE  /\ p.targets[i].account = call.body.targets[i].account
                  /\ p.targets[i].platform = call.body.targets[i].platform
      <4>1. \A n \in 1 .. Len(call.body.targets) :
              Rows(call.body)[n] = [account |-> call.body.targets[n].account,
                                    platform |-> call.body.targets[n].platform]
        BY DEF Rows
      <4>2. p.targets[i] = [account |-> call.body.targets[i].account,
                            platform |-> call.body.targets[i].platform]
        BY <3>10, <3>11, <4>1
      <4> QED BY <4>2
    <3>13. p.rest = <<>> /\ ~p.cut => Len(p.targets) = Len(r.targets)
      BY <3>5, <3>9, <3>10
    <3> QED BY <3>6, <3>7, <3>9, <3>10, <3>11, <3>12, <3>13 DEF r, call
  <2> QED BY <2>1, <2>2, <2>3 DEF SentAsBuilt
<1> QED BY <1>1, Invariance, PTL

\* A row that cannot be read again was created without metadata or updated
\* with a null: the only ways to it.
THEOREM UnreadableAccounted == Spec => []UnreadableExplained
<1>1. IInv => UnreadableExplained
  BY DEF IInv, PostInv, Shows, UnreadableExplained
<1> QED BY <1>1, Invariance, PTL

=============================================================================
