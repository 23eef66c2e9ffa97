---------------------------- MODULE AccountTokens ----------------------------
(***************************************************************************)
(* Connected accounts and their access tokens.                             *)
(*                                                                         *)
(*   API replica  Connect and Delete of internal/api/handler/account.go;   *)
(*   refresh      tokenRefreshHandler of internal/worker/refresh.go: a new *)
(*                token from the platform, saved, then shown by the row;   *)
(*   poll         analyticsHandler of internal/worker/analytics.go, which  *)
(*                uses the token its payload names.                        *)
(*                                                                         *)
(* Nothing in the repository enqueues these tasks; they are modelled from  *)
(* what their handlers expect of the payload.  A token is the number the   *)
(* platform gave it when it was issued to its user.  encrypted_tokens is   *)
(* only ever inserted into, so a token_id stands for the token it was      *)
(* saved for.  One action is one SQL statement or one call of the platform.*)
(***************************************************************************)
EXTENDS Naturals

CONSTANTS
  Accounts,      \* IDs of account rows
  Users,         \* (workspace, platform, platform_user_id)
  UserOf,        \* the user an account row is for
  Clients, Refreshes, Polls,
  Revokes,       \* TRUE: a token stops working once a newer one is issued
  Faults,        \* TRUE: calls and statements may fail, runs may be lost
  MaxRetry,      \* asynq's retry limit of a task
  MaxRequeues,   \* bound: runs a graceful shutdown hands back
  MaxIssue,      \* bound on the tokens issued to a user
  Null           \* no user, no account

ASSUME ConstantsAssumption ==
  /\ UserOf \in [Accounts -> Users]
  /\ Revokes \in BOOLEAN
  /\ Faults \in BOOLEAN
  /\ MaxRetry \in Nat
  /\ MaxRequeues \in Nat
  /\ MaxIssue \in Nat

ASSUME NullAssumption == Null \notin Users \cup Accounts

VARIABLES
  accounts,   \* rows of the table accounts
  issued,     \* how many tokens the platform has issued to each user
  reqs,       \* the Connect request each client has in flight
  refreshes,  \* account:token_refresh tasks and where their run stands
  polls,      \* analytics:poll tasks, each for a post of its own
  snapshots,  \* how many rows of analytics_snapshots each poll's post has
  requeues,   \* runs handed back so far
  \* history
  stranded,   \* <<user, token>> whose holder or row went without a successor
  overlapped, \* users two of whose refreshes held a token at a time
  unheard,    \* for how many of those rows the INSERT returned an error
  broken      \* polls that met a fault or no adapter

vars == <<accounts, issued, reqs, refreshes, polls, snapshots, requeues,
          stranded, overlapped, unheard, broken>>
polling == <<polls, snapshots, unheard, broken>>

-----------------------------------------------------------------------------
Token == 1 .. MaxIssue

Row == [status : {"absent", "live", "deleted"}, token : Token \cup {0}]

Live(a) == accounts[a].status = "live"

Request == [pc : {"idle", "save", "create"},
            user : Users \cup {Null},
            token : Token \cup {0}]

Idle == [pc |-> "idle", user |-> Null, token |-> 0]

Holding == {"save", "update"}
Settled == {"done", "archived"}

Refresh == [pc : {"absent", "pending", "call"} \cup Holding \cup Settled,
            account : Accounts \cup {Null},
            token : Token \cup {0},     \* newToken of the run, while it has one
            retried : Nat]

Poll == [pc : {"absent", "pending", "fetch", "record"} \cup Settled,
         account : Accounts \cup {Null},
         token : Token \cup {0},     \* what the payload's token_id stands for
         post : BOOLEAN,             \* the post and its target still exist
         retried : Nat]

TypeOK ==
  /\ accounts \in [Accounts -> Row]
  /\ issued \in [Users -> 0 .. MaxIssue]
  /\ reqs \in [Clients -> Request]
  /\ refreshes \in [Refreshes -> Refresh]
  /\ polls \in [Polls -> Poll]
  /\ snapshots \in [Polls -> Nat]
  /\ requeues \in Nat
  /\ stranded \in SUBSET (Users \X Token)
  /\ overlapped \in SUBSET Users
  /\ unheard \in [Polls -> Nat]
  /\ broken \in SUBSET Polls

NewRefresh == [pc |-> "absent", account |-> Null, token |-> 0, retried |-> 0]
NewPoll == [pc |-> "absent", account |-> Null, token |-> 0, post |-> FALSE,
            retried |-> 0]

Init ==
  /\ accounts = [a \in Accounts |-> [status |-> "absent", token |-> 0]]
  /\ issued = [u \in Users |-> 0]
  /\ reqs = [c \in Clients |-> Idle]
  /\ refreshes = [t \in Refreshes |-> NewRefresh]
  /\ polls = [p \in Polls |-> NewPoll]
  /\ snapshots = [p \in Polls |-> 0]
  /\ requeues = 0
  /\ stranded = {}
  /\ overlapped = {}
  /\ unheard = [p \in Polls |-> 0]
  /\ broken = {}

\* The platform issues the user's next token.
Issue(u) ==
  /\ issued[u] < MaxIssue
  /\ issued' = [issued EXCEPT ![u] = @ + 1]

-----------------------------------------------------------------------------
(* API handlers                                                            *)

\* POST /v1/accounts/connect, with a token the user has just been issued.
Connect(c, u) ==
  /\ reqs[c].pc = "idle"
  /\ Issue(u)
  /\ reqs' = [reqs EXCEPT ![c] =
                [pc |-> "save", user |-> u, token |-> issued[u] + 1]]
  /\ UNCHANGED <<accounts, refreshes, stranded, overlapped, requeues, polling>>

SaveConnected(c) ==
  /\ reqs[c].pc = "save"
  /\ reqs' = [reqs EXCEPT ![c].pc = "create"]
  /\ UNCHANGED <<accounts, issued, refreshes, stranded, overlapped, requeues, polling>>

Taken(u) == \E a \in Accounts : Live(a) /\ UserOf[a] = u

CreateAccount(c, a) ==
  /\ reqs[c].pc = "create"
  /\ UserOf[a] = reqs[c].user
  /\ accounts[a].status = "absent"
  /\ ~Taken(reqs[c].user)
  /\ accounts' = [accounts EXCEPT ![a] =
                    [status |-> "live", token |-> reqs[c].token]]
  /\ reqs' = [reqs EXCEPT ![c] = Idle]
  /\ UNCHANGED <<issued, refreshes, stranded, overlapped, requeues, polling>>

\* The Connect of a client ends without a row for its token: UNIQUE is
\* violated, for an account that is connected already, ...
GiveUp(c) ==
  /\ stranded' = stranded \cup {<<reqs[c].user, reqs[c].token>>}
  /\ reqs' = [reqs EXCEPT ![c] = Idle]
  /\ UNCHANGED <<accounts, issued, refreshes, overlapped, requeues, polling>>

CreateRefused(c) ==
  /\ reqs[c].pc = "create"
  /\ Taken(reqs[c].user)
  /\ GiveUp(c)

\* ... a statement fails, the client goes away or the replica dies.
ConnectAborts(c) ==
  /\ Faults
  /\ reqs[c].pc # "idle"
  /\ GiveUp(c)

\* DELETE /v1/accounts/{id}: the foreign key of post_targets has no cascade,
\* so the row stays while a post has a target on it.
DeleteAccount(a) ==
  /\ Live(a)
  /\ ~\E p \in Polls : polls[p].post /\ polls[p].account = a
  /\ accounts' = [accounts EXCEPT ![a].status = "deleted"]
  /\ stranded' = stranded \cup {<<UserOf[a], accounts[a].token>>}
  /\ UNCHANGED <<issued, reqs, refreshes, overlapped, requeues, polling>>

-----------------------------------------------------------------------------
(* tokenRefreshHandler.ProcessTask                                         *)

UnchangedByRefresh == UNCHANGED <<reqs, polling>>

UserOfTask(t) == UserOf[refreshes[t].account]

Holds(t) == refreshes[t].pc \in Holding

EnqueueRefresh(t, a) ==
  /\ refreshes[t].pc = "absent"
  /\ Live(a)
  /\ refreshes' = [refreshes EXCEPT ![t].pc = "pending", ![t].account = a]
  /\ UNCHANGED <<accounts, issued, stranded, overlapped, requeues>>
  /\ UnchangedByRefresh

DequeueRefresh(t) ==
  /\ refreshes[t].pc = "pending"
  /\ refreshes' = [refreshes EXCEPT ![t].pc = "call"]
  /\ UNCHANGED <<accounts, issued, stranded, overlapped, requeues>>
  /\ UnchangedByRefresh

\* The payload names a platform without an adapter.  SkipRetry: asynq
\* archives the task at once.
NoAdapter(t) ==
  /\ refreshes[t].pc = "call"
  /\ refreshes' = [refreshes EXCEPT ![t].pc = "archived"]
  /\ UNCHANGED <<accounts, issued, stranded, overlapped, requeues>>
  /\ UnchangedByRefresh

\* The platform issues a token; its answer is on its way until the save.
AdapterRefreshes(t) ==
  LET u == UserOfTask(t) IN
  /\ refreshes[t].pc = "call"
  /\ Issue(u)
  /\ refreshes' = [refreshes EXCEPT ![t].pc = "save",
                                    ![t].token = issued[u] + 1]
  /\ overlapped' =
       IF \E s \in Refreshes \ {t} : Holds(s) /\ UserOfTask(s) = u
         THEN overlapped \cup {u} ELSE overlapped
  /\ UNCHANGED <<accounts, stranded, requeues>>
  /\ UnchangedByRefresh

\* Mutant: a retry does not count.
RetryRefreshForever(t) ==
  refreshes' = [refreshes EXCEPT ![t].pc = "pending", ![t].token = 0]

\* A run that returned an error is retried until the task's limit is reached,
\* with the refresh token of its payload: a new one the platform gave is not
\* kept.
RetryRefresh(t) ==
  refreshes' = IF refreshes[t].retried < MaxRetry
                 THEN [refreshes EXCEPT ![t].pc = "pending", ![t].token = 0,
                                        ![t].retried = @ + 1]
                 ELSE [refreshes EXCEPT ![t].pc = "archived", ![t].token = 0]

\* The platform refuses the refresh token, or does not answer.
AdapterRefuses(t) ==
  /\ refreshes[t].pc = "call"
  /\ RetryRefresh(t)
  /\ UNCHANGED <<accounts, issued, stranded, overlapped, requeues>>
  /\ UnchangedByRefresh

SaveRefreshed(t) ==
  /\ refreshes[t].pc = "save"
  /\ refreshes' = [refreshes EXCEPT ![t].pc = "update"]
  /\ UNCHANGED <<accounts, issued, stranded, overlapped, requeues>>
  /\ UnchangedByRefresh

TokenOf(t) == <<UserOfTask(t), refreshes[t].token>>

\* Mutant: the UPDATE looks the account up by its platform user.
WriteTokenOfUser(t) ==
  LET u == UserOfTask(t) IN
  IF Taken(u)
    THEN /\ accounts' = [a \in Accounts |->
                           IF Live(a) /\ UserOf[a] = u
                             THEN [accounts[a] EXCEPT
                                     !.token = refreshes[t].token]
                             ELSE accounts[a]]
         /\ UNCHANGED stranded
    ELSE /\ UNCHANGED accounts
         /\ stranded' = stranded \cup {TokenOf(t)}

\* UpdateToken: whatever token the row shows is replaced, and a row that is
\* gone does not fail the UPDATE.
WriteToken(t) ==
  LET a == refreshes[t].account IN
  IF Live(a)
    THEN /\ accounts' = [accounts EXCEPT ![a].token = refreshes[t].token]
         /\ UNCHANGED stranded
    ELSE /\ UNCHANGED accounts
         /\ stranded' = stranded \cup {TokenOf(t)}

UpdateToken(t) ==
  /\ refreshes[t].pc = "update"
  /\ WriteToken(t)
  /\ refreshes' = [refreshes EXCEPT ![t].pc = "done", ![t].token = 0]
  /\ UNCHANGED <<issued, overlapped, requeues>>
  /\ UnchangedByRefresh

\* Pool.Run shuts the server down: an unfinished run goes back to the queue
\* and does not count.
RequeueRefresh(t) ==
  /\ requeues < MaxRequeues
  /\ refreshes' = [refreshes EXCEPT ![t].pc = "pending", ![t].token = 0]
  /\ requeues' = requeues + 1

CutRefresh(t) ==
  \/ RetryRefresh(t) /\ UNCHANGED requeues
  \/ RequeueRefresh(t)

\* The statement returned an error or the run was cut off under it, whether
\* or not the server committed it.
UpdateTokenFails(t) ==
  /\ Faults
  /\ refreshes[t].pc = "update"
  /\ \/ WriteToken(t)
     \/ UNCHANGED accounts /\ stranded' = stranded \cup {TokenOf(t)}
  /\ CutRefresh(t)
  /\ UNCHANGED <<issued, overlapped>>
  /\ UnchangedByRefresh

\* The answer or the save is lost, the worker dies or is shut down.
RefreshLost(t) ==
  /\ Faults
  /\ refreshes[t].pc \in {"call"} \cup Holding
  /\ CutRefresh(t)
  /\ stranded' = IF Holds(t) THEN stranded \cup {TokenOf(t)} ELSE stranded
  /\ UNCHANGED <<accounts, issued, overlapped>>
  /\ UnchangedByRefresh

-----------------------------------------------------------------------------
(* analyticsHandler.ProcessTask                                            *)

UnchangedByPoll ==
  UNCHANGED <<accounts, issued, reqs, refreshes, stranded, overlapped>>

\* A post was published on the account; the payload names the token the
\* account showed then.
EnqueuePoll(p, a) ==
  /\ polls[p].pc = "absent"
  /\ Live(a)
  /\ polls' = [polls EXCEPT ![p].pc = "pending", ![p].account = a,
                            ![p].token = accounts[a].token, ![p].post = TRUE]
  /\ UNCHANGED <<snapshots, unheard, broken, requeues>>
  /\ UnchangedByPoll

\* Its snapshots go with the post (ON DELETE CASCADE); the task stays.
DeletePost(p) ==
  /\ polls[p].post
  /\ polls' = [polls EXCEPT ![p].post = FALSE]
  /\ snapshots' = [snapshots EXCEPT ![p] = 0]
  /\ unheard' = [unheard EXCEPT ![p] = 0]
  /\ UNCHANGED <<broken, requeues>>
  /\ UnchangedByPoll

DequeuePoll(p) ==
  /\ polls[p].pc = "pending"
  /\ polls' = [polls EXCEPT ![p].pc = "fetch"]
  /\ UNCHANGED <<snapshots, unheard, broken, requeues>>
  /\ UnchangedByPoll

UserOfPoll(p) == UserOf[polls[p].account]

\* The token of the payload still works.
Valid(p) == Revokes => polls[p].token = issued[UserOfPoll(p)]

FetchMetrics(p) ==
  /\ polls[p].pc = "fetch"
  /\ Valid(p)
  /\ polls' = [polls EXCEPT ![p].pc = "record"]
  /\ UNCHANGED <<snapshots, unheard, broken, requeues>>
  /\ UnchangedByPoll

PollNoAdapter(p) ==
  /\ polls[p].pc = "fetch"
  /\ polls' = [polls EXCEPT ![p].pc = "archived"]
  /\ broken' = broken \cup {p}
  /\ UNCHANGED <<snapshots, unheard, requeues>>
  /\ UnchangedByPoll

RetryPoll(p) ==
  polls' = IF polls[p].retried < MaxRetry
             THEN [polls EXCEPT ![p].pc = "pending", ![p].retried = @ + 1]
             ELSE [polls EXCEPT ![p].pc = "archived"]

\* The same shutdown takes a poll's run back without counting it.
RequeuePoll(p) ==
  /\ requeues < MaxRequeues
  /\ polls' = [polls EXCEPT ![p].pc = "pending"]
  /\ requeues' = requeues + 1

CutPoll(p) ==
  \/ RetryPoll(p) /\ UNCHANGED requeues
  \/ RequeuePoll(p)

\* Mutant: the error of FetchMetrics ends the task.
PollRefusedForGood(p) ==
  /\ \/ polls[p].pc = "fetch" /\ ~Valid(p)
     \/ polls[p].pc = "record" /\ ~polls[p].post
  /\ polls' = [polls EXCEPT ![p].pc = "done"]
  /\ UNCHANGED <<snapshots, unheard, broken, requeues>>
  /\ UnchangedByPoll

\* The platform refuses a token that was revoked, or the INSERT violates the
\* foreign key to a post that is gone.
PollRefused(p) ==
  /\ \/ polls[p].pc = "fetch" /\ ~Valid(p)
     \/ polls[p].pc = "record" /\ ~polls[p].post
  /\ RetryPoll(p)
  /\ UNCHANGED <<snapshots, unheard, broken, requeues>>
  /\ UnchangedByPoll

\* Decrypt or FetchMetrics fails, the worker dies or is shut down.
PollLost(p) ==
  /\ Faults
  /\ polls[p].pc \in {"fetch", "record"}
  /\ CutPoll(p)
  /\ broken' = broken \cup {p}
  /\ UNCHANGED <<snapshots, unheard>>
  /\ UnchangedByPoll

Record(p) ==
  /\ polls[p].pc = "record"
  /\ polls[p].post
  /\ snapshots' = [snapshots EXCEPT ![p] = @ + 1]
  /\ polls' = [polls EXCEPT ![p].pc = "done"]
  /\ UNCHANGED <<unheard, broken, requeues>>
  /\ UnchangedByPoll

\* The INSERT returned an error or was cut off although the server committed
\* it; where it did not, the run is as good as lost.
RecordUnheard(p) ==
  /\ Faults
  /\ polls[p].pc = "record"
  /\ polls[p].post
  /\ snapshots' = [snapshots EXCEPT ![p] = @ + 1]
  /\ unheard' = [unheard EXCEPT ![p] = @ + 1]
  /\ broken' = broken \cup {p}
  /\ CutPoll(p)
  /\ UnchangedByPoll

-----------------------------------------------------------------------------
ConnectStep(c) ==
  \/ SaveConnected(c) \/ CreateRefused(c)
  \/ \E a \in Accounts : CreateAccount(c, a)

RefreshStep(t) ==
  \/ DequeueRefresh(t) \/ NoAdapter(t)
  \/ AdapterRefreshes(t) \/ AdapterRefuses(t)
  \/ SaveRefreshed(t) \/ UpdateToken(t)

RefreshFault(t) == UpdateTokenFails(t) \/ RefreshLost(t)

PollStep(p) ==
  \/ DequeuePoll(p) \/ FetchMetrics(p) \/ PollNoAdapter(p)
  \/ PollRefused(p) \/ Record(p)

PollFault(p) == PollLost(p) \/ RecordUnheard(p)

NewWork ==
  \/ \E c \in Clients, u \in Users : Connect(c, u)
  \/ \E a \in Accounts : DeleteAccount(a)
  \/ \E t \in Refreshes, a \in Accounts : EnqueueRefresh(t, a)
  \/ \E p \in Polls, a \in Accounts : EnqueuePoll(p, a)
  \/ \E p \in Polls : DeletePost(p)

Next ==
  \/ NewWork
  \/ \E c \in Clients : ConnectStep(c) \/ ConnectAborts(c)
  \/ \E t \in Refreshes : RefreshStep(t) \/ RefreshFault(t)
  \/ \E p \in Polls : PollStep(p) \/ PollFault(p)

\* asynq runs a pending task, and the platform answers or times out; nobody
\* is obliged to send requests, and no fault ever has to happen.
Fairness ==
  /\ \A t \in Refreshes : WF_vars(RefreshStep(t))
  /\ \A p \in Polls : WF_vars(PollStep(p))

Spec == Init /\ [][Next]_vars /\ Fairness

-----------------------------------------------------------------------------
(* Properties                                                              *)

\* A token a client or a refresh has in hand.
InHand(u, n) ==
  \/ \E c \in Clients :
       reqs[c].pc # "idle" /\ reqs[c].user = u /\ reqs[c].token = n
  \/ \E t \in Refreshes : Holds(t) /\ TokenOf(t) = <<u, n>>

\* A connected account shows the newest token its user was issued, unless
\* that one is still in hand, was stranded (its Connect was refused or its
\* holder failed, or the row it was for is deleted), or two refreshes of the
\* user overlapped: a refresh alone never takes the account back to an older
\* token, and an old token in a task's hands never reaches a new row.
NewestAccounted ==
  \A a \in Accounts :
    LET u == UserOf[a] IN
    Live(a) => \/ accounts[a].token = issued[u]
               \/ <<u, issued[u]>> \in stranded
               \/ InHand(u, issued[u])
               \/ u \in overlapped

\* No statement takes a row back to an older token, or touches one that was
\* deleted, unless two refreshes of its user overlapped: what an UPDATE brings
\* is newer than what the row shows at that moment, although nothing read the
\* row before.
TokensAscend ==
  [][\A a \in Accounts :
       accounts'[a].token # accounts[a].token =>
         \/ accounts[a].status = "absent"
         \/ Live(a) /\ accounts[a].token < accounts'[a].token
         \/ UserOf[a] \in overlapped]_vars

\* While its post exists, a poll that is done has one snapshot more than its
\* INSERTs that returned an error, and any other poll just as many: none is
\* missing, and a second one has its cause.  A poll fails for good only through
\* a fault, a missing adapter, a deleted post, or because its payload names a
\* token that is no longer the newest.
SnapshotsExplained ==
  \A p \in Polls :
    /\ polls[p].post /\ polls[p].pc = "done" => snapshots[p] = unheard[p] + 1
    /\ polls[p].post /\ polls[p].pc # "done" => snapshots[p] = unheard[p]
    /\ polls[p].pc = "archived" =>
         \/ p \in broken
         \/ ~polls[p].post
         \/ Revokes /\ polls[p].token # issued[UserOfPoll(p)]

\* Every refresh and every poll ends: once enqueued, none stays short of
\* "done" or, when its retries are used up, "archived".
RefreshesSettle ==
  /\ \A t \in Refreshes : []<>(refreshes[t].pc \in {"absent"} \cup Settled)
  /\ \A p \in Polls : []<>(polls[p].pc \in {"absent"} \cup Settled)

=============================================================================
