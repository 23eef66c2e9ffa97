------------------------- MODULE AccountTokensProofs -------------------------
(***************************************************************************)
(* Proofs about AccountTokens, for every value of its constants: any       *)
(* number of users, rows, clients, tasks and retries, every fault.         *)
(***************************************************************************)
EXTENDS AccountTokens, TLAPS

\* Tokens in hand or shown were issued, tasks come after their row, and a
\* user has one live row.
Issued ==
  /\ \A c \in Clients : reqs[c].pc # "idle" =>
       /\ reqs[c].user \in Users
       /\ reqs[c].token \in 1 .. issued[reqs[c].user]
  /\ \A t \in Refreshes : refreshes[t].pc # "absent" =>
       /\ refreshes[t].account \in Accounts
       /\ accounts[refreshes[t].account].status # "absent"
       /\ Holds(t) => refreshes[t].token \in 1 .. issued[UserOfTask(t)]
  /\ \A a \in Accounts : Live(a) => accounts[a].token \in 1 .. issued[UserOf[a]]
  /\ \A a, b \in Accounts :
       Live(a) /\ Live(b) /\ UserOf[a] = UserOf[b] => a = b

\* Without overlap one refresh of a user holds a token, and one newer than
\* its row shows.
HeldIsNewer ==
  /\ \A s, t \in Refreshes :
       Holds(s) /\ Holds(t) /\ s # t /\ UserOfTask(s) = UserOfTask(t)
         => UserOfTask(t) \in overlapped
  /\ \A t \in Refreshes :
       Holds(t) /\ Live(refreshes[t].account) =>
         \/ accounts[refreshes[t].account].token < refreshes[t].token
         \/ UserOfTask(t) \in overlapped

\* The newest token of a user, whether or not the user has a row.
NewestOf(u) ==
  \/ issued[u] = 0
  \/ \E a \in Accounts :
       Live(a) /\ UserOf[a] = u /\ accounts[a].token = issued[u]
  \/ <<u, issued[u]>> \in stranded
  \/ InHand(u, issued[u])
  \/ u \in overlapped

TokenInv == Issued /\ HeldIsNewer /\ \A u \in Users : NewestOf(u)

\* The token of a poll was issued, and before it is done its post has the
\* snapshots of INSERTs that returned an error, if any.
PollInv ==
  /\ \A p \in Polls : polls[p].pc # "done" => snapshots[p] = unheard[p]
  /\ \A p \in Polls : polls[p].pc # "absent" =>
       /\ polls[p].account \in Accounts
       /\ polls[p].token <= issued[UserOfPoll(p)]
  /\ SnapshotsExplained

IInv == TypeOK /\ TokenInv /\ PollInv

-----------------------------------------------------------------------------
LEMMA InitIInv == Init => IInv
<1> SUFFICES ASSUME Init PROVE IInv
  OBVIOUS
<1>1. TypeOK
  BY ConstantsAssumption
  DEF Init, TypeOK, Row, Request, Idle, Refresh, NewRefresh, Poll, NewPoll,
      Token
<1>2. TokenInv
  BY DEF Init, TokenInv, Issued, HeldIsNewer, NewestOf, Idle, NewRefresh,
         Holds, Holding, Live
<1>3. PollInv
  BY DEF Init, PollInv, SnapshotsExplained, NewPoll
<1> QED BY <1>1, <1>2, <1>3 DEF IInv

-----------------------------------------------------------------------------
(* Type correctness.                                                       *)

LEMMA RefreshTypes ==
  ASSUME TypeOK, NEW t \in Refreshes
  PROVE  /\ \A l \in {"pending", "call", "save", "update", "done", "archived"} :
              [refreshes EXCEPT ![t].pc = l] \in [Refreshes -> Refresh]
         /\ \A a \in Accounts :
              [refreshes EXCEPT ![t].pc = "pending", ![t].account = a]
                \in [Refreshes -> Refresh]
         /\ \A n \in Token :
              [refreshes EXCEPT ![t].pc = "save", ![t].token = n]
                \in [Refreshes -> Refresh]
         /\ \A l \in {"pending", "done", "archived"} :
              [refreshes EXCEPT ![t].pc = l, ![t].token = 0]
                \in [Refreshes -> Refresh]
         /\ CutRefresh(t) => refreshes' \in [Refreshes -> Refresh]
         /\ RetryRefresh(t) => refreshes' \in [Refreshes -> Refresh]
<1>1. refreshes \in [Refreshes -> Refresh] /\ refreshes[t] \in Refresh
  BY DEF TypeOK
<1>2. refreshes[t].retried \in Nat /\ refreshes[t].retried + 1 \in Nat
  BY <1>1 DEF Refresh
<1>3. ASSUME NEW l \in {"pending", "call", "save", "update", "done",
                        "archived"}
      PROVE  [refreshes EXCEPT ![t].pc = l] \in [Refreshes -> Refresh]
  BY <1>1 DEF Refresh, Holding, Settled
<1>4. ASSUME NEW a \in Accounts
      PROVE  [refreshes EXCEPT ![t].pc = "pending", ![t].account = a]
               \in [Refreshes -> Refresh]
  BY <1>1 DEF Refresh
<1>5. ASSUME NEW n \in Token
      PROVE  [refreshes EXCEPT ![t].pc = "save", ![t].token = n]
               \in [Refreshes -> Refresh]
  BY <1>1 DEF Refresh, Holding
<1>6. ASSUME NEW l \in {"pending", "done", "archived"}
      PROVE  [refreshes EXCEPT ![t].pc = l, ![t].token = 0]
               \in [Refreshes -> Refresh]
  BY <1>1 DEF Refresh, Settled
<1>7. ASSUME RetryRefresh(t) PROVE refreshes' \in [Refreshes -> Refresh]
  <2>1. [refreshes EXCEPT ![t].pc = "pending", ![t].token = 0,
                          ![t].retried = @ + 1] \in [Refreshes -> Refresh]
    BY <1>1, <1>2 DEF Refresh
  <2> QED BY <1>6, <1>7, <2>1, Zenon DEF RetryRefresh
<1>8. CutRefresh(t) => refreshes' \in [Refreshes -> Refresh]
  BY <1>6, <1>7, Zenon DEF CutRefresh, RequeueRefresh
<1> QED BY <1>3, <1>4, <1>5, <1>6, <1>7, <1>8

LEMMA PollTypes ==
  ASSUME TypeOK, NEW p \in Polls
  PROVE  /\ \A l \in {"pending", "fetch", "record", "done", "archived"} :
              [polls EXCEPT ![p].pc = l] \in [Polls -> Poll]
         /\ [polls EXCEPT ![p].post = FALSE] \in [Polls -> Poll]
         /\ \A a \in Accounts, n \in Token \cup {0} :
              [polls EXCEPT ![p].pc = "pending", ![p].account = a,
                            ![p].token = n, ![p].post = TRUE]
                \in [Polls -> Poll]
         /\ RetryPoll(p) => polls' \in [Polls -> Poll]
         /\ CutPoll(p) => polls' \in [Polls -> Poll]
<1>1. polls \in [Polls -> Poll] /\ polls[p] \in Poll
  BY DEF TypeOK
<1>2. polls[p].retried \in Nat /\ polls[p].retried + 1 \in Nat
  BY <1>1 DEF Poll
<1>3. ASSUME NEW r \in Poll PROVE [polls EXCEPT ![p] = r] \in [Polls -> Poll]
  BY <1>1
<1>4. ASSUME NEW l \in {"pending", "fetch", "record", "done", "archived"}
      PROVE  [polls EXCEPT ![p].pc = l] \in [Polls -> Poll]
  <2>1. [polls[p] EXCEPT !.pc = l] \in Poll
    BY <1>1, Zenon DEF Poll, Settled
  <2> QED BY <1>3, <2>1, Zenon
<1>5. [polls EXCEPT ![p].post = FALSE] \in [Polls -> Poll]
  <2>1. [polls[p] EXCEPT !.post = FALSE] \in Poll
    BY <1>1, Zenon DEF Poll
  <2> QED BY <1>3, <2>1, Zenon
<1>6. ASSUME NEW a \in Accounts, NEW n \in Token \cup {0}
      PROVE  [polls EXCEPT ![p].pc = "pending", ![p].account = a,
                           ![p].token = n, ![p].post = TRUE] \in [Polls -> Poll]
  <2> DEFINE q == [polls[p] EXCEPT !.pc = "pending"]
             r == [q EXCEPT !.account = a]
             s == [r EXCEPT !.token = n]
             v == [s EXCEPT !.post = TRUE]
  <2>1. q \in Poll
    BY <1>1, Zenon DEF Poll
  <2>2. r \in Poll
    BY <2>1, Zenon DEF Poll
  <2>3. s \in Poll
    BY <2>2, Zenon DEF Poll
  <2>4. v \in Poll
    BY <2>3, Zenon DEF Poll
  <2> QED BY <1>1, <2>4
<1>7. ASSUME RetryPoll(p) PROVE polls' \in [Polls -> Poll]
  <2> DEFINE q == [polls[p] EXCEPT !.pc = "pending"]
             r == [q EXCEPT !.retried = polls[p].retried + 1]
  <2>1. q \in Poll
    BY <1>1, Zenon DEF Poll
  <2>2. r \in Poll
    BY <1>2, <2>1, Zenon DEF Poll
  <2>3. [polls EXCEPT ![p].pc = "pending", ![p].retried = @ + 1]
          \in [Polls -> Poll]
    BY <1>1, <2>2
  <2> QED BY <1>4, <1>7, <2>3, Zenon DEF RetryPoll
<1>8. CutPoll(p) => polls' \in [Polls -> Poll]
  BY <1>4, <1>7, Zenon DEF CutPoll, RequeuePoll
<1> QED BY <1>4, <1>5, <1>6, <1>7, <1>8

-----------------------------------------------------------------------------
(* Steps of the clients.                                                    *)

LEMMA ConnectSteps ==
  ASSUME IInv, NEW c \in Clients, NEW u \in Users, Connect(c, u)
  PROVE  TokenInv'
<1> USE DEF IInv, TypeOK, TokenInv
<1>1. /\ UNCHANGED <<accounts, refreshes, stranded, overlapped>>
      /\ issued' = [issued EXCEPT ![u] = @ + 1]
      /\ issued'[u] = issued[u] + 1 /\ issued[u] \in Nat
      /\ \A v \in Users \ {u} : issued'[v] = issued[v]
      /\ \A v \in Users : issued[v] \in Nat /\ issued[v] <= issued'[v]
      /\ reqs'[c] = [pc |-> "save", user |-> u, token |-> issued[u] + 1]
      /\ reqs[c].pc = "idle"
      /\ \A d \in Clients \ {c} : reqs'[d] = reqs[d]
  BY DEF Connect, Issue
<1>2. Issued'
  <2>1. \A a \in Accounts : UserOf[a] \in Users
    BY ConstantsAssumption
  <2>2. \A d \in Clients : reqs'[d].pc # "idle" =>
          reqs'[d].user \in Users
          /\ reqs'[d].token \in 1 .. issued'[reqs'[d].user]
    BY <1>1 DEF Issued
  <2>3. \A a \in Accounts : Live(a)' =>
          accounts'[a].token \in 1 .. issued'[UserOf[a]]
    BY <1>1, <2>1 DEF Issued, Live
  <2>4. \A t \in Refreshes : refreshes'[t].pc # "absent" =>
          /\ refreshes'[t].account \in Accounts
          /\ accounts'[refreshes'[t].account].status # "absent"
          /\ Holds(t)' => refreshes'[t].token \in 1 .. issued[UserOfTask(t)]'
    BY <1>1, <2>1 DEF Issued, Holds, UserOfTask
  <2> QED BY <1>1, <2>2, <2>3, <2>4 DEF Issued, Live
<1>3. HeldIsNewer'
  BY <1>1 DEF HeldIsNewer, Holds, UserOfTask, Live
<1>4. ASSUME NEW v \in Users PROVE NewestOf(v)'
  <2>1. CASE v = u
    BY <1>1, <2>1 DEF NewestOf, InHand
  <2>2. CASE v # u
    <3>1. InHand(v, issued[v]) => InHand(v, issued[v])'
      BY <1>1, <2>2 DEF InHand, Holds, TokenOf, UserOfTask
    <3> QED BY <1>1, <2>2, <3>1 DEF NewestOf, Live
  <2> QED BY <2>1, <2>2
<1> QED BY <1>2, <1>3, <1>4

\* A request moves on, or ends with its token stranded or shown.
LEMMA SaveConnectedStep ==
  ASSUME IInv, NEW c \in Clients, SaveConnected(c)
  PROVE  TokenInv'
<1> USE DEF IInv, TypeOK, TokenInv
<1>1. /\ UNCHANGED <<accounts, issued, refreshes, stranded, overlapped>>
      /\ \A d \in Clients : /\ reqs'[d].pc = "idle" <=> reqs[d].pc = "idle"
                            /\ reqs'[d].user = reqs[d].user
                            /\ reqs'[d].token = reqs[d].token
  BY DEF SaveConnected, Request
<1>2. Issued' /\ HeldIsNewer'
  BY <1>1 DEF Issued, HeldIsNewer, Holds, UserOfTask, Live
<1>3. ASSUME NEW v \in Users PROVE NewestOf(v)'
  BY <1>1 DEF NewestOf, InHand, Holds, TokenOf, UserOfTask, Live
<1> QED BY <1>2, <1>3

LEMMA GiveUpStep ==
  ASSUME IInv, NEW c \in Clients, reqs[c].pc # "idle", GiveUp(c)
  PROVE  TokenInv'
<1> USE DEF IInv, TypeOK, TokenInv
<1>1. /\ UNCHANGED <<accounts, issued, refreshes, overlapped>>
      /\ stranded' = stranded \cup {<<reqs[c].user, reqs[c].token>>}
      /\ reqs'[c].pc = "idle"
      /\ \A d \in Clients \ {c} : reqs'[d] = reqs[d]
  BY DEF GiveUp, Idle
<1>2. Issued' /\ HeldIsNewer'
  BY <1>1 DEF Issued, HeldIsNewer, Holds, UserOfTask, Live
<1>3. ASSUME NEW v \in Users PROVE NewestOf(v)'
  <2>1. InHand(v, issued[v]) =>
          InHand(v, issued[v])' \/ <<v, issued[v]>> \in stranded'
    BY <1>1 DEF InHand, Holds, TokenOf, UserOfTask
  <2> QED BY <1>1, <2>1 DEF NewestOf, Live
<1> QED BY <1>2, <1>3

LEMMA CreateAccountStep ==
  ASSUME IInv, NEW c \in Clients, NEW a \in Accounts, CreateAccount(c, a)
  PROVE  TokenInv'
<1> USE DEF IInv, TypeOK, TokenInv
<1>1. /\ UNCHANGED <<issued, refreshes, stranded, overlapped>>
      /\ accounts'[a] = [status |-> "live", token |-> reqs[c].token]
      /\ \A b \in Accounts \ {a} : accounts'[b] = accounts[b]
      /\ accounts[a].status = "absent" /\ UserOf[a] = reqs[c].user
      /\ ~\E b \in Accounts : Live(b) /\ UserOf[b] = UserOf[a]
      /\ reqs[c].pc # "idle" /\ reqs'[c].pc = "idle"
      /\ \A d \in Clients \ {c} : reqs'[d] = reqs[d]
  BY DEF CreateAccount, Idle, Taken
<1>2. \A t \in Refreshes : refreshes[t].pc # "absent" =>
        refreshes[t].account \in Accounts \ {a}
  BY <1>1 DEF Issued
<1>3. Issued'
  BY <1>1, <1>2 DEF Issued, Holds, UserOfTask, Live
<1>4. HeldIsNewer'
  BY <1>1, <1>2 DEF HeldIsNewer, Holds, Holding, UserOfTask, Live
<1>5. ASSUME NEW v \in Users PROVE NewestOf(v)'
  <2>1. InHand(v, issued[v]) =>
          \/ InHand(v, issued[v])'
          \/ reqs[c].user = v /\ reqs[c].token = issued[v]
    BY <1>1 DEF InHand, Holds, TokenOf, UserOfTask
  <2>2. reqs[c].user = v /\ reqs[c].token = issued[v] => NewestOf(v)'
    BY <1>1 DEF NewestOf, Live
  <2>3. ASSUME NEW b \in Accounts, Live(b), UserOf[b] = v,
               accounts[b].token = issued[v]
        PROVE  NewestOf(v)'
    BY <1>1, <2>3 DEF NewestOf, Live
  <2> QED BY <1>1, <2>1, <2>2, <2>3 DEF NewestOf
<1> QED BY <1>3, <1>4, <1>5

LEMMA DeleteAccountStep ==
  ASSUME IInv, NEW a \in Accounts, DeleteAccount(a)
  PROVE  TokenInv'
<1> USE DEF IInv, TypeOK, TokenInv
<1>1. /\ UNCHANGED <<issued, reqs, refreshes, overlapped>>
      /\ accounts'[a].status = "deleted"
      /\ \A b \in Accounts \ {a} : accounts'[b] = accounts[b]
      /\ stranded' = stranded \cup {<<UserOf[a], accounts[a].token>>}
  BY DEF DeleteAccount, Row
<1>2. Issued'
  BY <1>1 DEF Issued, Holds, UserOfTask, Live
<1>3. HeldIsNewer'
  BY <1>1 DEF HeldIsNewer, Issued, Holds, Holding, UserOfTask, Live
<1>4. ASSUME NEW v \in Users PROVE NewestOf(v)'
  <2>1. InHand(v, issued[v]) => InHand(v, issued[v])'
    BY <1>1 DEF InHand, Holds, TokenOf, UserOfTask
  <2>2. ASSUME NEW b \in Accounts, Live(b), UserOf[b] = v,
               accounts[b].token = issued[v]
        PROVE  NewestOf(v)'
    BY <1>1, <2>2 DEF NewestOf, Live
  <2> QED BY <1>1, <2>1, <2>2 DEF NewestOf
<1> QED BY <1>2, <1>3, <1>4

-----------------------------------------------------------------------------
(* Steps of a refresh.                                                      *)

OneRefresh(t) ==
  /\ \A s \in Refreshes \ {t} : refreshes'[s] = refreshes[s]
  /\ refreshes[t].pc # "absent"
  /\ refreshes'[t].pc # "absent"
  /\ refreshes'[t].account = refreshes[t].account
  /\ UNCHANGED reqs

LEMMA RetryStep ==
  ASSUME TypeOK, NEW t \in Refreshes, RetryRefresh(t) \/ CutRefresh(t)
  PROVE  /\ \A s \in Refreshes \ {t} : refreshes'[s] = refreshes[s]
         /\ refreshes'[t].pc \in {"pending", "archived"}
         /\ refreshes'[t].account = refreshes[t].account
<1>1. refreshes \in [Refreshes -> Refresh]
  BY DEF TypeOK
<1>2. CASE RetryRefresh(t) /\ refreshes[t].retried < MaxRetry
  BY <1>1, <1>2 DEF RetryRefresh, Refresh
<1>3. CASE RetryRefresh(t) /\ ~(refreshes[t].retried < MaxRetry)
  BY <1>1, <1>3 DEF RetryRefresh, Refresh
<1>4. CASE RequeueRefresh(t)
  BY <1>1, <1>4 DEF RequeueRefresh, Refresh
<1> QED BY <1>2, <1>3, <1>4 DEF CutRefresh

LEMMA EnqueueStep ==
  ASSUME IInv, NEW t \in Refreshes, NEW a \in Accounts, EnqueueRefresh(t, a)
  PROVE  TokenInv'
<1> USE DEF IInv, TypeOK, TokenInv
<1>1. /\ UNCHANGED <<accounts, issued, reqs, stranded, overlapped>>
      /\ \A s \in Refreshes \ {t} : refreshes'[s] = refreshes[s]
      /\ refreshes'[t].pc = "pending" /\ refreshes'[t].account = a
      /\ refreshes[t].pc = "absent" /\ Live(a)
  BY DEF EnqueueRefresh, UnchangedByRefresh, Refresh
<1>2. Issued'
  BY <1>1 DEF Issued, Holds, Holding, UserOfTask, Live
<1>3. HeldIsNewer'
  BY <1>1 DEF HeldIsNewer, Holds, Holding, UserOfTask, Live
<1>4. ASSUME NEW v \in Users PROVE NewestOf(v)'
  BY <1>1 DEF NewestOf, InHand, Holds, Holding, TokenOf, UserOfTask, Live
<1> QED BY <1>2, <1>3, <1>4

\* A run goes on with the token it has, or ends without having had one.
LEMMA QuietStep ==
  ASSUME IInv, NEW t \in Refreshes, OneRefresh(t),
         UNCHANGED <<accounts, issued, stranded, overlapped>>,
         Holds(t) <=> Holds(t)',
         Holds(t) => refreshes'[t].token = refreshes[t].token
  PROVE  TokenInv'
<1> USE DEF IInv, TokenInv, OneRefresh
<1>1. Issued'
  BY DEF Issued, Holds, UserOfTask, Live
<1>2. HeldIsNewer'
  BY DEF HeldIsNewer, Holds, UserOfTask, Live
<1>3. ASSUME NEW v \in Users PROVE NewestOf(v)'
  BY DEF NewestOf, InHand, Holds, TokenOf, UserOfTask, Live
<1> QED BY <1>1, <1>2, <1>3

LEMMA DropStep ==
  ASSUME IInv, NEW t \in Refreshes, OneRefresh(t), Holds(t), ~Holds(t)',
         UNCHANGED <<accounts, issued, overlapped>>,
         stranded' = stranded \cup {TokenOf(t)}
  PROVE  TokenInv'
<1> USE DEF IInv, TokenInv, OneRefresh
<1>1. Issued'
  BY DEF Issued, Holds, UserOfTask, Live
<1>2. HeldIsNewer'
  BY DEF HeldIsNewer, Holds, UserOfTask, Live
<1>3. ASSUME NEW v \in Users PROVE NewestOf(v)'
  <2>1. InHand(v, issued[v]) =>
          InHand(v, issued[v])' \/ TokenOf(t) = <<v, issued[v]>>
    BY DEF InHand, Holds, TokenOf, UserOfTask
  <2> QED BY <2>1 DEF NewestOf, Live
<1> QED BY <1>1, <1>2, <1>3

\* The token of a run replaces the one its row shows.
LEMMA ShowStep ==
  ASSUME IInv, NEW t \in Refreshes, OneRefresh(t), Holds(t), ~Holds(t)',
         UNCHANGED <<issued, overlapped>>, WriteToken(t)
  PROVE  TokenInv'
<1> DEFINE a == refreshes[t].account
<1>1. CASE ~Live(a)
  BY <1>1, DropStep DEF WriteToken
<1>2. CASE Live(a)
  <2> USE DEF IInv, TypeOK, TokenInv, OneRefresh
  <2>1. a \in Accounts /\ UserOf[a] \in Users
    BY ConstantsAssumption DEF Issued
  <2>2. /\ UNCHANGED stranded
        /\ accounts'[a].token = refreshes[t].token
        /\ accounts'[a].status = "live"
        /\ \A b \in Accounts \ {a} : accounts'[b] = accounts[b]
    BY <1>2, <2>1 DEF WriteToken, Row, Live
  <2>3. refreshes[t].token \in 1 .. issued[UserOf[a]]
    BY DEF Issued, UserOfTask, Holds, Holding
  <2>4. Issued'
    BY <1>2, <2>1, <2>2, <2>3 DEF Issued, Holds, UserOfTask, Live
  <2>5. HeldIsNewer'
    <3>1. \A s \in Refreshes : Holds(s)' => s # t /\ Holds(s)
                                /\ refreshes'[s] = refreshes[s]
      BY DEF Holds
    <3>2. ASSUME NEW s \in Refreshes, Holds(s)', Live(refreshes[s].account)'
          PROVE  \/ accounts'[refreshes'[s].account].token < refreshes'[s].token
                 \/ UserOfTask(s)' \in overlapped'
      <4>1. CASE refreshes[s].account = a
        BY <3>1, <3>2, <4>1 DEF HeldIsNewer, UserOfTask
      <4>2. CASE refreshes[s].account # a
        BY <2>2, <3>1, <3>2, <4>2 DEF HeldIsNewer, Issued, UserOfTask, Holds,
                                      Holding, Live
      <4> QED BY <4>1, <4>2
    <3>3. \A r, s \in Refreshes :
            Holds(r)' /\ Holds(s)' /\ r # s /\ UserOfTask(r)' = UserOfTask(s)'
              => UserOfTask(s)' \in overlapped'
      BY <3>1 DEF HeldIsNewer, UserOfTask
    <3> QED BY <3>2, <3>3 DEF HeldIsNewer
  <2>6. ASSUME NEW v \in Users PROVE NewestOf(v)'
    <3>1. InHand(v, issued[v]) =>
            InHand(v, issued[v])' \/ TokenOf(t) = <<v, issued[v]>>
      BY DEF InHand, Holds, TokenOf, UserOfTask
    <3>2. TokenOf(t) = <<v, issued[v]>> => NewestOf(v)'
      BY <2>1, <2>2 DEF TokenOf, UserOfTask, NewestOf, Live
    <3>3. ASSUME NEW b \in Accounts, Live(b), UserOf[b] = v,
                 accounts[b].token = issued[v]
          PROVE  NewestOf(v)'
      <4>1. CASE b = a
        <5>1. \/ accounts[a].token < refreshes[t].token
              \/ UserOf[a] \in overlapped
          BY <1>2 DEF HeldIsNewer, UserOfTask
        <5>2. ~(accounts[a].token < refreshes[t].token)
          BY <2>3, <3>3, <4>1
        <5> QED BY <3>3, <4>1, <5>1, <5>2 DEF NewestOf
      <4>2. CASE b # a
        BY <2>2, <3>3, <4>2 DEF NewestOf, Live
      <4> QED BY <4>1, <4>2
    <3> QED BY <2>2, <3>1, <3>2, <3>3 DEF NewestOf
  <2> QED BY <2>4, <2>5, <2>6
<1> QED BY <1>1, <1>2

LEMMA IssueStep ==
  ASSUME IInv, NEW t \in Refreshes, AdapterRefreshes(t)
  PROVE  TokenInv'
<1> USE DEF IInv, TypeOK, TokenInv
<1> DEFINE u == UserOfTask(t)
<1>1. refreshes[t].account \in Accounts /\ u \in Users
  BY ConstantsAssumption DEF AdapterRefreshes, Issued, UserOfTask
<1>2. /\ UNCHANGED <<accounts, reqs, stranded>>
      /\ issued'[u] = issued[u] + 1
      /\ \A v \in Users \ {u} : issued'[v] = issued[v]
      /\ \A v \in Users : issued[v] \in Nat /\ issued[v] <= issued'[v]
      /\ refreshes[t].pc = "call"
      /\ refreshes'[t].pc = "save"
      /\ refreshes'[t].account = refreshes[t].account
      /\ refreshes'[t].token = issued[u] + 1
      /\ \A s \in Refreshes \ {t} : refreshes'[s] = refreshes[s]
      /\ overlapped \subseteq overlapped'
      /\ \A s \in Refreshes \ {t} : Holds(s) /\ UserOfTask(s) = u
                                    => u \in overlapped'
  BY <1>1 DEF AdapterRefreshes, Issue, UnchangedByRefresh, Refresh
<1>3. \A s \in Refreshes : UserOfTask(s)' = UserOfTask(s)
  BY <1>2 DEF UserOfTask
<1> HIDE DEF u
<1>4. Issued'
  <2>1. \A a \in Accounts : UserOf[a] \in Users
    BY ConstantsAssumption
  <2>2. \A d \in Clients : reqs'[d].pc # "idle" =>
          reqs'[d].user \in Users
          /\ reqs'[d].token \in 1 .. issued'[reqs'[d].user]
    BY <1>2 DEF Issued
  <2>3. \A a \in Accounts : Live(a)' =>
          accounts'[a].token \in 1 .. issued'[UserOf[a]]
    BY <1>2, <2>1 DEF Issued, Live
  <2>4. \A s \in Refreshes : refreshes'[s].pc # "absent" =>
          /\ refreshes'[s].account \in Accounts
          /\ accounts'[refreshes'[s].account].status # "absent"
    BY <1>2 DEF Issued
  <2>5. ASSUME NEW s \in Refreshes, Holds(s)'
        PROVE  refreshes'[s].token \in 1 .. issued[UserOfTask(s)]'
    <3>1. CASE s = t
      BY <1>1, <1>2, <1>3, <3>1 DEF u
    <3>2. CASE s # t
      <4>1. Holds(s) /\ refreshes'[s] = refreshes[s] /\ UserOfTask(s) \in Users
        BY <1>2, <2>1, <2>5, <3>2 DEF Holds, Holding, Issued, UserOfTask
      <4>2. refreshes[s].token \in 1 .. issued[UserOfTask(s)]
        BY <4>1 DEF Issued, Holds, Holding
      <4> QED BY <1>2, <1>3, <4>1, <4>2
    <3> QED BY <3>1, <3>2
  <2> QED BY <1>2, <2>2, <2>3, <2>4, <2>5 DEF Issued, Live
<1>5. HeldIsNewer'
  <2>1. \A s \in Refreshes \ {t} : Holds(s)' <=> Holds(s)
    BY <1>2 DEF Holds
  <2>2. ASSUME NEW r \in Refreshes, NEW s \in Refreshes, Holds(r)', Holds(s)',
               r # s, UserOfTask(r)' = UserOfTask(s)'
        PROVE  UserOfTask(s)' \in overlapped'
    BY <1>2, <1>3, <2>1, <2>2 DEF HeldIsNewer, u
  <2>3. ASSUME NEW s \in Refreshes, Holds(s)', Live(refreshes[s].account)'
        PROVE  \/ accounts'[refreshes'[s].account].token < refreshes'[s].token
               \/ UserOfTask(s)' \in overlapped'
    <3>1. CASE s = t
      BY <1>1, <1>2, <2>3, <3>1 DEF Issued, Live, u, UserOfTask
    <3>2. CASE s # t
      BY <1>2, <1>3, <2>1, <2>3, <3>2 DEF HeldIsNewer, Live
    <3> QED BY <3>1, <3>2
  <2> QED BY <2>2, <2>3 DEF HeldIsNewer
<1>6. ASSUME NEW v \in Users PROVE NewestOf(v)'
  <2>1. CASE v = u
    <3>1. Holds(t)' /\ TokenOf(t)' = <<u, issued'[u]>>
      BY <1>2, <1>3 DEF Holds, Holding, TokenOf, u
    <3> QED BY <2>1, <3>1 DEF NewestOf, InHand
  <2>2. CASE v # u
    <3>1. InHand(v, issued[v]) => InHand(v, issued[v])'
      BY <1>2, <1>3, <2>2 DEF InHand, Holds, Holding, TokenOf, u
    <3> QED BY <1>2, <2>2, <3>1 DEF NewestOf, Live
  <2> QED BY <2>1, <2>2
<1> QED BY <1>4, <1>5, <1>6

-----------------------------------------------------------------------------
(* Steps of a poll.                                                         *)

LEMMA PollsKept ==
  ASSUME IInv, UNCHANGED polling,
         \A u \in Users : issued'[u] \in Nat /\ issued[u] <= issued'[u]
  PROVE  PollInv'
<1> USE DEF IInv, TypeOK, PollInv, polling
<1>1. \A p \in Polls : polls[p].pc # "absent" =>
        /\ polls[p].account \in Accounts
        /\ UserOfPoll(p) \in Users
        /\ polls[p].token <= issued[UserOfPoll(p)]
        /\ polls[p].token \in Nat
  BY ConstantsAssumption DEF Poll, Token, UserOfPoll
<1>2. \A p \in Polls : polls[p].pc # "absent" =>
        /\ polls[p].token <= issued'[UserOfPoll(p)]
        /\ polls[p].token # issued[UserOfPoll(p)] =>
             polls[p].token # issued'[UserOfPoll(p)]
  BY <1>1
<1>3. SnapshotsExplained'
  BY <1>2 DEF SnapshotsExplained, UserOfPoll
<1> QED BY <1>1, <1>2, <1>3 DEF UserOfPoll

LEMMA TokensKept ==
  ASSUME IInv, UnchangedByPoll
  PROVE  TokenInv'
<1> USE DEF IInv, TokenInv, UnchangedByPoll
<1>1. Issued' /\ HeldIsNewer'
  BY DEF Issued, HeldIsNewer, Holds, UserOfTask, Live
<1>2. ASSUME NEW v \in Users PROVE NewestOf(v)'
  BY DEF NewestOf, InHand, Holds, TokenOf, UserOfTask, Live
<1> QED BY <1>1, <1>2

OnePoll(p) ==
  /\ \A q \in Polls \ {p} : polls'[q] = polls[q]
  /\ polls[p].pc \notin {"absent", "done", "archived"}
  /\ polls'[p].pc # "absent"
  /\ polls'[p].account = polls[p].account
  /\ polls'[p].token = polls[p].token
  /\ polls'[p].post = polls[p].post

LEMMA RetryPollStep ==
  ASSUME TypeOK, NEW p \in Polls, RetryPoll(p) \/ CutPoll(p),
         polls[p].pc \in {"fetch", "record"}
  PROVE  OnePoll(p) /\ polls'[p].pc \in {"pending", "archived"}
<1>1. polls \in [Polls -> Poll]
  BY DEF TypeOK
<1>2. CASE RetryPoll(p) /\ polls[p].retried < MaxRetry
  BY <1>1, <1>2 DEF RetryPoll, OnePoll, Poll
<1>3. CASE RetryPoll(p) /\ ~(polls[p].retried < MaxRetry)
  BY <1>1, <1>3 DEF RetryPoll, OnePoll, Poll
<1>4. CASE RequeuePoll(p)
  BY <1>1, <1>4 DEF RequeuePoll, OnePoll, Poll
<1> QED BY <1>2, <1>3, <1>4 DEF CutPoll

\* A run goes on, records its snapshot, or ends for a reason.
LEMMA PollGoesOn ==
  ASSUME IInv, NEW p \in Polls, OnePoll(p), UNCHANGED issued,
         broken' \in {broken, broken \cup {p}},
         \A q \in Polls \ {p} : /\ snapshots'[q] = snapshots[q]
                                /\ unheard'[q] = unheard[q],
         snapshots'[p] \in Nat /\ unheard'[p] \in Nat,
         \/ /\ polls'[p].pc # "done"
            /\ snapshots'[p] - snapshots[p] = unheard'[p] - unheard[p]
         \/ /\ polls'[p].pc = "done"
            /\ snapshots'[p] = snapshots[p] + 1 /\ unheard'[p] = unheard[p],
         polls'[p].pc = "archived" =>
           \/ p \in broken'
           \/ ~polls[p].post
           \/ Revokes /\ polls[p].token # issued[UserOfPoll(p)]
  PROVE  PollInv'
<1> USE DEF IInv, PollInv
<1>1. \A q \in Polls \ {p} : polls'[q] = polls[q]
  BY DEF OnePoll
<1>2. \A q \in Polls : UserOfPoll(q)' = UserOfPoll(q)
  BY <1>1 DEF UserOfPoll, OnePoll
<1>3. snapshots[p] \in Nat /\ unheard[p] \in Nat
  BY DEF TypeOK
<1>4. snapshots[p] = unheard[p]
  BY DEF OnePoll
<1>5. ASSUME NEW q \in Polls
      PROVE  /\ polls'[q].post /\ polls'[q].pc = "done"
                   => snapshots'[q] = unheard'[q] + 1
             /\ polls'[q].post /\ polls'[q].pc # "done"
                   => snapshots'[q] = unheard'[q]
             /\ polls'[q].pc = "archived" =>
                  \/ q \in broken'
                  \/ ~polls'[q].post
                  \/ Revokes /\ polls'[q].token # issued'[UserOfPoll(q)']
  <2>1. CASE q # p
    BY <1>1, <1>2, <2>1 DEF SnapshotsExplained
  <2>2. CASE q = p
    <3>1. polls'[p].post = polls[p].post /\ polls'[p].token = polls[p].token
      BY DEF OnePoll
    <3>2. /\ polls'[p].pc = "done" => snapshots'[p] = unheard'[p] + 1
          /\ polls'[p].pc # "done" => snapshots'[p] = unheard'[p]
      BY <1>3, <1>4
    <3> QED BY <1>2, <2>2, <3>1, <3>2
  <2> QED BY <2>1, <2>2
<1>6. SnapshotsExplained'
  BY <1>5 DEF SnapshotsExplained
<1>7. \A q \in Polls : polls'[q].pc # "absent" =>
        /\ polls'[q].account \in Accounts
        /\ polls'[q].token <= issued'[UserOfPoll(q)']
  BY <1>1, <1>2 DEF OnePoll
<1>8. \A q \in Polls : polls'[q].pc # "done" => snapshots'[q] = unheard'[q]
  BY <1>1, <1>3, <1>4
<1> QED BY <1>6, <1>7, <1>8

LEMMA EnqueuePollStep ==
  ASSUME IInv, NEW p \in Polls, NEW a \in Accounts, EnqueuePoll(p, a)
  PROVE  TypeOK' /\ PollInv'
<1> USE DEF IInv, PollInv
<1>1. polls \in [Polls -> Poll] /\ accounts \in [Accounts -> Row]
  BY DEF TypeOK
<1>2. accounts[a].token \in Token \cup {0}
  BY <1>1 DEF Row
<1>3. TypeOK'
  <2>1. polls' \in [Polls -> Poll]
    BY <1>2, PollTypes DEF EnqueuePoll
  <2> QED BY <2>1 DEF TypeOK, EnqueuePoll, UnchangedByPoll
<1>4. /\ \A q \in Polls \ {p} : polls'[q] = polls[q]
      /\ polls[p].pc = "absent"
      /\ polls'[p].pc = "pending" /\ polls'[p].account = a
      /\ polls'[p].token = accounts[a].token
      /\ polls'[p].retried = polls[p].retried
      /\ UNCHANGED <<snapshots, unheard, broken, issued>>
      /\ Live(a)
  BY <1>1 DEF EnqueuePoll, UnchangedByPoll, Poll
<1>5. accounts[a].token <= issued[UserOf[a]]
  BY <1>4, ConstantsAssumption DEF TypeOK, TokenInv, Issued
<1>6. SnapshotsExplained'
  BY <1>4 DEF SnapshotsExplained, UserOfPoll
<1> QED BY <1>3, <1>4, <1>5, <1>6 DEF UserOfPoll

LEMMA DeletePostStep ==
  ASSUME IInv, NEW p \in Polls, DeletePost(p)
  PROVE  TypeOK' /\ PollInv'
<1> USE DEF IInv, PollInv
<1>1. polls \in [Polls -> Poll]
  BY DEF TypeOK
<1>2. TypeOK'
  <2>1. polls' \in [Polls -> Poll]
    BY PollTypes DEF DeletePost
  <2>2. snapshots' \in [Polls -> Nat] /\ unheard' \in [Polls -> Nat]
    BY DEF DeletePost, TypeOK
  <2> QED BY <2>1, <2>2 DEF TypeOK, DeletePost, UnchangedByPoll
<1>3. /\ \A q \in Polls \ {p} : polls'[q] = polls[q]
      /\ polls'[p].pc = polls[p].pc /\ polls'[p].account = polls[p].account
      /\ polls'[p].token = polls[p].token
      /\ polls'[p].retried = polls[p].retried
      /\ ~polls'[p].post
      /\ \A q \in Polls \ {p} : /\ snapshots'[q] = snapshots[q]
                                /\ unheard'[q] = unheard[q]
      /\ snapshots'[p] = unheard'[p]
      /\ UNCHANGED <<broken, issued>>
  <2>1. p \in Polls /\ polls'[p] = [polls[p] EXCEPT !.post = FALSE]
    BY <1>1 DEF DeletePost
  <2>2. ~polls'[p].post
    BY <1>1, <2>1, Zenon DEF Poll
  <2>3. /\ \A q \in Polls \ {p} : /\ snapshots'[q] = snapshots[q]
                                  /\ unheard'[q] = unheard[q]
        /\ snapshots'[p] = unheard'[p]
    BY DEF DeletePost, TypeOK
  <2>4. polls'[p].pc = polls[p].pc /\ polls'[p].account = polls[p].account
        /\ polls'[p].token = polls[p].token
        /\ polls'[p].retried = polls[p].retried
    BY <1>1, <2>1 DEF Poll
  <2> QED BY <1>1, <2>2, <2>3, <2>4 DEF DeletePost, UnchangedByPoll
<1>4. SnapshotsExplained'
  <2>1. \A q \in Polls : UserOfPoll(q)' = UserOfPoll(q)
    BY <1>3 DEF UserOfPoll
  <2> QED BY <1>3, <2>1 DEF SnapshotsExplained
<1> QED BY <1>2, <1>3, <1>4 DEF UserOfPoll

LEMMA PollSteps ==
  ASSUME IInv, NEW p \in Polls, PollStep(p) \/ PollFault(p)
  PROVE  IInv'
<1> USE DEF IInv
<1>1. polls \in [Polls -> Poll] /\ TypeOK
  BY DEF TypeOK
<1>2. /\ snapshots \in [Polls -> Nat] /\ unheard \in [Polls -> Nat]
      /\ broken \in SUBSET Polls
      /\ snapshots[p] \in Nat /\ snapshots[p] + 1 \in Nat
      /\ unheard[p] \in Nat /\ unheard[p] + 1 \in Nat
  BY <1>1 DEF TypeOK
<1>3. UnchangedByPoll
  BY DEF PollStep, DequeuePoll, FetchMetrics, PollNoAdapter, PollRefused,
         Record, PollFault, PollLost, RecordUnheard
<1>4. TokenInv'
  BY <1>3, TokensKept
<1>5. TypeOK' <=>
        /\ polls' \in [Polls -> Poll]
        /\ snapshots' \in [Polls -> Nat]
        /\ unheard' \in [Polls -> Nat]
        /\ broken' \in SUBSET Polls
  <2>1. requeues \in Nat /\ requeues + 1 \in Nat
    BY <1>1 DEF TypeOK
  <2>2. requeues' \in Nat
    BY <2>1 DEF PollStep, DequeuePoll, FetchMetrics, PollNoAdapter, PollRefused,
       Record, PollFault, PollLost, RecordUnheard, CutPoll, RequeuePoll
  <2> QED BY <1>1, <1>3, <2>2 DEF TypeOK, UnchangedByPoll
<1>6. UNCHANGED issued
  BY <1>3 DEF UnchangedByPoll
<1>7. CASE DequeuePoll(p)
  <2>1. /\ polls' = [polls EXCEPT ![p].pc = "fetch"] /\ polls[p].pc = "pending"
        /\ UNCHANGED <<snapshots, unheard>>
        /\ UNCHANGED broken
    BY <1>7 DEF DequeuePoll
  <2>2. polls' \in [Polls -> Poll]
    BY <1>1, <2>1, PollTypes
  <2>3. OnePoll(p) /\ polls'[p].pc = "fetch"
    BY <1>1, <2>1 DEF OnePoll, Poll
  <2>4. PollInv'
    BY <1>2, <1>6, <2>1, <2>3, PollGoesOn
  <2> QED BY <1>2, <1>4, <1>5, <2>1, <2>2, <2>4
<1>8. CASE FetchMetrics(p)
  <2>1. /\ polls' = [polls EXCEPT ![p].pc = "record"] /\ polls[p].pc = "fetch"
        /\ UNCHANGED <<snapshots, unheard>>
        /\ UNCHANGED broken
    BY <1>8 DEF FetchMetrics
  <2>2. polls' \in [Polls -> Poll]
    BY <1>1, <2>1, PollTypes
  <2>3. OnePoll(p) /\ polls'[p].pc = "record"
    BY <1>1, <2>1 DEF OnePoll, Poll
  <2>4. PollInv'
    BY <1>2, <1>6, <2>1, <2>3, PollGoesOn
  <2> QED BY <1>2, <1>4, <1>5, <2>1, <2>2, <2>4
<1>9. CASE PollNoAdapter(p)
  <2>1. /\ polls' = [polls EXCEPT ![p].pc = "archived"] /\ polls[p].pc = "fetch"
        /\ UNCHANGED <<snapshots, unheard>>
        /\ broken' = broken \cup {p}
    BY <1>9 DEF PollNoAdapter
  <2>2. polls' \in [Polls -> Poll]
    BY <1>1, <2>1, PollTypes
  <2>3. OnePoll(p) /\ polls'[p].pc = "archived"
    BY <1>1, <2>1 DEF OnePoll, Poll
  <2>4. PollInv'
    BY <1>2, <1>6, <2>1, <2>3, PollGoesOn
  <2> QED BY <1>2, <1>4, <1>5, <2>1, <2>2, <2>4
<1>10. CASE PollRefused(p)
  <2>1. /\ RetryPoll(p) /\ polls[p].pc \in {"fetch", "record"}
        /\ UNCHANGED <<snapshots, unheard, broken>>
        /\ \/ ~polls[p].post
           \/ Revokes /\ polls[p].token # issued[UserOfPoll(p)]
    BY <1>10, ConstantsAssumption DEF PollRefused, Valid
  <2>2. polls' \in [Polls -> Poll]
    BY <1>1, <2>1, PollTypes
  <2>3. OnePoll(p) /\ polls'[p].pc # "done"
    BY <1>1, <2>1, RetryPollStep
  <2>4. PollInv'
    BY <1>2, <1>6, <2>1, <2>3, PollGoesOn
  <2> QED BY <1>2, <1>4, <1>5, <2>1, <2>2, <2>4
<1>11. CASE Record(p)
  <2>1. /\ polls' = [polls EXCEPT ![p].pc = "done"] /\ polls[p].pc = "record"
        /\ snapshots' = [snapshots EXCEPT ![p] = @ + 1]
        /\ UNCHANGED <<unheard, broken>>
    BY <1>11 DEF Record
  <2>2. /\ polls' \in [Polls -> Poll] /\ snapshots' \in [Polls -> Nat]
        /\ snapshots'[p] = snapshots[p] + 1
        /\ \A q \in Polls \ {p} : snapshots'[q] = snapshots[q]
    BY <1>1, <1>2, <2>1, PollTypes
  <2>3. OnePoll(p) /\ polls'[p].pc = "done"
    BY <1>1, <2>1 DEF OnePoll, Poll
  <2>4. PollInv'
    BY <1>2, <1>6, <2>1, <2>2, <2>3, PollGoesOn
  <2> QED BY <1>2, <1>4, <1>5, <2>1, <2>2, <2>4
<1>12. CASE PollFault(p)
  <2>1. /\ CutPoll(p) /\ polls[p].pc \in {"fetch", "record"}
        /\ broken' = broken \cup {p}
        /\ \/ UNCHANGED <<snapshots, unheard>>
           \/ /\ snapshots' = [snapshots EXCEPT ![p] = @ + 1]
              /\ unheard' = [unheard EXCEPT ![p] = @ + 1]
    BY <1>12 DEF PollFault, PollLost, RecordUnheard
  <2>2. polls' \in [Polls -> Poll]
    BY <1>1, <2>1, PollTypes
  <2>3. OnePoll(p) /\ polls'[p].pc # "done"
    BY <1>1, <2>1, RetryPollStep
  <2>4. /\ snapshots' \in [Polls -> Nat] /\ unheard' \in [Polls -> Nat]
        /\ snapshots'[p] - snapshots[p] = unheard'[p] - unheard[p]
        /\ \A q \in Polls \ {p} : /\ snapshots'[q] = snapshots[q]
                                  /\ unheard'[q] = unheard[q]
    BY <1>2, <2>1
  <2>5. PollInv'
    BY <1>2, <1>6, <2>1, <2>3, <2>4, PollGoesOn
  <2> QED BY <1>2, <1>4, <1>5, <2>1, <2>2, <2>4, <2>5
<1> QED BY <1>7, <1>8, <1>9, <1>10, <1>11, <1>12 DEF PollStep

LEMMA RefreshSteps ==
  ASSUME IInv, NEW t \in Refreshes, RefreshStep(t) \/ RefreshFault(t)
  PROVE  IInv'
<1> USE DEF IInv
<1>1. refreshes \in [Refreshes -> Refresh] /\ TypeOK /\ TokenInv
  BY DEF TypeOK
<1>2. UnchangedByRefresh
  BY DEF RefreshStep, DequeueRefresh, NoAdapter, AdapterRefreshes,
         AdapterRefuses, SaveRefreshed, UpdateToken, RefreshFault,
         UpdateTokenFails, RefreshLost
<1>3. UNCHANGED reqs /\ UNCHANGED polling
  BY <1>2 DEF UnchangedByRefresh
<1>4. TypeOK' <=>
        /\ refreshes' \in [Refreshes -> Refresh]
        /\ accounts' \in [Accounts -> Row]
        /\ issued' \in [Users -> 0 .. MaxIssue]
        /\ stranded' \in SUBSET (Users \X Token)
        /\ overlapped' \in SUBSET Users
  <2>1. requeues \in Nat /\ requeues + 1 \in Nat
    BY <1>1 DEF TypeOK
  <2>2. requeues' \in Nat
    BY <2>1 DEF RefreshStep, DequeueRefresh, NoAdapter, AdapterRefreshes,
       AdapterRefuses, SaveRefreshed, UpdateToken, RefreshFault,
       UpdateTokenFails, RefreshLost, CutRefresh, RequeueRefresh
  <2> QED BY <1>1, <1>3, <2>2 DEF TypeOK, polling
<1>5. UNCHANGED issued => PollInv'
  BY <1>1, <1>3, PollsKept DEF TypeOK
<1>6. Holds(t) => /\ refreshes[t].account \in Accounts
                  /\ UserOfTask(t) \in Users
                  /\ refreshes[t].token \in Token
                  /\ TokenOf(t) \in Users \X Token
  <2>1. Holds(t) => refreshes[t].account \in Accounts
                    /\ refreshes[t].token \in 1 .. issued[UserOfTask(t)]
    BY <1>1 DEF TokenInv, Issued, Holds, Holding
  <2>2. refreshes[t].token \in Token \cup {0}
    BY <1>1 DEF Refresh
  <2>3. refreshes[t].account \in Accounts => UserOfTask(t) \in Users
    BY ConstantsAssumption DEF UserOfTask
  <2>4. Holds(t) => refreshes[t].token # 0
    BY <1>1, <2>1, <2>3 DEF TypeOK
  <2> QED BY <2>1, <2>2, <2>3, <2>4 DEF TokenOf
<1>7. ASSUME Holds(t), WriteToken(t)
      PROVE  accounts' \in [Accounts -> Row] /\ stranded' \in SUBSET (Users \X Token)
  <2>1. CASE Live(refreshes[t].account)
    BY <1>1, <1>6, <1>7, <2>1 DEF WriteToken, TypeOK, Row
  <2>2. CASE ~Live(refreshes[t].account)
    BY <1>1, <1>6, <1>7, <2>2 DEF WriteToken, TypeOK
  <2> QED BY <2>1, <2>2
<1>8. ASSUME RetryRefresh(t) \/ CutRefresh(t), refreshes[t].pc # "absent"
      PROVE  OneRefresh(t) /\ ~Holds(t)'
  BY <1>1, <1>3, <1>8, RetryStep DEF OneRefresh, Holds, Holding
<1>9. ASSUME NEW l \in {"pending", "call", "save", "update", "done", "archived"},
             refreshes' = [refreshes EXCEPT ![t].pc = l],
             refreshes[t].pc # "absent"
      PROVE  /\ OneRefresh(t) /\ refreshes'[t].pc = l
             /\ refreshes'[t].token = refreshes[t].token
             /\ refreshes' \in [Refreshes -> Refresh]
  <2>1. refreshes' \in [Refreshes -> Refresh]
    BY <1>1, <1>9, RefreshTypes
  <2> QED BY <1>1, <1>3, <1>9, <2>1 DEF OneRefresh, Refresh
<1>10. CASE DequeueRefresh(t) \/ NoAdapter(t) \/ SaveRefreshed(t)
  <2>1. PICK l \in {"call", "archived", "update"} :
          /\ refreshes' = [refreshes EXCEPT ![t].pc = l]
          /\ refreshes[t].pc # "absent"
          /\ l = "update" <=> refreshes[t].pc = "save"
          /\ refreshes[t].pc # "update"
    BY <1>10 DEF DequeueRefresh, NoAdapter, SaveRefreshed
  <2>2. UNCHANGED <<accounts, issued, stranded, overlapped>>
    BY <1>10 DEF DequeueRefresh, NoAdapter, SaveRefreshed
  <2>3. /\ OneRefresh(t) /\ refreshes'[t].pc = l
        /\ refreshes'[t].token = refreshes[t].token
        /\ refreshes' \in [Refreshes -> Refresh]
    BY <1>9, <2>1
  <2>4. Holds(t) <=> Holds(t)'
    BY <2>1, <2>3 DEF Holds, Holding
  <2>5. TokenInv'
    BY <2>2, <2>3, <2>4, QuietStep
  <2> QED BY <1>1, <1>4, <1>5, <2>2, <2>3, <2>5 DEF TypeOK
<1>11. CASE AdapterRefuses(t)
  <2>1. /\ refreshes[t].pc = "call" /\ RetryRefresh(t)
        /\ UNCHANGED <<accounts, issued, stranded, overlapped>>
    BY <1>11 DEF AdapterRefuses
  <2>2. ~Holds(t) /\ ~Holds(t)'
    BY <1>8, <2>1 DEF Holds, Holding
  <2>3. TokenInv'
    BY <1>8, <2>1, <2>2, QuietStep
  <2>4. refreshes' \in [Refreshes -> Refresh]
    BY <1>1, <2>1, RefreshTypes
  <2> QED BY <1>1, <1>4, <1>5, <2>1, <2>3, <2>4 DEF TypeOK
<1>12. CASE AdapterRefreshes(t)
  <2>1. TokenInv'
    BY <1>12, IssueStep
  <2>2. refreshes[t].account \in Accounts /\ UserOfTask(t) \in Users
    BY <1>1, <1>12, ConstantsAssumption
    DEF AdapterRefreshes, TokenInv, Issued, UserOfTask
  <2>3. issued[UserOfTask(t)] \in 0 .. MaxIssue
    BY <1>1, <2>2 DEF TypeOK
  <2>4. issued[UserOfTask(t)] + 1 \in Token
    BY <1>12, <2>3, ConstantsAssumption DEF AdapterRefreshes, Issue, Token
  <2>5. refreshes' \in [Refreshes -> Refresh]
    BY <1>1, <1>12, <2>4, RefreshTypes DEF AdapterRefreshes
  <2>6. issued' \in [Users -> 0 .. MaxIssue]
    BY <1>1, <1>12, <2>2, <2>4 DEF AdapterRefreshes, Issue, TypeOK, Token
  <2>7. overlapped' \in SUBSET Users
    BY <1>1, <1>12, <2>2 DEF AdapterRefreshes, TypeOK
  <2>8. TypeOK'
    BY <1>1, <1>4, <1>12, <2>5, <2>6, <2>7 DEF AdapterRefreshes, TypeOK
  <2>9. \A u \in Users : issued'[u] \in Nat /\ issued[u] <= issued'[u]
    BY <1>1, <1>12, <2>6, ConstantsAssumption DEF AdapterRefreshes, Issue, TypeOK
  <2>10. PollInv'
    BY <1>3, <2>9, PollsKept
  <2> QED BY <2>1, <2>8, <2>10
<1>13. CASE UpdateToken(t)
  <2>1. /\ refreshes[t].pc = "update" /\ WriteToken(t)
        /\ refreshes' = [refreshes EXCEPT ![t].pc = "done", ![t].token = 0]
        /\ UNCHANGED <<issued, overlapped>>
    BY <1>13 DEF UpdateToken
  <2>2. /\ OneRefresh(t) /\ refreshes'[t].pc = "done"
        /\ refreshes' \in [Refreshes -> Refresh]
    <3>1. refreshes' \in [Refreshes -> Refresh]
      BY <1>1, <2>1, RefreshTypes
    <3> QED BY <1>1, <1>3, <2>1, <3>1 DEF OneRefresh, Refresh
  <2>3. Holds(t) /\ ~Holds(t)'
    BY <2>1, <2>2 DEF Holds, Holding
  <2>4. TokenInv'
    BY <2>1, <2>2, <2>3, ShowStep
  <2> QED BY <1>1, <1>4, <1>5, <1>7, <2>1, <2>2, <2>3, <2>4 DEF TypeOK
<1>14. CASE UpdateTokenFails(t)
  <2>1. /\ refreshes[t].pc = "update" /\ CutRefresh(t)
        /\ UNCHANGED <<issued, overlapped>>
        /\ \/ WriteToken(t)
           \/ UNCHANGED accounts /\ stranded' = stranded \cup {TokenOf(t)}
    BY <1>14 DEF UpdateTokenFails
  <2>2. Holds(t) /\ OneRefresh(t) /\ ~Holds(t)'
    BY <1>8, <2>1 DEF Holds, Holding
  <2>3. TokenInv'
    BY <2>1, <2>2, ShowStep, DropStep
  <2>4. refreshes' \in [Refreshes -> Refresh]
    BY <1>1, <2>1, RefreshTypes
  <2>5. accounts' \in [Accounts -> Row] /\ stranded' \in SUBSET (Users \X Token)
    BY <1>1, <1>6, <1>7, <2>1, <2>2 DEF TypeOK
  <2> QED BY <1>1, <1>4, <1>5, <2>1, <2>3, <2>4, <2>5 DEF TypeOK
<1>15. CASE RefreshLost(t)
  <2>1. /\ refreshes[t].pc \in {"call", "save", "update"} /\ CutRefresh(t)
        /\ UNCHANGED <<accounts, issued, overlapped>>
        /\ Holds(t) => stranded' = stranded \cup {TokenOf(t)}
        /\ ~Holds(t) => stranded' = stranded
    BY <1>15 DEF RefreshLost, Holding
  <2>2. OneRefresh(t) /\ ~Holds(t)'
    BY <1>8, <2>1
  <2>3. TokenInv'
    <3>1. CASE Holds(t)
      BY <2>1, <2>2, <3>1, DropStep
    <3>2. CASE ~Holds(t)
      BY <2>1, <2>2, <3>2, QuietStep
    <3> QED BY <3>1, <3>2
  <2>4. refreshes' \in [Refreshes -> Refresh]
    BY <1>1, <2>1, RefreshTypes
  <2>5. stranded' \in SUBSET (Users \X Token)
    BY <1>1, <1>6, <2>1 DEF TypeOK
  <2> QED BY <1>1, <1>4, <1>5, <2>1, <2>3, <2>4, <2>5 DEF TypeOK
<1> QED BY <1>10, <1>11, <1>12, <1>13, <1>14, <1>15
        DEF RefreshStep, RefreshFault

-----------------------------------------------------------------------------
LEMMA ClientSteps ==
  ASSUME IInv, NEW c \in Clients,
         \/ \E u \in Users : Connect(c, u)
         \/ SaveConnected(c)
         \/ \E a \in Accounts : CreateAccount(c, a)
         \/ CreateRefused(c)
         \/ ConnectAborts(c)
  PROVE  IInv'
<1> USE DEF IInv
<1>1. TypeOK /\ TokenInv /\ reqs \in [Clients -> Request]
      /\ accounts \in [Accounts -> Row]
  BY DEF TypeOK
<1>2. UNCHANGED polling /\ UNCHANGED <<refreshes, overlapped, requeues>>
  BY DEF Connect, SaveConnected, CreateAccount, CreateRefused, ConnectAborts,
         GiveUp
<1>3. TypeOK' <=>
        /\ reqs' \in [Clients -> Request]
        /\ accounts' \in [Accounts -> Row]
        /\ issued' \in [Users -> 0 .. MaxIssue]
        /\ stranded' \in SUBSET (Users \X Token)
  BY <1>1, <1>2 DEF TypeOK, polling
<1>4. UNCHANGED issued => PollInv'
  BY <1>1, <1>2, PollsKept DEF TypeOK
<1>5. reqs[c].pc # "idle" => reqs[c].user \in Users /\ reqs[c].token \in Token
  <2>1. reqs[c].pc # "idle" => reqs[c].user \in Users
                               /\ reqs[c].token \in 1 .. issued[reqs[c].user]
    BY <1>1 DEF TokenInv, Issued
  <2>2. reqs[c].token \in Token \cup {0}
    BY <1>1 DEF Request
  <2> QED BY <1>1, <2>1, <2>2 DEF TypeOK
<1>6. ASSUME NEW u \in Users, Connect(c, u) PROVE IInv'
  <2>1. TokenInv'
    BY <1>6, ConnectSteps
  <2>2. issued[u] + 1 \in Token
    BY <1>1, <1>6, ConstantsAssumption DEF Connect, Issue, TypeOK, Token
  <2>3. issued' \in [Users -> 0 .. MaxIssue]
    BY <1>1, <1>6, <2>2 DEF Connect, Issue, TypeOK, Token
  <2>4. reqs' \in [Clients -> Request]
    BY <1>1, <1>6, <2>2 DEF Connect, Request
  <2>5. TypeOK'
    BY <1>1, <1>3, <1>6, <2>3, <2>4 DEF Connect, TypeOK
  <2>6. \A v \in Users : issued'[v] \in Nat /\ issued[v] <= issued'[v]
    BY <1>1, <1>6, <2>3, ConstantsAssumption DEF Connect, Issue, TypeOK
  <2>7. PollInv'
    BY <1>2, <2>6, PollsKept
  <2> QED BY <2>1, <2>5, <2>7
<1>7. CASE SaveConnected(c)
  <2>1. TokenInv'
    BY <1>7, SaveConnectedStep
  <2>2. reqs' \in [Clients -> Request]
    BY <1>1, <1>7 DEF SaveConnected, Request
  <2> QED BY <1>1, <1>3, <1>4, <1>7, <2>1, <2>2 DEF SaveConnected, TypeOK
<1>8. ASSUME NEW a \in Accounts, CreateAccount(c, a) PROVE IInv'
  <2>1. TokenInv'
    BY <1>8, CreateAccountStep
  <2>2. reqs' \in [Clients -> Request]
    BY <1>1, <1>8 DEF CreateAccount, Idle, Request
  <2>3. accounts' \in [Accounts -> Row]
    BY <1>1, <1>5, <1>8 DEF CreateAccount, Row
  <2> QED BY <1>1, <1>3, <1>4, <1>8, <2>1, <2>2, <2>3 DEF CreateAccount, TypeOK
<1>9. CASE CreateRefused(c) \/ ConnectAborts(c)
  <2>1. GiveUp(c) /\ reqs[c].pc # "idle"
    BY <1>9 DEF CreateRefused, ConnectAborts
  <2>2. TokenInv'
    BY <2>1, GiveUpStep
  <2>3. reqs' \in [Clients -> Request]
    BY <1>1, <2>1 DEF GiveUp, Idle, Request
  <2>4. stranded' \in SUBSET (Users \X Token)
    BY <1>1, <1>5, <2>1 DEF GiveUp, TypeOK
  <2> QED BY <1>1, <1>3, <1>4, <2>1, <2>2, <2>3, <2>4 DEF GiveUp, TypeOK
<1> QED BY <1>6, <1>7, <1>8, <1>9

LEMMA NewWorkSteps ==
  ASSUME IInv,
         \/ \E a \in Accounts : DeleteAccount(a)
         \/ \E t \in Refreshes, a \in Accounts : EnqueueRefresh(t, a)
         \/ \E p \in Polls, a \in Accounts : EnqueuePoll(p, a)
         \/ \E p \in Polls : DeletePost(p)
  PROVE  IInv'
<1> USE DEF IInv
<1>1. ASSUME NEW a \in Accounts, DeleteAccount(a) PROVE IInv'
  <2>1. TypeOK /\ TokenInv /\ accounts \in [Accounts -> Row]
    BY DEF TypeOK
  <2>2. TokenInv'
    BY <1>1, DeleteAccountStep
  <2>3. accounts' \in [Accounts -> Row]
    BY <1>1, <2>1 DEF DeleteAccount, Row
  <2>4. accounts[a].token \in Token /\ UserOf[a] \in Users
    <3>1. accounts[a].token \in 1 .. issued[UserOf[a]] /\ UserOf[a] \in Users
      BY <1>1, <2>1, ConstantsAssumption DEF DeleteAccount, TokenInv, Issued
    <3>2. accounts[a].token \in Token \cup {0}
      BY <2>1 DEF Row
    <3> QED BY <2>1, <3>1, <3>2 DEF TypeOK
  <2>5. stranded' \in SUBSET (Users \X Token)
    BY <1>1, <2>1, <2>4 DEF DeleteAccount, TypeOK
  <2>6. TypeOK'
    BY <1>1, <2>1, <2>3, <2>5 DEF DeleteAccount, polling, TypeOK
  <2>7. PollInv'
    BY <1>1, <2>1, PollsKept DEF DeleteAccount, TypeOK
  <2> QED BY <2>2, <2>6, <2>7
<1>2. ASSUME NEW t \in Refreshes, NEW a \in Accounts, EnqueueRefresh(t, a)
      PROVE  IInv'
  <2>1. TokenInv'
    BY <1>2, EnqueueStep
  <2>2. refreshes' \in [Refreshes -> Refresh]
    BY <1>2, RefreshTypes DEF EnqueueRefresh
  <2>3. TypeOK'
    BY <1>2, <2>2 DEF EnqueueRefresh, UnchangedByRefresh, polling, TypeOK
  <2>4. PollInv'
    BY <1>2, PollsKept DEF EnqueueRefresh, UnchangedByRefresh, TypeOK
  <2> QED BY <2>1, <2>3, <2>4
<1>3. ASSUME NEW p \in Polls, NEW a \in Accounts, EnqueuePoll(p, a) PROVE IInv'
  BY <1>3, EnqueuePollStep, TokensKept DEF EnqueuePoll
<1>4. ASSUME NEW p \in Polls, DeletePost(p) PROVE IInv'
  BY <1>4, DeletePostStep, TokensKept DEF DeletePost
<1> QED BY <1>1, <1>2, <1>3, <1>4

LEMMA NextStep == IInv /\ [Next]_vars => IInv'
<1> SUFFICES ASSUME IInv, [Next]_vars PROVE IInv'
  OBVIOUS
<1>1. CASE NewWork
  BY <1>1, ClientSteps, NewWorkSteps DEF NewWork
<1>2. ASSUME NEW c \in Clients, ConnectStep(c) \/ ConnectAborts(c) PROVE IInv'
  BY <1>2, ClientSteps DEF ConnectStep
<1>3. ASSUME NEW t \in Refreshes, RefreshStep(t) \/ RefreshFault(t) PROVE IInv'
  BY <1>3, RefreshSteps
<1>4. ASSUME NEW p \in Polls, PollStep(p) \/ PollFault(p) PROVE IInv'
  BY <1>4, PollSteps
<1>5. CASE UNCHANGED vars
  <2>1. TypeOK'
    BY <1>5 DEF vars, polling, IInv, TypeOK
  <2>2. TokenInv'
    BY <1>5, TokensKept DEF vars, UnchangedByPoll
  <2>3. PollInv'
    <3>1. \A u \in Users : issued'[u] \in Nat /\ issued[u] <= issued'[u]
      BY <1>5 DEF vars, IInv, TypeOK
    <3> QED BY <1>5, <3>1, PollsKept DEF vars, polling
  <2> QED BY <2>1, <2>2, <2>3 DEF IInv
<1> QED BY <1>1, <1>2, <1>3, <1>4, <1>5 DEF Next

\* IInv holds throughout every behaviour.
THEOREM Invariance == Spec => []IInv
BY InitIInv, NextStep, PTL DEF Spec

-----------------------------------------------------------------------------
(* Main results.                                                            *)

\* Every row, request and task keeps the shape the code gives it.
THEOREM TypeCorrect == Spec => []TypeOK
<1>1. IInv => TypeOK
  BY DEF IInv
<1> QED BY <1>1, Invariance, PTL

\* A row shows its user's newest token, or that token is in hand, stranded,
\* or two refreshes overlapped, whatever the order of connects, refreshes,
\* deletions and faults.
THEOREM NewestTokenAccounted == Spec => []NewestAccounted
<1>1. IInv => NewestAccounted
  <2> SUFFICES ASSUME IInv, NEW a \in Accounts, Live(a)
               PROVE  \/ accounts[a].token = issued[UserOf[a]]
                      \/ <<UserOf[a], issued[UserOf[a]]>> \in stranded
                      \/ InHand(UserOf[a], issued[UserOf[a]])
                      \/ UserOf[a] \in overlapped
    BY DEF NewestAccounted
  <2> DEFINE u == UserOf[a]
  <2>1. u \in Users /\ accounts[a].token \in 1 .. issued[u]
    BY ConstantsAssumption DEF IInv, TokenInv, Issued
  <2>2. issued[u] # 0
    BY <2>1
  <2>3. \A b \in Accounts : Live(b) /\ UserOf[b] = u => b = a
    BY DEF IInv, TokenInv, Issued
  <2>4. NewestOf(u)
    BY <2>1 DEF IInv, TokenInv
  <2> QED BY <2>2, <2>3, <2>4 DEF NewestOf
<1> QED BY <1>1, Invariance, PTL

\* The UPDATE of a refresh brings a newer token than its row shows.
LEMMA WriteAscends ==
  ASSUME IInv, NEW t \in Refreshes, Holds(t), WriteToken(t),
         NEW a \in Accounts, accounts'[a].token # accounts[a].token
  PROVE  \/ Live(a) /\ accounts[a].token < accounts'[a].token
         \/ UserOf[a] \in overlapped
<1>1. accounts \in [Accounts -> Row]
  BY DEF IInv, TypeOK
<1>2. Live(refreshes[t].account)
  BY DEF WriteToken
<1>3. refreshes[t].account = a
  BY <1>1, <1>2 DEF WriteToken, Row
<1>4. accounts'[a].token = refreshes[t].token
  BY <1>1, <1>2, <1>3 DEF WriteToken, Row
<1>5. accounts[a].token < refreshes[t].token \/ UserOf[a] \in overlapped
  BY <1>2, <1>3 DEF IInv, TokenInv, HeldIsNewer, UserOfTask
<1> QED BY <1>2, <1>3, <1>4, <1>5

\* Rows only ever get newer tokens, and none once they are deleted, unless
\* two refreshes of the user overlapped.
THEOREM NeverBackToOlder == Spec => TokensAscend
<1>1. IInv /\ [Next]_vars =>
        [\A a \in Accounts :
           accounts'[a].token # accounts[a].token =>
             \/ accounts[a].status = "absent"
             \/ Live(a) /\ accounts[a].token < accounts'[a].token
             \/ UserOf[a] \in overlapped]_vars
  <2> SUFFICES ASSUME IInv, [Next]_vars, NEW a \in Accounts,
                      accounts'[a].token # accounts[a].token
               PROVE  \/ accounts[a].status = "absent"
                      \/ Live(a) /\ accounts[a].token < accounts'[a].token
                      \/ UserOf[a] \in overlapped
    OBVIOUS
  <2>t. accounts \in [Accounts -> Row]
    BY DEF IInv, TypeOK
  <2>1. CASE NewWork
    <3>1. ASSUME NEW b \in Accounts, DeleteAccount(b) PROVE FALSE
      BY <3>1, <2>t DEF DeleteAccount, Row
    <3>2. ~ UNCHANGED accounts
      OBVIOUS
    <3> QED BY <2>1, <3>1, <3>2 DEF NewWork, Connect, EnqueueRefresh,
                                    EnqueuePoll, DeletePost, UnchangedByPoll
  <2>2. ASSUME NEW c \in Clients, ConnectStep(c) \/ ConnectAborts(c)
        PROVE  accounts[a].status = "absent"
    <3>1. ASSUME NEW b \in Accounts, CreateAccount(c, b)
          PROVE  accounts[a].status = "absent"
      BY <3>1, <2>t DEF CreateAccount
    <3>2. CASE SaveConnected(c) \/ CreateRefused(c) \/ ConnectAborts(c)
      BY <3>2 DEF SaveConnected, CreateRefused, ConnectAborts, GiveUp
    <3> QED BY <2>2, <3>1, <3>2 DEF ConnectStep
  <2>3. ASSUME NEW t \in Refreshes, RefreshStep(t) \/ RefreshFault(t)
        PROVE  \/ Live(a) /\ accounts[a].token < accounts'[a].token
               \/ UserOf[a] \in overlapped
    <3>1. Holds(t) /\ WriteToken(t)
      BY <2>3 DEF RefreshStep, RefreshFault, DequeueRefresh, NoAdapter,
                  AdapterRefreshes, AdapterRefuses, SaveRefreshed, UpdateToken,
                  UpdateTokenFails, RefreshLost, Holds, Holding
    <3> QED BY <3>1, WriteAscends
  <2>4. ASSUME NEW p \in Polls, PollStep(p) \/ PollFault(p)
        PROVE  FALSE
    BY <2>4 DEF PollStep, PollFault, DequeuePoll, FetchMetrics, PollNoAdapter,
                PollRefused, Record, PollLost, RecordUnheard, UnchangedByPoll
  <2>5. CASE UNCHANGED vars
    BY <2>5 DEF vars
  <2> QED BY <2>1, <2>2, <2>3, <2>4, <2>5 DEF Next
<1> QED BY <1>1, Invariance, PTL DEF Spec, TokensAscend

\* A finished poll has its snapshot, a second snapshot or a poll that failed
\* for good has its cause, for any number of polls, retries and refreshes.
THEOREM SnapshotsAccounted == Spec => []SnapshotsExplained
<1>1. IInv => SnapshotsExplained
  BY DEF IInv, PollInv
<1> QED BY <1>1, Invariance, PTL

-----------------------------------------------------------------------------
(* Progress: what fairness of the workers needs for tasks to settle.        *)

\* The order in which the runs of both kinds of task pass their places.
Place == [pc \in {"absent", "pending", "call", "fetch", "record"}
                   \cup Holding \cup Settled |->
            CASE pc = "absent" -> 0 [] pc = "pending" -> 1
              [] pc \in {"call", "fetch"} -> 2 [] pc \in {"save", "record"} -> 3
              [] pc = "update" -> 4 [] OTHER -> 5]

\* A task stays, moves on in its run, or uses up one of its retries or one of
\* the runs a shutdown hands back.
Moves(old, new) ==
  \/ new.pc = old.pc /\ new.retried = old.retried
  \/ new.retried = old.retried /\ Place[new.pc] > Place[old.pc]
  \/ new.retried = old.retried + 1 /\ new.retried <= MaxRetry
  \/ /\ new.retried = old.retried
     /\ requeues' = requeues + 1 /\ requeues' <= MaxRequeues

TasksAdvance ==
  [][/\ \A t \in Refreshes : Moves(refreshes[t], refreshes'[t])
     /\ \A p \in Polls : Moves(polls[p], polls'[p])]_vars

LEMMA RefreshMoves ==
  ASSUME TypeOK, NEW s \in Refreshes, NEW t \in Refreshes,
         RefreshStep(s) \/ RefreshFault(s)
  PROVE  Moves(refreshes[t], refreshes'[t])
<1>1. /\ refreshes \in [Refreshes -> Refresh]
      /\ refreshes[s].retried \in Nat /\ MaxRetry \in Nat
  BY ConstantsAssumption DEF TypeOK, Refresh
<1>2. CASE s # t
  <2>1. refreshes'[t] = refreshes[t]
    BY <1>1, <1>2 DEF RefreshStep, RefreshFault, DequeueRefresh, NoAdapter,
       AdapterRefreshes, AdapterRefuses, SaveRefreshed, UpdateToken,
       UpdateTokenFails, RefreshLost, CutRefresh, RetryRefresh, RequeueRefresh
  <2> QED BY <2>1 DEF Moves
<1>3. CASE s = t /\ RetryRefresh(s)
           /\ refreshes[s].pc \in {"call", "save", "update"}
  <2>1. \/ /\ refreshes'[s].retried = refreshes[s].retried + 1
           /\ refreshes[s].retried < MaxRetry
        \/ /\ refreshes'[s].retried = refreshes[s].retried
           /\ refreshes'[s].pc = "archived"
    BY <1>1, <1>3 DEF RetryRefresh, Refresh
  <2> QED BY <1>1, <1>3, <2>1 DEF Moves, Place, Holding, Settled
<1>4. ASSUME s = t, DequeueRefresh(s) \/ NoAdapter(s) \/ AdapterRefreshes(s)
                    \/ SaveRefreshed(s) \/ UpdateToken(s)
      PROVE  Moves(refreshes[t], refreshes'[t])
  <2>1. /\ refreshes'[s].retried = refreshes[s].retried
        /\ \/ refreshes[s].pc = "pending" /\ refreshes'[s].pc = "call"
           \/ refreshes[s].pc = "call" /\ refreshes'[s].pc \in {"archived", "save"}
           \/ refreshes[s].pc = "save" /\ refreshes'[s].pc = "update"
           \/ refreshes[s].pc = "update" /\ refreshes'[s].pc = "done"
    BY <1>1, <1>4 DEF DequeueRefresh, NoAdapter, AdapterRefreshes,
       SaveRefreshed, UpdateToken, Refresh
  <2> QED BY <1>4, <2>1 DEF Moves, Place, Holding, Settled
<1>5. CASE s = t /\ RequeueRefresh(s)
  <2>1. refreshes'[s].retried = refreshes[s].retried
    BY <1>1, <1>5 DEF RequeueRefresh, Refresh
  <2>2. requeues' = requeues + 1 /\ requeues' <= MaxRequeues
    BY <1>5, ConstantsAssumption DEF RequeueRefresh, TypeOK
  <2> QED BY <1>5, <2>1, <2>2 DEF Moves
<1> QED BY <1>2, <1>3, <1>4, <1>5 DEF RefreshStep, RefreshFault,
           AdapterRefuses, UpdateTokenFails, RefreshLost, CutRefresh, Holding

LEMMA PollMoves ==
  ASSUME TypeOK, NEW q \in Polls, NEW p \in Polls, PollStep(q) \/ PollFault(q)
  PROVE  Moves(polls[p], polls'[p])
<1>1. polls \in [Polls -> Poll] /\ polls[q].retried \in Nat /\ MaxRetry \in Nat
  BY ConstantsAssumption DEF TypeOK, Poll
<1>2. CASE q # p
  <2>1. polls'[p] = polls[p]
    BY <1>1, <1>2 DEF PollStep, PollFault, DequeuePoll, FetchMetrics,
       PollNoAdapter, PollRefused, Record, PollLost, RecordUnheard, CutPoll,
       RetryPoll, RequeuePoll
  <2> QED BY <2>1 DEF Moves
<1>3. CASE q = p /\ RetryPoll(q) /\ polls[q].pc \in {"fetch", "record"}
  <2>1. \/ /\ polls'[q].retried = polls[q].retried + 1
           /\ polls[q].retried < MaxRetry
        \/ /\ polls'[q].retried = polls[q].retried
           /\ polls'[q].pc = "archived"
    BY <1>1, <1>3 DEF RetryPoll, Poll
  <2> QED BY <1>1, <1>3, <2>1 DEF Moves, Place, Holding, Settled
<1>4. ASSUME q = p, DequeuePoll(q) \/ FetchMetrics(q) \/ PollNoAdapter(q)
                    \/ Record(q)
      PROVE  Moves(polls[p], polls'[p])
  <2>1. /\ polls'[q].retried = polls[q].retried
        /\ \/ polls[q].pc = "pending" /\ polls'[q].pc = "fetch"
           \/ polls[q].pc = "fetch" /\ polls'[q].pc \in {"archived", "record"}
           \/ polls[q].pc = "record" /\ polls'[q].pc = "done"
    BY <1>1, <1>4 DEF DequeuePoll, FetchMetrics, PollNoAdapter, Record, Poll
  <2> QED BY <1>4, <2>1 DEF Moves, Place, Holding, Settled
<1>5. CASE q = p /\ RequeuePoll(q)
  <2>1. polls'[q].retried = polls[q].retried
    BY <1>1, <1>5 DEF RequeuePoll, Poll
  <2>2. requeues' = requeues + 1 /\ requeues' <= MaxRequeues
    BY <1>5, ConstantsAssumption DEF RequeuePoll, TypeOK
  <2> QED BY <1>5, <2>1, <2>2 DEF Moves
<1> QED BY <1>2, <1>3, <1>4, <1>5 DEF PollStep, PollFault, PollRefused,
           PollLost, RecordUnheard, CutPoll

LEMMA NextMovesRefreshes ==
  ASSUME TypeOK, [Next]_vars, NEW t \in Refreshes
  PROVE  Moves(refreshes[t], refreshes'[t])
<1>1. CASE UNCHANGED refreshes
  BY <1>1 DEF Moves
<1>2. ASSUME NEW s \in Refreshes, NEW a \in Accounts, EnqueueRefresh(s, a)
      PROVE  Moves(refreshes[t], refreshes'[t])
  <2>1. \/ refreshes'[t] = refreshes[t]
        \/ /\ refreshes[t].pc = "absent" /\ refreshes'[t].pc = "pending"
           /\ refreshes'[t].retried = refreshes[t].retried
    BY <1>2 DEF EnqueueRefresh, Refresh, TypeOK
  <2> QED BY <2>1 DEF Moves, Place
<1>3. ASSUME NEW s \in Refreshes, RefreshStep(s) \/ RefreshFault(s)
      PROVE  Moves(refreshes[t], refreshes'[t])
  BY <1>3, RefreshMoves
<1>4. ASSUME NEW q \in Polls, PollStep(q) \/ PollFault(q)
      PROVE  UNCHANGED refreshes
  BY <1>4 DEF PollStep, PollFault, DequeuePoll, FetchMetrics, PollNoAdapter,
     PollRefused, Record, PollLost, RecordUnheard, UnchangedByPoll
<1>5. ASSUME NEW c \in Clients, ConnectStep(c) \/ ConnectAborts(c)
      PROVE  UNCHANGED refreshes
  BY <1>5 DEF ConnectStep, ConnectAborts, SaveConnected, CreateAccount,
     CreateRefused, GiveUp
<1>6. CASE NewWork
  <2>1. \/ UNCHANGED refreshes
        \/ \E s \in Refreshes, a \in Accounts : EnqueueRefresh(s, a)
    BY <1>6 DEF NewWork, Connect, DeleteAccount, EnqueuePoll, DeletePost,
       UnchangedByPoll
  <2> QED BY <1>1, <1>2, <2>1
<1>7. CASE UNCHANGED vars
  BY <1>1, <1>7 DEF vars
<1> QED BY <1>1, <1>3, <1>4, <1>5, <1>6, <1>7 DEF Next

LEMMA NextMovesPolls ==
  ASSUME TypeOK, [Next]_vars, NEW p \in Polls
  PROVE  Moves(polls[p], polls'[p])
<1>1. CASE UNCHANGED polls
  BY <1>1 DEF Moves
<1>2. ASSUME NEW q \in Polls, NEW a \in Accounts, EnqueuePoll(q, a)
      PROVE  Moves(polls[p], polls'[p])
  <2>1. \/ polls'[p] = polls[p]
        \/ /\ polls[p].pc = "absent" /\ polls'[p].pc = "pending"
           /\ polls'[p].retried = polls[p].retried
    BY <1>2 DEF EnqueuePoll, Poll, TypeOK
  <2> QED BY <2>1 DEF Moves, Place
<1>3. ASSUME NEW q \in Polls, DeletePost(q)
      PROVE  Moves(polls[p], polls'[p])
  <2>1. polls'[p].pc = polls[p].pc /\ polls'[p].retried = polls[p].retried
    BY <1>3 DEF DeletePost, Poll, TypeOK
  <2> QED BY <2>1 DEF Moves
<1>4. ASSUME NEW q \in Polls, PollStep(q) \/ PollFault(q)
      PROVE  Moves(polls[p], polls'[p])
  BY <1>4, PollMoves
<1>5. ASSUME NEW s \in Refreshes, RefreshStep(s) \/ RefreshFault(s)
      PROVE  UNCHANGED polls
  BY <1>5 DEF RefreshStep, RefreshFault, DequeueRefresh, NoAdapter,
     AdapterRefreshes, AdapterRefuses, SaveRefreshed, UpdateToken,
     UpdateTokenFails, RefreshLost, UnchangedByRefresh, polling
<1>6. ASSUME NEW c \in Clients, ConnectStep(c) \/ ConnectAborts(c)
      PROVE  UNCHANGED polls
  BY <1>6 DEF ConnectStep, ConnectAborts, SaveConnected, CreateAccount,
     CreateRefused, GiveUp, polling
<1>7. CASE NewWork
  <2>1. \/ UNCHANGED polls
        \/ \E q \in Polls, a \in Accounts : EnqueuePoll(q, a)
        \/ \E q \in Polls : DeletePost(q)
    BY <1>7 DEF NewWork, Connect, DeleteAccount, EnqueueRefresh,
       UnchangedByRefresh, polling
  <2> QED BY <1>1, <1>2, <1>3, <2>1
<1>8. CASE UNCHANGED vars
  BY <1>1, <1>8 DEF vars, polling
<1> QED BY <1>1, <1>4, <1>5, <1>6, <1>7, <1>8 DEF Next

\* No step of a refresh or a poll is free, whatever clients, deletions, the
\* other tasks and the faults do: every run that fails is paid for with a
\* retry, every run a shutdown interrupts with a requeue, so each task stands
\* still, ends, or runs out of them.
THEOREM NoFreeRuns == Spec => TasksAdvance
<1>1. TypeOK /\ [Next]_vars =>
        [/\ \A t \in Refreshes : Moves(refreshes[t], refreshes'[t])
         /\ \A p \in Polls : Moves(polls[p], polls'[p])]_vars
  BY NextMovesRefreshes, NextMovesPolls
<1> QED BY <1>1, TypeCorrect, PTL DEF Spec, TasksAdvance

=============================================================================
