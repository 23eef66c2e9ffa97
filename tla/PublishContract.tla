-------------------------- MODULE PublishContract --------------------------
(***************************************************************************)
(* What the publish pipeline promises of post targets, seen from outside:  *)
(* which public posts exist, whose outcome nobody heard, which one a target*)
(* row shows, which rows were deleted and which posts were announced to the*)
(* customer's webhooks.  How tasks are queued, retried or lost is left out.*)
(***************************************************************************)
EXTENDS Naturals

CONSTANTS Targets, JobIds, Null

VARIABLES live, unheard, record, gone, announced

vars == <<live, unheard, record, gone, announced>>

Attempt == Targets \X JobIds \X Nat

Init ==
  /\ live = {}
  /\ unheard = {}
  /\ record = [t \in Targets |-> Null]
  /\ gone = {}
  /\ announced = {}

\* Posts become public, and stay public.  A task has one target, and makes a
\* second post for it only after attempts whose outcome nobody heard.
GoLive ==
  /\ live' \in SUBSET Attempt
  /\ live \subseteq live'
  /\ \A a, b \in live' : a[2] = b[2] =>
       /\ a[1] = b[1]
       /\ a[3] < b[3] => a \in unheard
  /\ UNCHANGED <<unheard, record, gone, announced>>

\* An attempt's outcome gets lost on its way back.
LoseTrack ==
  /\ unheard' \in SUBSET Attempt
  /\ unheard \subseteq unheard'
  /\ UNCHANGED <<live, record, gone, announced>>

\* A row comes to show a post that is public and belongs to the target.
Record(a) ==
  /\ a \in live
  /\ a[1] \notin gone
  /\ record' = [record EXCEPT ![a[1]] = a]
  /\ UNCHANGED <<live, unheard, gone, announced>>

\* Only a post whose target shows a post, or was deleted, is announced.
Announce(a) ==
  /\ a \in live
  /\ a[1] \in gone \/ record[a[1]] # Null
  /\ announced' = announced \cup {a}
  /\ UNCHANGED <<live, unheard, record, gone>>

\* Deleting rows is the only way a row stops showing a post.
Withdraw(ts) ==
  /\ gone' = gone \cup ts
  /\ record' = [t \in Targets |-> IF t \in ts THEN Null ELSE record[t]]
  /\ UNCHANGED <<live, unheard, announced>>

Next ==
  \/ GoLive \/ LoseTrack
  \/ \E a \in live : Record(a) \/ Announce(a)
  \/ \E ts \in SUBSET Targets : Withdraw(ts)

Spec == Init /\ [][Next]_vars

=============================================================================
