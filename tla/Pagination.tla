----------------------------- MODULE Pagination -----------------------------
(***************************************************************************)
(* A client walks a workspace's posts with the SDK's Iter while other      *)
(* clients create and delete posts.                                        *)
(*                                                                         *)
(* A post is its ID, a random UUID; Postgres compares cursors with IDs but *)
(* sorts a page by creation time, and nothing relates the two orders.      *)
(*                                                                         *)
(* The body of GET /v1/posts holds the page as data and the cursor as      *)
(* next_cursor.  What Iter gets depends on the FetchFn it was given: the   *)
(* SDK's own post.Service.List, whose Page looks for items and has_more,   *)
(* or one that a program writes for the fields that are there.             *)
(***************************************************************************)
EXTENDS Naturals, FiniteSets

CONSTANTS
  Ids,     \* post IDs, in the order of their text
  Limit,   \* page size: the limit parameter, 20 when it is not positive
  None     \* the empty cursor

ASSUME PaginationAssumption ==
  /\ Ids \subseteq Nat
  /\ IsFiniteSet(Ids)
  /\ Limit \in Nat \ {0}
  /\ None \notin Nat

VARIABLES
  reader,   \* the FetchFn: "sdk" over post.Service.List, or a program's "own"
  rows,     \* posts in the table
  at,       \* creation time of each post so far, 0 before
  cursor,   \* Iter.cursor
  buffer,   \* the items of the current page Next has yet to return
  done,     \* Iter.done
  ended,    \* how the walk ended: "no", "end" or "error"
  seen,     \* items returned
  again,    \* items returned more than once
  stable,   \* posts present when the walk began and never deleted since
  cut       \* some page was cut short without an error

vars == <<reader, rows, at, cursor, buffer, done, ended, seen, again, stable,
          cut>>
table == <<reader, rows, at>>
iter == <<cursor, buffer, done, ended>>
history == <<seen, again, stable, cut>>

-----------------------------------------------------------------------------
Created == {i \in Ids : at[i] > 0}

TypeOK ==
  /\ reader \in {"sdk", "own"}
  /\ rows \in SUBSET Created
  /\ at \in [Ids -> Nat]
  /\ cursor \in Ids \cup {None}
  /\ buffer \in SUBSET Ids /\ Cardinality(buffer) < Limit
  /\ done \in BOOLEAN
  /\ ended \in {"no", "end", "error"}
  /\ seen \in SUBSET Ids
  /\ again \in SUBSET seen
  /\ stable \in SUBSET rows
  /\ cut \in BOOLEAN

Init ==
  /\ reader \in {"sdk", "own"}
  /\ rows = {}
  /\ at = [i \in Ids |-> 0]
  /\ cursor = None /\ buffer = {} /\ done = FALSE /\ ended = "no"
  /\ seen = {} /\ again = {} /\ stable = {} /\ cut = FALSE

-----------------------------------------------------------------------------
(* The query of postStore.List                                             *)

\* Mutant: <= in place of <.
MatchingFromCursor == {i \in rows : cursor = None \/ i <= cursor}

\* WHERE @cursor = '' OR id::text < @cursor
Matching == {i \in rows : cursor = None \/ i < cursor}

\* ORDER BY created_at DESC LIMIT n
Newest(S, n) == {i \in S : Cardinality({j \in S : at[j] > at[i]}) < n}
Last(S) == {i \in S : \A j \in S : at[i] <= at[j]}

More(got) == Cardinality(got) > Limit

\* The page, out of the limit + 1 rows asked for.
Page(got) == IF More(got) THEN Newest(got, Limit) ELSE got

\* Mutant: the next page starts after the row that is not on this one.
CursorBeyondPage(got) == IF More(got) THEN Last(got) ELSE {None}

\* The cursor of the next page: the last item of this one, "" without more.
NextCursor(got) == IF More(got) THEN Last(Page(got)) ELSE {None}

-----------------------------------------------------------------------------
(* The body of the response, decoded                                       *)

\* The names of the body's fields that the reader's page type has too: the
\* SDK's knows next_cursor only, and its items and has_more stay zero.
Items(page) == IF reader = "sdk" THEN {} ELSE page
HasMore(next) == reader = "own" /\ next # None

-----------------------------------------------------------------------------
(* Iter.Next                                                               *)

\* Next returns true: the first item of the page that is left.
Return(page) ==
  \E i \in page :
    /\ \A j \in page : at[j] <= at[i]
    /\ buffer' = page \ {i}
    /\ seen' = seen \cup {i}
    /\ again' = IF i \in seen THEN again \cup {i} ELSE again

ReturnBuffered ==
  /\ ended = "no"
  /\ buffer # {}
  /\ Return(buffer)
  /\ UNCHANGED <<table, cursor, done, ended, stable, cut>>

Exhausted ==
  /\ ended = "no"
  /\ buffer = {} /\ done
  /\ ended' = "end"
  /\ UNCHANGED <<table, cursor, buffer, done, history>>

\* A page without items ends the walk, whatever its cursor.
Receive(got) ==
  /\ cursor' \in NextCursor(got)
  /\ done' = ~HasMore(cursor')
  /\ IF Items(Page(got)) = {}
       THEN ended' = "end" /\ UNCHANGED <<buffer, seen, again>>
       ELSE Return(Items(Page(got))) /\ UNCHANGED ended
  /\ stable' = IF cursor = None THEN rows ELSE stable
  /\ UNCHANGED table

AtPageEnd == ended = "no" /\ buffer = {} /\ ~done

Fetch ==
  /\ AtPageEnd
  /\ Receive(Newest(Matching, Limit + 1))
  /\ UNCHANGED cut

\* The connection breaks while rows are read: rows.Next returns false, the
\* error of rows.Err is not looked at, and a short page looks like the last.
FetchCutShort ==
  /\ AtPageEnd
  /\ \E n \in 0 .. Limit :
       /\ n < Cardinality(Matching)
       /\ Receive(Newest(Matching, n))
  /\ cut' = TRUE

FetchFails ==
  /\ AtPageEnd
  /\ ended' = "error"
  /\ UNCHANGED <<table, cursor, buffer, done, history>>

-----------------------------------------------------------------------------
(* The other clients                                                       *)

\* Post.Create draws an ID that was never used.
Insert(i) ==
  /\ ended = "no"
  /\ at[i] = 0
  /\ at' = [at EXCEPT ![i] = Cardinality(Created) + 1]
  /\ rows' = rows \cup {i}
  /\ UNCHANGED <<reader, iter, history>>

Delete(i) ==
  /\ ended = "no"
  /\ rows' = rows \ {i}
  /\ stable' = stable \ {i}
  /\ UNCHANGED <<reader, at, iter, seen, again, cut>>

-----------------------------------------------------------------------------
Walk == ReturnBuffered \/ Exhausted \/ Fetch

Next ==
  \/ Walk \/ FetchCutShort \/ FetchFails
  \/ \E i \in Ids \ Created : Insert(i)
  \/ \E i \in rows : Delete(i)

\* The caller keeps calling Next.
Spec == Init /\ [][Next]_vars /\ WF_vars(Walk)

-----------------------------------------------------------------------------
(* Properties                                                              *)

\* An item is returned twice only if an older post with a larger ID was
\* returned too: one the cursor followed past it.  Posts that others create
\* and delete during the walk, the cursor's own among them, repeat nothing.
RepeatsExplained ==
  \A i \in again : \E j \in seen : i < j /\ at[j] < at[i]

\* A walk that ends without error has missed a post that was there throughout
\* only if it returned a newer post with a smaller ID, or a page was silently
\* cut short, or it went through the SDK's Page and returned nothing at all.
MissesExplained ==
  ended = "end" /\ ~cut =>
    \A i \in stable \ seen :
      \/ reader = "sdk" /\ seen = {}
      \/ \E j \in seen : j < i /\ at[i] < at[j]

\* In any order of IDs, whatever others create and delete, a call of Next
\* brings the walk nearer to its end: it ends it, or takes an item from the
\* page, or fetches the last page, or one that ends below the last cursor.
WalkAdvances ==
  [][\/ UNCHANGED iter
     \/ ended = "no" /\ ended' # "no"
     \/ /\ UNCHANGED <<cursor, done, ended>>
        /\ buffer' \subseteq buffer /\ buffer' # buffer
     \/ UNCHANGED ended /\ ~done /\ done'
     \/ /\ UNCHANGED <<done, ended>> /\ cursor' # None
        /\ cursor # None => cursor' < cursor]_vars

\* The walk ends, however many posts others create meanwhile.
WalkEnds == <>(ended # "no")
=============================================================================
