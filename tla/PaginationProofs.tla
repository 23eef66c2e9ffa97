-------------------------- MODULE PaginationProofs --------------------------
(* What a walk over the pages returns, for every set of IDs and page size.  *)
EXTENDS Pagination, FiniteSetTheorems, TLAPS

-----------------------------------------------------------------------------
\* The part of TypeOK the arguments need.
WalkType ==
  /\ reader \in {"sdk", "own"}
  /\ rows \subseteq Created
  /\ at \in [Ids -> Nat]
  /\ cursor \in Ids \cup {None}
  /\ buffer \subseteq Created
  /\ seen \subseteq Created
  /\ again \subseteq seen
  /\ done \in BOOLEAN

\* Only the first page is fetched without a cursor.
FirstPage == cursor = None /\ ~done => seen = {} /\ buffer = {}

\* i lies between an item of S in the two orders: that one is older than i and
\* its ID larger, or newer and its ID smaller.
OlderAbove(i, S) == \E j \in S : i < j /\ at[j] < at[i]
NewerBelow(i, S) == \E j \in S : j < i /\ at[i] < at[j]

\* What was returned or buffered lies at or above the cursor, so the next page
\* holds none of it, but for what an older item with a larger ID let through.
AboveCursor ==
  /\ \A i \in again : OlderAbove(i, seen)
  /\ \A i \in buffer \cap seen : OlderAbove(i, seen)
  /\ cursor # None => \A i \in seen \cup buffer :
                        cursor <= i \/ OlderAbove(i, seen \cup buffer)

\* No two posts have one time.
Numbered ==
  \A i \in Created :
    /\ at[i] \in Nat /\ at[i] <= Cardinality(Created)
    /\ \A j \in Created : at[i] = at[j] => i = j

\* Through the SDK's Page nothing arrives.
SdkSeesNothing ==
  reader = "sdk" => seen = {} /\ buffer = {} /\ again = {}

WalkInv ==
  /\ WalkType
  /\ Numbered
  /\ FirstPage
  /\ SdkSeesNothing
  /\ AboveCursor

-----------------------------------------------------------------------------
LEMMA CreatedIsFinite ==
  ASSUME NEW S \in SUBSET Created
  PROVE  IsFiniteSet(S) /\ Cardinality(S) \in Nat
  BY PaginationAssumption, FS_Subset, FS_CardinalityType DEF Created

\* A page is some of the rows the query matches.
LEMMA PageMatches ==
  ASSUME NEW n
  PROVE  Page(Newest(Matching, n)) \subseteq Matching
  BY DEF Page, Newest

\* The cursor of the next page is an item of this one, the oldest.
LEMMA CursorOnPage ==
  ASSUME NEW got, NEW c \in NextCursor(got), c # None
  PROVE  c \in Page(got) /\ \A j \in Page(got) : at[c] <= at[j]
  BY DEF NextCursor, Last

\* What a page decodes to is the page or nothing.
LEMMA Decoded ==
  ASSUME WalkType, NEW page
  PROVE  Items(page) = {} \/ (Items(page) = page /\ reader = "own")
  BY DEF Items, WalkType

\* An item not below the oldest of its page has it for an older one above.
LEMMA OldestOrInverted ==
  ASSUME WalkType, Numbered, NEW S \in SUBSET Created, NEW c \in S,
         \A j \in S : at[c] <= at[j], NEW i \in S
  PROVE  c <= i \/ OlderAbove(i, S)
<1>1. /\ c \in Nat /\ i \in Nat /\ at[c] \in Nat /\ at[i] \in Nat
      /\ c \in Created /\ i \in Created
  BY PaginationAssumption DEF WalkType, Created
<1>2. at[c] = at[i] => c = i
  BY <1>1 DEF Numbered
<1> QED BY <1>1, <1>2 DEF OlderAbove

\* Creating a post changes nothing about those there are.
LEMMA InsertKeeps ==
  ASSUME WalkType, NEW i \in Ids \ Created, Insert(i)
  PROVE  /\ WalkType'
         /\ \A k \in Created : k \in Created' /\ at'[k] = at[k]
  <1>1. Cardinality(Created) \in Nat
    BY PaginationAssumption, FS_Subset, FS_CardinalityType DEF Created
  <1>2. at' \in [Ids -> Nat] /\ at'[i] > 0 /\ \A k \in Ids \ {i} : at'[k] = at[k]
    BY <1>1 DEF Insert, WalkType
  <1>3. Created' = Created \cup {i}
    BY <1>2 DEF Created
  <1>4. \A k \in Created : k \in Created' /\ at'[k] = at[k]
    BY <1>2, <1>3 DEF Created
  <1>5. WalkType'
    BY <1>2, <1>3 DEF WalkType, Insert, iter, history
  <1> QED BY <1>4, <1>5

\* Posts are numbered in the order of their creation.
LEMMA InsertNumbers ==
  ASSUME WalkType, Numbered, NEW i \in Ids \ Created, Insert(i)
  PROVE  Numbered'
  <1>1. Created \in SUBSET Created /\ i \notin Created
    OBVIOUS
  <1>2. IsFiniteSet(Created) /\ Cardinality(Created) \in Nat
    BY CreatedIsFinite
  <1>3. /\ at'[i] = Cardinality(Created) + 1
        /\ \A k \in Ids \ {i} : at'[k] = at[k]
    BY DEF Insert, WalkType
  <1>4. Created' = Created \cup {i}
    BY <1>2, <1>3 DEF Created
  <1>5. Cardinality(Created') = Cardinality(Created) + 1
    BY <1>2, <1>4, FS_AddElement
  <1>6. \A k \in Created : at'[k] = at[k]
    BY <1>3 DEF Created
  <1>7. \A k \in Created : /\ at[k] \in Nat /\ at[k] <= Cardinality(Created)
                          /\ \A j \in Created : at[k] = at[j] => k = j
    BY DEF Numbered
  <1>8. \A k \in Created' : /\ at'[k] \in Nat /\ at'[k] <= Cardinality(Created')
                           /\ \A j \in Created' : at'[k] = at'[j] => k = j
    BY <1>2, <1>3, <1>4, <1>5, <1>6, <1>7
  <1> QED BY <1>8 DEF Numbered

\* Receiving any rows the query matches keeps the invariant.
LEMMA ReceiveKeeps ==
  ASSUME WalkInv, AtPageEnd, NEW n, Receive(Newest(Matching, n))
  PROVE  WalkInv'
  <1> DEFINE got == Newest(Matching, n)
             page == Page(got)
             items == Items(page)
  <1>1. page \subseteq rows /\ \A i \in page : cursor = None \/ i < cursor
    BY PageMatches DEF Matching
  <1>2. cursor' = None \/ (cursor' \in page /\ \A j \in page : at[cursor'] <= at[j])
    BY CursorOnPage DEF Receive
  <1>3. rows' = rows /\ at' = at /\ reader' = reader /\ Created' = Created
    BY DEF Receive, table, Created
  <1>4. done' = ~HasMore(cursor')
    BY DEF Receive
  <1>5. buffer = {}
    BY DEF AtPageEnd
  <1>6. page \subseteq Created /\ page \subseteq Ids
    BY <1>1 DEF WalkInv, WalkType, Created
  <1>n. Numbered /\ Numbered'
    BY <1>3 DEF WalkInv, Numbered
  <1>7. CASE items = {}
    <2>1. UNCHANGED <<buffer, seen, again>>
      BY <1>7 DEF Receive
    <2>2. WalkType'
      BY <1>2, <1>3, <1>4, <1>6, <2>1 DEF WalkInv, WalkType, HasMore
    <2>3. cursor' # None => seen = {}
      <3>1. CASE cursor' # None
        <4>1. reader = "sdk"
          BY <1>2, <1>7, <3>1 DEF Items
        <4> QED BY <4>1 DEF WalkInv, SdkSeesNothing
      <3> QED BY <3>1
    <2>4. FirstPage'
      BY <1>4, <2>1 DEF FirstPage, HasMore
    <2>5. AboveCursor'
      BY <1>3, <1>5, <2>1, <2>3 DEF WalkInv, AboveCursor, OlderAbove
    <2>6. SdkSeesNothing'
      BY <1>3, <2>1 DEF WalkInv, SdkSeesNothing
    <2> QED BY <1>n, <2>2, <2>4, <2>5, <2>6 DEF WalkInv
  <1>8. CASE items # {}
    <2>0. items = page /\ reader = "own"
      BY <1>8, Decoded DEF WalkInv
    <2>1. PICK i \in page : /\ buffer' = page \ {i}
                            /\ seen' = seen \cup {i}
                            /\ again' = IF i \in seen THEN again \cup {i} ELSE again
      BY <1>8, <2>0 DEF Receive, Return
    <2>2. WalkType'
      BY <1>2, <1>3, <1>4, <1>6, <2>1 DEF WalkInv, WalkType, HasMore
    <2>3. FirstPage'
      BY <1>4 DEF FirstPage, HasMore
    <2>4. ASSUME NEW j \in page, j \in seen PROVE OlderAbove(j, seen)
      <3>1. CASE cursor = None
        BY <2>4, <3>1, <1>5 DEF WalkInv, FirstPage, AtPageEnd
      <3>2. CASE cursor # None
        <4>1. j < cursor
          BY <3>2, <1>1
        <4>2. cursor <= j \/ OlderAbove(j, seen \cup buffer)
          BY <2>4, <3>2 DEF WalkInv, AboveCursor
        <4>3. cursor \in Nat /\ j \in Nat
          <5>1. j \in Ids
            BY <1>6
          <5> QED BY <3>2, <5>1, PaginationAssumption DEF WalkInv, WalkType
        <4>4. seen \cup buffer = seen
          BY <1>5
        <4> HIDE DEF page
        <4> QED BY <4>1, <4>2, <4>3, <4>4
      <3> QED BY <3>1, <3>2
    <2>5. ASSUME cursor' # None, NEW j \in seen' \cup buffer'
          PROVE  cursor' <= j \/ OlderAbove(j, seen' \cup buffer')
      <3>0. seen' \cup buffer' = seen \cup page
        BY <2>1
      <3>1. CASE j \in page
        <4>1. cursor' <= j \/ OlderAbove(j, page)
          BY <1>2, <1>6, <1>n, <2>5, <3>1, OldestOrInverted DEF WalkInv
        <4> QED BY <3>0, <4>1 DEF OlderAbove
      <3>2. CASE j \in seen /\ cursor = None
        BY <3>2, <1>5 DEF WalkInv, FirstPage, AtPageEnd
      <3>3. CASE j \in seen /\ cursor # None
        <4>1. cursor' \in Nat /\ cursor \in Nat /\ cursor' <= cursor
          <5>1. cursor' \in page
            BY <2>5, <1>2
          <5>2. cursor' < cursor
            BY <3>3, <5>1, <1>1
          <5>3. cursor' \in Nat /\ cursor \in Nat
            BY <3>3, <5>1, <1>6, PaginationAssumption DEF WalkInv, WalkType
          <5> QED BY <5>2, <5>3
        <4>2. j \in Nat /\ (cursor <= j \/ OlderAbove(j, seen \cup buffer))
          BY <3>3, PaginationAssumption
          DEF WalkInv, WalkType, AboveCursor, Created
        <4>3. OlderAbove(j, seen \cup buffer) => OlderAbove(j, seen' \cup buffer')
          BY <1>5, <3>0 DEF OlderAbove
        <4> QED BY <4>1, <4>2, <4>3
      <3> QED BY <3>0, <3>1, <3>2, <3>3
    <2>6. AboveCursor'
      <3>2. \A j : OlderAbove(j, seen) => OlderAbove(j, seen')
        BY <2>1 DEF OlderAbove
      <3>3. \A j \in again' : OlderAbove(j, seen')
        BY <2>1, <2>4, <3>2 DEF WalkInv, AboveCursor
      <3>4. \A j \in buffer' \cap seen' : OlderAbove(j, seen')
        BY <2>1, <2>4, <3>2
      <3>5. cursor' # None => \A j \in seen' \cup buffer' :
              cursor' <= j \/ OlderAbove(j, seen' \cup buffer')
        BY <2>5
      <3> QED BY <1>3, <3>3, <3>4, <3>5 DEF AboveCursor, OlderAbove
    <2>7. SdkSeesNothing'
      BY <1>3, <2>0 DEF SdkSeesNothing
    <2> QED BY <1>n, <2>2, <2>3, <2>6, <2>7 DEF WalkInv
  <1> QED BY <1>7, <1>8

\* WalkInv is an invariant.
THEOREM WalkInductive == Spec => []WalkInv
  <1>1. Init => WalkInv
    <2> SUFFICES ASSUME Init PROVE WalkInv
      OBVIOUS
    <2>1. at \in [Ids -> Nat] /\ Created = {}
      BY DEF Init, Created
    <2>2. WalkType /\ Numbered
      BY <2>1 DEF Init, WalkType, Numbered
    <2>3. FirstPage /\ AboveCursor /\ SdkSeesNothing
      BY Zenon DEF Init, FirstPage, AboveCursor, SdkSeesNothing
    <2> QED BY <2>2, <2>3 DEF WalkInv
  <1>2. WalkInv /\ [Next]_vars => WalkInv'
    <2> SUFFICES ASSUME WalkInv, [Next]_vars PROVE WalkInv'
      OBVIOUS
    <2>0. ASSUME UNCHANGED <<reader, at, cursor, buffer, done, seen, again>>,
                 rows' \subseteq rows
          PROVE  WalkInv'
      BY <2>0
      DEF WalkInv, WalkType, Numbered, FirstPage, SdkSeesNothing, AboveCursor,
          OlderAbove, Created
    <2>1. CASE ReturnBuffered
      <3>1. PICK i \in buffer :
               /\ buffer' = buffer \ {i}
               /\ seen' = seen \cup {i}
               /\ again' = IF i \in seen THEN again \cup {i} ELSE again
        BY <2>1 DEF ReturnBuffered, Return
      <3>2. UNCHANGED <<reader, rows, at, cursor, done>> /\ Created' = Created
        BY <2>1 DEF ReturnBuffered, table, Created
      <3>3. WalkType' /\ Numbered'
        BY <3>1, <3>2 DEF WalkInv, WalkType, Numbered
      <3>4. FirstPage' /\ SdkSeesNothing'
        BY <3>1, <3>2 DEF WalkInv, FirstPage, SdkSeesNothing
      <3>5. AboveCursor'
        <4>1. seen' \cup buffer' = seen \cup buffer
          BY <3>1
        <4>2. \A k : OlderAbove(k, seen) => OlderAbove(k, seen')
          BY <3>1 DEF OlderAbove
        <4>3. \A k \in again' : OlderAbove(k, seen')
          BY <3>1, <4>2 DEF WalkInv, AboveCursor
        <4>4. \A k \in buffer' \cap seen' : OlderAbove(k, seen')
          BY <3>1, <4>2 DEF WalkInv, AboveCursor
        <4>5. cursor # None => \A k \in seen' \cup buffer' :
                cursor <= k \/ OlderAbove(k, seen' \cup buffer')
          BY <4>1 DEF WalkInv, AboveCursor
        <4> QED BY <3>2, <4>3, <4>4, <4>5 DEF AboveCursor, OlderAbove
      <3> QED BY <3>3, <3>4, <3>5 DEF WalkInv
    <2>2. CASE Exhausted
      BY <2>0, <2>2 DEF Exhausted, table, history
    <2>3. CASE Fetch
      BY <2>3, ReceiveKeeps DEF Fetch
    <2>4. CASE FetchCutShort
      BY <2>4, ReceiveKeeps DEF FetchCutShort
    <2>5. CASE FetchFails
      BY <2>0, <2>5 DEF FetchFails, table, history
    <2>6. ASSUME NEW i \in Ids \ Created, Insert(i) PROVE WalkInv'
      <3>1. UNCHANGED <<reader, cursor, buffer, done, seen, again>>
        BY <2>6 DEF Insert, iter, history
      <3>2. WalkType' /\ \A k \in Created : at'[k] = at[k]
        BY <2>6, InsertKeeps DEF WalkInv
      <3>3. Numbered'
        BY <2>6, InsertNumbers DEF WalkInv
      <3>4. FirstPage' /\ SdkSeesNothing'
        BY <3>1 DEF WalkInv, FirstPage, SdkSeesNothing
      <3>5. again \subseteq seen
        BY DEF WalkInv, WalkType
      <3>6. AboveCursor'
        <4>1. seen \subseteq Created /\ buffer \subseteq Created
              /\ again \subseteq Created
          BY <3>5 DEF WalkInv, WalkType
        <4> QED BY <3>1, <3>2, <4>1 DEF WalkInv, AboveCursor, OlderAbove
      <3> QED BY <3>2, <3>3, <3>4, <3>6 DEF WalkInv
    <2>7. ASSUME NEW i \in rows, Delete(i) PROVE WalkInv'
      BY <2>0, <2>7 DEF Delete, iter
    <2>8. CASE UNCHANGED vars
      BY <2>0, <2>8 DEF vars
    <2> QED
      BY <2>1, <2>2, <2>3, <2>4, <2>5, <2>6, <2>7, <2>8 DEF Next, Walk
  <1> QED BY <1>1, <1>2, PTL DEF Spec

-----------------------------------------------------------------------------
\* In whatever order the IDs were drawn, a post is returned twice only beside
\* an older one with a larger ID.
THEOREM RepeatsAreInversions == Spec => []RepeatsExplained
  <1>1. WalkInv => RepeatsExplained
    BY DEF WalkInv, AboveCursor, OlderAbove, RepeatsExplained
  <1> QED BY <1>1, WalkInductive, PTL

\* In any order of IDs each page after the first lies below its cursor and
\* the pages are used up, so a walk cannot go round in circles.
THEOREM Descent == Spec => WalkAdvances
  <1> DEFINE Advance ==
        \/ UNCHANGED iter
        \/ ended = "no" /\ ended' # "no"
        \/ /\ UNCHANGED <<cursor, done, ended>>
           /\ buffer' \subseteq buffer /\ buffer' # buffer
        \/ UNCHANGED ended /\ ~done /\ done'
        \/ /\ UNCHANGED <<done, ended>> /\ cursor' # None
           /\ cursor # None => cursor' < cursor
  <1>1. WalkInv /\ [Next]_vars => [Advance]_vars
    <2> SUFFICES ASSUME WalkInv, Next PROVE Advance
      OBVIOUS
    <2>1. CASE ReturnBuffered
      <3>1. PICK i \in buffer : buffer' = buffer \ {i}
        BY <2>1 DEF ReturnBuffered, Return
      <3> QED BY <2>1, <3>1 DEF ReturnBuffered
    <2>2. CASE Exhausted \/ FetchFails
      BY <2>2 DEF Exhausted, FetchFails, AtPageEnd
    <2>3. ASSUME NEW n, AtPageEnd, Receive(Newest(Matching, n)) PROVE Advance
      <3>1. cursor' \in NextCursor(Newest(Matching, n)) /\ done' = ~HasMore(cursor')
        BY <2>3 DEF Receive
      <3>2. ended = "no" /\ ~done /\ (ended' = "end" \/ UNCHANGED ended)
        BY <2>3 DEF Receive, AtPageEnd
      <3>3. CASE ~HasMore(cursor')
        BY <3>1, <3>2, <3>3
      <3>4. CASE HasMore(cursor')
        <4>0. cursor' # None
          BY <3>4 DEF HasMore
        <4>1. cursor' \in Matching
          BY <3>1, <4>0, CursorOnPage, PageMatches
        <4>2. cursor # None => cursor' < cursor
          BY <4>1 DEF Matching
        <4>3. done' = FALSE /\ done = FALSE
          BY <3>1, <3>2, <3>4 DEF WalkInv, WalkType
        <4> QED BY <3>2, <4>0, <4>2, <4>3
      <3> QED BY <3>3, <3>4
    <2>4. CASE Fetch
      BY <2>3, <2>4 DEF Fetch
    <2>5. CASE FetchCutShort
      BY <2>3, <2>5 DEF FetchCutShort
    <2>6. ASSUME NEW i \in Ids, Insert(i) \/ Delete(i) PROVE Advance
      BY <2>6 DEF Insert, Delete
    <2>7. rows \subseteq Ids
      BY DEF WalkInv, WalkType, Created
    <2> HIDE DEF Advance
    <2> QED BY <2>1, <2>2, <2>4, <2>5, <2>6, <2>7 DEF Next, Walk
  <1> QED BY <1>1, WalkInductive, PTL DEF Spec, WalkAdvances

-----------------------------------------------------------------------------
(* Completeness                                                            *)

\* The items of S that a page sorted by time lists before i.
Above(S, i) == {j \in S : at[j] > at[i]}

\* A walk that reads the server's fields ends after a page without a cursor.
Endings ==
  /\ ended \in {"no", "end", "error"}
  /\ reader = "own" /\ done => cursor = None
  /\ ended = "end" => buffer = {} /\ (reader = "own" => done)

\* What was there throughout is returned, buffered, still below the cursor, or
\* was passed over for a newer item with a smaller ID.
Covered ==
  reader = "own" /\ ~cut =>
    \A i \in stable :
      \/ i \in seen \cup buffer
      \/ cursor # None /\ i < cursor
      \/ NewerBelow(i, seen \cup buffer)

CoverInv ==
  /\ Endings
  /\ Covered
  /\ stable \subseteq rows /\ cut \in BOOLEAN
  /\ Cardinality(buffer) < Limit

\* The later an item was created the fewer are listed before it.
LEMMA AboveShrinks ==
  ASSUME WalkType, NEW S \in SUBSET Created, NEW i \in S, NEW j \in S,
         at[i] <= at[j]
  PROVE  /\ Above(S, j) \subseteq Above(S, i)
         /\ Cardinality(Above(S, j)) \in Nat /\ Cardinality(Above(S, i)) \in Nat
         /\ Cardinality(Above(S, j)) <= Cardinality(Above(S, i))
  <1>1. Above(S, j) \subseteq Above(S, i)
    BY DEF Above, WalkType, Created
  <1>2. Above(S, i) \subseteq Created /\ Above(S, j) \subseteq Created
    BY DEF Above
  <1> QED BY <1>1, <1>2, CreatedIsFinite, FS_Subset

\* A limit of n that leaves out anything lets at least n rows through: those
\* listed before the newest one left out.
LEMMA LimitIsReached ==
  ASSUME WalkType, NEW S \in SUBSET Created, NEW n \in Nat, Newest(S, n) # S
  PROVE  n <= Cardinality(Newest(S, n))
  <1> DEFINE T == S \ Newest(S, n)
             A == {Above(S, i) : i \in T}
  <1>1. T # {} /\ \A i \in T : ~(Cardinality(Above(S, i)) < n)
    BY DEF Newest, Above
  <1>2. A # {} /\ A \subseteq FiniteSubsetsOf(S)
    BY <1>1, CreatedIsFinite DEF Above, FiniteSubsetsOf
  <1>3. IsWellFoundedOn(StrictSubsetOrdering(S), FiniteSubsetsOf(S))
    BY FS_StrictSubsetOrderingWellFounded
  <1>4. \E x \in A : \A y \in A : ~(<<y, x>> \in StrictSubsetOrdering(S))
    <2> HIDE DEF A
    <2> QED BY <1>2, <1>3, WFMin
  <1>5. PICK i \in T : \A j \in T :
          ~(<<Above(S, j), Above(S, i)>> \in StrictSubsetOrdering(S))
    BY <1>4
  <1>6. Above(S, i) \subseteq Newest(S, n)
    <2> SUFFICES ASSUME NEW j \in Above(S, i), j \in T PROVE FALSE
      BY DEF Above
    <2>1. at[j] > at[i] /\ at[j] \in Nat /\ at[i] \in Nat /\ j \in S /\ i \in S
      BY DEF Above, WalkType, Created
    <2>2. Above(S, j) \subseteq Above(S, i)
      BY <2>1, AboveShrinks
    <2>3. j \in Above(S, i) /\ j \notin Above(S, j)
      BY <2>1 DEF Above
    <2>4. <<Above(S, j), Above(S, i)>> \in StrictSubsetOrdering(S)
      BY <2>2, <2>3 DEF Above, StrictSubsetOrdering
    <2> QED BY <1>5, <2>4
  <1>7. Newest(S, n) \subseteq Created /\ Above(S, i) \subseteq Created
    BY DEF Newest, Above
  <1>8. Cardinality(Above(S, i)) <= Cardinality(Newest(S, n))
    BY <1>6, <1>7, CreatedIsFinite, FS_Subset
  <1>9. ~(Cardinality(Above(S, i)) < n)
    BY <1>1
  <1> HIDE DEF T
  <1> QED BY <1>7, <1>8, <1>9, CreatedIsFinite

\* A page has at most Limit items: if it was trimmed, those before its last
\* and the last.
LEMMA PageIsBounded ==
  ASSUME WalkType, Numbered, NEW got \in SUBSET Created, NEW c \in NextCursor(got)
  PROVE  IsFiniteSet(Page(got)) /\ Cardinality(Page(got)) <= Limit
  <1>1. CASE ~More(got)
    BY <1>1, CreatedIsFinite, PaginationAssumption DEF More, Page
  <1>2. CASE More(got)
    <2>1. c \in Page(got) /\ \A j \in Page(got) : at[c] <= at[j]
      BY <1>2 DEF NextCursor, Last
    <2>2. Page(got) = {i \in got : Cardinality(Above(got, i)) < Limit}
      BY <1>2 DEF Page, Newest, Above
    <2>3. Page(got) \ {c} \subseteq Above(got, c)
      BY <2>1, <2>2 DEF Numbered, Above
    <2>4. Cardinality(Above(got, c)) < Limit
      BY <2>1, <2>2
    <2>5. Above(got, c) \subseteq Created /\ Page(got) \subseteq Created
      BY <2>2 DEF Above
    <2>6. /\ IsFiniteSet(Page(got)) /\ Cardinality(Page(got)) \in Nat
          /\ IsFiniteSet(Above(got, c)) /\ Cardinality(Above(got, c)) \in Nat
      BY <2>5, CreatedIsFinite
    <2>7. Cardinality(Page(got) \ {c}) = Cardinality(Page(got)) - 1
      BY <2>1, <2>6, FS_RemoveElement
    <2>8. Cardinality(Page(got) \ {c}) <= Cardinality(Above(got, c))
      BY <2>3, <2>6, FS_Subset
    <2> QED BY <2>4, <2>6, <2>7, <2>8, PaginationAssumption
  <1> QED BY <1>1, <1>2

\* A matching row is on the page, or below the next cursor, or older than the
\* cursor's post and above it.
LEMMA NothingSkipped ==
  ASSUME WalkType, NEW c \in NextCursor(Newest(Matching, Limit + 1)),
         NEW i \in Matching
  PROVE  \/ i \in Page(Newest(Matching, Limit + 1))
         \/ c # None /\ i < c
         \/ NewerBelow(i, Page(Newest(Matching, Limit + 1)))
  <1> DEFINE got == Newest(Matching, Limit + 1)
  <1>1. Matching \subseteq Created /\ got \subseteq Matching
    BY DEF Matching, WalkType, Newest
  <1>2. CASE ~More(got)
    <2>1. Cardinality(got) <= Limit /\ Cardinality(got) \in Nat
      BY <1>1, <1>2, CreatedIsFinite, PaginationAssumption DEF More
    <2>2. got = Matching
      <3>1. SUFFICES ASSUME got # Matching PROVE FALSE
        OBVIOUS
      <3>2. Limit + 1 \in Nat
        BY PaginationAssumption
      <3>3. Limit + 1 <= Cardinality(got)
        BY <1>1, <3>1, <3>2, LimitIsReached
      <3> HIDE DEF got
      <3> QED BY <2>1, <3>3, PaginationAssumption
    <2> QED BY <1>2, <2>2 DEF Page
  <1>3. CASE More(got)
    <2> SUFFICES ASSUME i \notin Page(got)
                 PROVE  (c # None /\ i < c) \/ NewerBelow(i, Page(got))
      OBVIOUS
    <2>1. c \in Page(got) /\ Page(got) = {j \in got : Cardinality(Above(got, j)) < Limit}
      BY <1>3 DEF NextCursor, Last, Page, Newest, Above
    <2>2. /\ c \in got /\ c \in Created /\ i \in Created
          /\ c \in Nat /\ i \in Nat /\ at[c] \in Nat /\ at[i] \in Nat /\ c # None
      BY <1>1, <2>1, PaginationAssumption DEF WalkType, Created
    <2>3. at[i] < at[c]
      <3>1. SUFFICES ASSUME at[c] <= at[i] PROVE FALSE
        BY <2>2
      <3>2. CASE i \in got
        <4>1. ~(Cardinality(Above(got, i)) < Limit)
          BY <2>1, <3>2
        <4>2. Cardinality(Above(got, c)) < Limit
          BY <2>1
        <4>3. got \in SUBSET Created
          BY <1>1
        <4> HIDE DEF got
        <4>4. /\ Cardinality(Above(got, i)) \in Nat /\ Cardinality(Above(got, c)) \in Nat
              /\ Cardinality(Above(got, i)) <= Cardinality(Above(got, c))
          BY <4>3, <2>2, <3>1, <3>2, AboveShrinks
        <4> QED BY <4>1, <4>2, <4>4, PaginationAssumption
      <3>3. CASE i \notin got
        <4>1. got = {j \in Matching : Cardinality(Above(Matching, j)) < Limit + 1}
          BY DEF Newest, Above
        <4>2. /\ ~(Cardinality(Above(Matching, i)) < Limit + 1)
              /\ Cardinality(Above(Matching, c)) < Limit + 1
              /\ c \in Matching
          BY <4>1, <3>3, <2>2
        <4>3. /\ Cardinality(Above(Matching, i)) \in Nat
              /\ Cardinality(Above(Matching, c)) \in Nat
              /\ Cardinality(Above(Matching, i)) <= Cardinality(Above(Matching, c))
          BY <1>1, <4>2, <3>1, AboveShrinks
        <4> QED BY <4>2, <4>3, PaginationAssumption
      <3> QED BY <3>2, <3>3
    <2>4. c # i
      BY <2>2, <2>3
    <2>5. CASE c < i
      BY <2>1, <2>3, <2>5 DEF NewerBelow
    <2>6. CASE ~(c < i)
      BY <2>2, <2>4, <2>6
    <2> QED BY <2>5, <2>6
  <1> QED BY <1>2, <1>3

\* Receiving any rows the query matches keeps all but Covered.
LEMMA ReceiveKeepsShape ==
  ASSUME WalkInv, CoverInv, AtPageEnd, NEW n, Receive(Newest(Matching, n))
  PROVE  Endings' /\ stable' \subseteq rows' /\ Cardinality(buffer') < Limit
  <1> DEFINE got == Newest(Matching, n)
             page == Page(got)
             items == Items(page)
  <1>1. got \in SUBSET Created /\ page \subseteq got
    BY DEF Newest, Matching, WalkInv, WalkType, Page
  <1>2. IsFiniteSet(page) /\ Cardinality(page) <= Limit
    BY <1>1, PageIsBounded DEF WalkInv, Receive
  <1>3. rows' = rows /\ reader' = reader
    BY DEF Receive, table
  <1>4. done' = ~HasMore(cursor') /\ stable' \subseteq rows'
    BY <1>3 DEF Receive, CoverInv
  <1>5. cursor' = None \/ cursor' \in page
    BY CursorOnPage DEF Receive
  <1>6. buffer = {} /\ ended = "no"
    BY DEF AtPageEnd
  <1>7. CASE items = {}
    <2>1. UNCHANGED <<buffer, seen, again>> /\ ended' = "end"
      BY <1>7 DEF Receive
    <2>2. reader = "own" => cursor' = None
      BY <1>5, <1>7 DEF Items
    <2>3. Endings'
      BY <1>3, <1>4, <1>6, <2>1, <2>2 DEF Endings, HasMore
    <2> QED BY <1>4, <2>1, <2>3 DEF CoverInv
  <1>8. CASE items # {}
    <2>0. items = page
      BY <1>8, Decoded DEF WalkInv
    <2>1. PICK i \in page : buffer' = page \ {i}
      BY <1>8, <2>0 DEF Receive, Return
    <2>2. ended' = ended
      BY <1>8 DEF Receive
    <2>3. Cardinality(buffer') = Cardinality(page) - 1 /\ Cardinality(page) \in Nat
      BY <1>2, <2>1, FS_RemoveElement, FS_CardinalityType
    <2>4. Cardinality(buffer') < Limit
      <3> HIDE DEF page
      <3> QED BY <1>2, <2>3, PaginationAssumption
    <2>5. Endings'
      BY <1>3, <1>4, <1>6, <2>2 DEF Endings, HasMore
    <2> QED BY <1>4, <2>4, <2>5
  <1> QED BY <1>7, <1>8

LEMMA FetchCovers ==
  ASSUME WalkInv, CoverInv, Fetch
  PROVE  Covered'
  <1> DEFINE page == Page(Newest(Matching, Limit + 1))
  <1>1. AtPageEnd /\ Receive(Newest(Matching, Limit + 1)) /\ cut' = cut
    BY DEF Fetch
  <1>2. at' = at /\ reader' = reader /\ buffer = {}
    BY <1>1 DEF Receive, table, AtPageEnd
  <1>3. reader = "own" => seen' \cup buffer' = seen \cup page
    BY <1>1, <1>2 DEF Receive, Return, Items
  <1> SUFFICES ASSUME reader = "own", ~cut, NEW i \in stable'
               PROVE  \/ i \in seen \cup page
                      \/ cursor' # None /\ i < cursor'
                      \/ NewerBelow(i, seen \cup page)
    BY <1>1, <1>2, <1>3 DEF Covered, NewerBelow
  <1>4. i \in seen \/ i \in Matching \/ NewerBelow(i, seen)
    <2>1. CASE cursor = None
      BY <1>1, <2>1 DEF Receive, Matching
    <2>2. CASE cursor # None
      <3>1. i \in stable /\ i \in rows
        BY <1>1, <2>2 DEF Receive, CoverInv
      <3>2. seen \cup buffer = seen
        BY <1>2
      <3>3. i \in seen \/ i < cursor \/ NewerBelow(i, seen)
        BY <3>1, <3>2 DEF CoverInv, Covered
      <3> QED BY <3>1, <3>3 DEF Matching
    <2> QED BY <2>1, <2>2
  <1>5. i \in Matching => \/ i \in page
                          \/ cursor' # None /\ i < cursor'
                          \/ NewerBelow(i, page)
    BY <1>1, NothingSkipped DEF WalkInv, Receive
  <1>6. NewerBelow(i, seen) \/ NewerBelow(i, page) => NewerBelow(i, seen \cup page)
    BY DEF NewerBelow
  <1> HIDE DEF page
  <1> QED BY <1>4, <1>5, <1>6

\* CoverInv is an invariant.
THEOREM CoverInductive == Spec => []CoverInv
  <1>1. Init => CoverInv
    <2> SUFFICES ASSUME Init PROVE CoverInv
      OBVIOUS
    <2>1. Endings /\ Covered
      BY DEF Init, Endings, Covered
    <2>2. Cardinality(buffer) < Limit
      BY FS_EmptySet, PaginationAssumption DEF Init
    <2> QED BY <2>1, <2>2 DEF Init, CoverInv
  <1>2. WalkInv /\ CoverInv /\ [Next]_vars => CoverInv'
    <2> SUFFICES ASSUME WalkInv, CoverInv, [Next]_vars PROVE CoverInv'
      OBVIOUS
    <2>0. ASSUME UNCHANGED <<reader, at, cursor, buffer, done, ended, seen, cut>>,
                 stable' \subseteq stable, stable' \subseteq rows'
          PROVE  CoverInv'
      BY <2>0 DEF CoverInv, Endings, Covered, NewerBelow
    <2>1. CASE ReturnBuffered
      <3>1. PICK i \in buffer : buffer' = buffer \ {i} /\ seen' = seen \cup {i}
        BY <2>1 DEF ReturnBuffered, Return
      <3>2. /\ UNCHANGED <<reader, rows, at, cursor, done, ended, stable, cut>>
            /\ ended = "no"
        BY <2>1 DEF ReturnBuffered, table
      <3>3. Endings'
        BY <3>2 DEF CoverInv, Endings
      <3>4. Covered'
        <4>1. seen' \cup buffer' = seen \cup buffer
          BY <3>1
        <4> QED BY <3>2, <4>1 DEF CoverInv, Covered, NewerBelow
      <3>5. Cardinality(buffer') < Limit
        <4>1. IsFiniteSet(buffer) /\ Cardinality(buffer) \in Nat
          BY CreatedIsFinite DEF WalkInv, WalkType
        <4>2. Cardinality(buffer') = Cardinality(buffer) - 1
          BY <3>1, <4>1, FS_RemoveElement
        <4> QED BY <4>1, <4>2, PaginationAssumption DEF CoverInv
      <3> QED BY <3>2, <3>3, <3>4, <3>5 DEF CoverInv
    <2>2. CASE Exhausted
      BY <2>2
      DEF Exhausted, CoverInv, Endings, Covered, NewerBelow, table, history
    <2>3. CASE Fetch
      BY <2>3, ReceiveKeepsShape, FetchCovers DEF Fetch, CoverInv
    <2>4. CASE FetchCutShort
      <3>1. cut' = TRUE /\ Covered'
        BY <2>4 DEF FetchCutShort, Covered
      <3> QED BY <2>4, <3>1, ReceiveKeepsShape DEF FetchCutShort, CoverInv
    <2>5. CASE FetchFails
      BY <2>5
      DEF FetchFails, CoverInv, Endings, Covered, NewerBelow, table, history
    <2>6. ASSUME NEW i \in Ids \ Created, Insert(i) PROVE CoverInv'
      <3>1. /\ UNCHANGED <<reader, cursor, buffer, done, ended, seen, stable, cut>>
            /\ rows \subseteq rows'
        BY <2>6 DEF Insert, iter, history
      <3>2. \A k \in Created : at'[k] = at[k]
        BY <2>6, InsertKeeps DEF WalkInv
      <3>3. stable \subseteq Created /\ seen \cup buffer \subseteq Created
        BY DEF WalkInv, WalkType, CoverInv
      <3>4. Covered'
        BY <3>1, <3>2, <3>3 DEF CoverInv, Covered, NewerBelow
      <3> QED BY <3>1, <3>4 DEF CoverInv, Endings
    <2>7. ASSUME NEW i \in rows, Delete(i) PROVE CoverInv'
      <3>1. /\ UNCHANGED <<reader, at, cursor, buffer, done, ended, seen, cut>>
            /\ stable' \subseteq stable
        BY <2>7 DEF Delete, iter
      <3>2. stable' \subseteq rows'
        BY <2>7 DEF Delete, CoverInv
      <3> QED BY <2>0, <3>1, <3>2
    <2>8. CASE UNCHANGED vars
      <3>1. stable' = stable /\ rows' = rows /\ stable \subseteq rows
        BY <2>8 DEF vars, CoverInv
      <3> QED BY <2>0, <2>8, <3>1 DEF vars
    <2> QED
      BY <2>1, <2>2, <2>3, <2>4, <2>5, <2>6, <2>7, <2>8 DEF Next, Walk
  <1> QED BY <1>1, <1>2, WalkInductive, PTL DEF Spec

\* A page in the walker's hands always has fewer items than the limit, and
\* what it remembers are posts that were created.
THEOREM TypeCorrect == Spec => []TypeOK
  <1>1. WalkInv /\ CoverInv => TypeOK
    <2> SUFFICES ASSUME WalkInv, CoverInv PROVE TypeOK
      OBVIOUS
    <2>1. Created \subseteq Ids
      BY DEF Created
    <2> QED BY <2>1 DEF WalkInv, WalkType, CoverInv, Endings, TypeOK
  <1> QED BY <1>1, WalkInductive, CoverInductive, PTL

\* In whatever order the IDs were drawn, a walk that ends without error has
\* missed a post that was there throughout only beside a newer one with a
\* smaller ID, after a page cut short, or by way of the SDK's Page.
THEOREM MissesAreInversions == Spec => []MissesExplained
  <1>1. WalkInv /\ CoverInv => MissesExplained
    <2> SUFFICES ASSUME WalkInv, CoverInv, ended = "end", ~cut,
                        NEW i \in stable \ seen
                 PROVE  \/ reader = "sdk" /\ seen = {}
                        \/ \E j \in seen : j < i /\ at[i] < at[j]
      BY DEF MissesExplained
    <2>1. CASE reader = "sdk"
      BY <2>1 DEF WalkInv, SdkSeesNothing
    <2>2. CASE reader = "own"
      <3>1. cursor = None /\ buffer = {}
        BY <2>2 DEF CoverInv, Endings
      <3>2. seen \cup buffer = seen
        BY <3>1
      <3>3. NewerBelow(i, seen)
        BY <2>2, <3>1, <3>2 DEF CoverInv, Covered
      <3> QED BY <3>3 DEF NewerBelow
    <2> QED BY <2>1, <2>2 DEF WalkInv, WalkType
  <1> QED BY <1>1, WalkInductive, CoverInductive, PTL
=============================================================================
