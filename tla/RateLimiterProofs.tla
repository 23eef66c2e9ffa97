-------------------------- MODULE RateLimiterProofs --------------------------
(***************************************************************************)
(* Proofs about RateLimiter, for any number of requests, any limits and any*)
(* length of a minute.                                                     *)
(***************************************************************************)
EXTENDS RateLimiter, FiniteSetTheorems, TLAPS

Counting == {"expire", "decide", "served", "refused", "lost"}

\* INCR hands out every number once in a life of the key, in ascending order.
CountsInOrder ==
  \A r \in Requests : reqs[r].pc \in Counting =>
    /\ reqs[r].count >= 1
    /\ reqs[r].life <= life
    /\ reqs[r].life = life /\ key.count > 0 => reqs[r].count <= key.count

CountsDiffer ==
  \A r, q \in Requests :
    /\ reqs[r].pc \in Counting /\ reqs[q].pc \in Counting
    /\ r # q /\ reqs[r].life = reqs[q].life
    => reqs[r].count # reqs[q].count

ServedInBudget ==
  \A r \in Requests : reqs[r].pc = "served" => reqs[r].count <= reqs[r].limit

IInv ==
  /\ TypeOK
  /\ CountsInOrder
  /\ CountsDiffer
  /\ ServedInBudget
  /\ CounterExpires

-----------------------------------------------------------------------------
LEMMA InitIInv == Init => IInv
<1> SUFFICES ASSUME Init PROVE IInv
  OBVIOUS
<1>1. now \in Nat
  BY RateLimiterAssumption DEF Init
<1>2. PICK plan \in [Requests -> Limits] :
        reqs = [r \in Requests |-> [pc |-> "new", limit |-> plan[r],
                                   count |-> 0, life |-> 0, at |-> 0]]
  BY DEF Init
<1>3. reqs \in [Requests -> Request]
  BY <1>2 DEF Request
<1>4. TypeOK
  BY <1>1, <1>3 DEF Init, TypeOK, Key, NoKey
<1>5. \A r \in Requests : reqs[r].pc = "new"
  BY <1>2
<1>6. CountsInOrder /\ CountsDiffer /\ ServedInBudget
  BY <1>5 DEF CountsInOrder, CountsDiffer, ServedInBudget, Counting
<1>7. CounterExpires
  BY DEF Init, NoKey, CounterExpires
<1> QED BY <1>4, <1>6, <1>7 DEF IInv

\* What an INCR that took effect n times does to the key.
LEMMA CountedType ==
  ASSUME TypeOK, NEW n \in Nat \ {0}, Counted(n)
  PROVE  /\ key.count \in Nat /\ life \in Nat /\ LifeNow \in Nat
         /\ key' \in Key /\ key'.count = key.count + n /\ key'.due = key.due
         /\ life' = LifeNow
         /\ LifeNow = IF key.count = 0 THEN life + 1 ELSE life
<1>1. key.count \in Nat /\ key.due \in Nat \cup {Never} /\ life \in Nat
  BY DEF TypeOK, Key, NoKey
<1>2. key' = [count |-> key.count + n, due |-> key.due]
  BY DEF TypeOK, Key, NoKey, Counted
<1>3. key.count + n \in Nat \ {0}
  BY <1>1
<1>4. key' \in [count : Nat \ {0}, due : Nat \cup {Never}]
  BY <1>1, <1>2, <1>3
<1>5. key' \in Key
  BY <1>4 DEF Key
<1> QED BY <1>1, <1>2, <1>5 DEF Counted, LifeNow

\* A request is counted: it gets a number no other request of the life has.
LEMMA CountedRequest ==
  ASSUME IInv, NEW r \in Requests, NEW n \in {1, 2}, Counted(n),
         NEW pc \in {"expire", "decide"},
         Numbered(r, pc, key.count + n),
         now' = now,
         unarmed \subseteq unarmed', unarmed' \in SUBSET Nat,
         key.count = 0 => pc = "expire" \/ LifeNow \in unarmed',
         reqs[r].pc = "new"
  PROVE  IInv'
<1>1. /\ key.count \in Nat /\ life \in Nat /\ LifeNow \in Nat
      /\ key' \in Key /\ key'.count = key.count + n /\ key'.due = key.due
      /\ life' = LifeNow
      /\ LifeNow = IF key.count = 0 THEN life + 1 ELSE life
  BY CountedType DEF IInv
<1>2. now \in Nat /\ reqs \in [Requests -> Request]
  BY DEF IInv, TypeOK
<1> DEFINE x == [reqs[r] EXCEPT !.pc = pc, !.count = key.count + n,
                                !.life = LifeNow, !.at = now]
<1>3. /\ x \in Request /\ x.pc = pc /\ x.count = key.count + n
      /\ x.life = LifeNow
  <2>1. key.count + n \in Nat /\ LifeNow \in Nat /\ now \in Nat
    BY <1>1, <1>2
  <2>2. pc \in {"new", "expire", "decide", "served", "refused", "open", "lost"}
    OBVIOUS
  <2> QED BY <1>2, <2>1, <2>2 DEF Request
<1>0. reqs' = [reqs EXCEPT ![r] = x]
  BY DEF Numbered
<1> HIDE DEF x
<1>4. reqs'[r] = x /\ \A q \in Requests \ {r} : reqs'[q] = reqs[q]
  BY <1>0, <1>2
<1>5. TypeOK'
  BY <1>0, <1>1, <1>2, <1>3 DEF IInv, TypeOK
<1>6. \A q \in Requests \ {r} : reqs[q].pc \in Counting =>
        /\ reqs[q].count \in Nat /\ reqs[q].count >= 1 /\ reqs[q].life <= life
        /\ reqs[q].life = LifeNow => reqs[q].count <= key.count
  BY <1>1, <1>2 DEF IInv, CountsInOrder, Request
<1>7. \A q \in Requests : reqs[q].life \in Nat
  BY <1>2 DEF Request
<1>8. CountsInOrder'
  BY <1>1, <1>3, <1>4, <1>6, <1>7 DEF CountsInOrder
<1>9. CountsDiffer'
  BY <1>1, <1>3, <1>4, <1>6 DEF IInv, CountsDiffer
<1>10. ServedInBudget'
  BY <1>3, <1>4 DEF IInv, ServedInBudget
<1>11. CounterExpires'
  BY <1>1, <1>3, <1>4 DEF IInv, CounterExpires
<1> QED BY <1>5, <1>8, <1>9, <1>10, <1>11 DEF IInv

\* A request moves on with the number it has.
LEMMA MoveFrame ==
  ASSUME IInv, NEW r \in Requests,
         NEW pc \in {"decide", "served", "refused", "open", "lost"},
         reqs' = [reqs EXCEPT ![r].pc = pc],
         pc \in Counting => reqs[r].pc \in Counting,
         pc = "served" => reqs[r].count <= reqs[r].limit,
         UNCHANGED <<now, life>>, key' \in Key,
         key'.count = key.count, unarmed' \in SUBSET Nat,
         CounterExpires'
  PROVE  IInv'
<1>1. reqs \in [Requests -> Request]
  BY DEF IInv, TypeOK
<1>2. /\ reqs'[r].pc = pc /\ reqs'[r].count = reqs[r].count
      /\ reqs'[r].life = reqs[r].life /\ reqs'[r].limit = reqs[r].limit
      /\ \A q \in Requests \ {r} : reqs'[q] = reqs[q]
  BY <1>1 DEF Request
<1>3. TypeOK'
  BY <1>1 DEF IInv, TypeOK, Request
<1>4. CountsInOrder' /\ CountsDiffer' /\ ServedInBudget'
  BY <1>2 DEF IInv, CountsInOrder, CountsDiffer, ServedInBudget
<1> QED BY <1>3, <1>4 DEF IInv

LEMMA TickStep == ASSUME IInv, Tick PROVE IInv'
<1>1. key' \in {key, NoKey} /\ now \in Nat /\ now' = now + 1
      /\ UNCHANGED <<life, reqs, unarmed>>
  BY DEF Tick, IInv, TypeOK
<1>2. TypeOK'
  BY <1>1 DEF IInv, TypeOK, Key
<1>3. CountsInOrder' /\ CountsDiffer' /\ ServedInBudget' /\ CounterExpires'
  BY <1>1 DEF IInv, CountsInOrder, CountsDiffer, ServedInBudget,
              CounterExpires, NoKey
<1> QED BY <1>2, <1>3 DEF IInv

\* INCR with an error: the key may be counted, the request is let through.
LEMMA IncrFailsStep ==
  ASSUME IInv, NEW r \in Requests, IncrFails(r) PROVE IInv'
<1>1. reqs \in [Requests -> Request]
  BY DEF IInv, TypeOK
<1>2. /\ reqs[r].pc = "new" /\ reqs'[r].pc = "open"
      /\ \A q \in Requests \ {r} : reqs'[q] = reqs[q]
      /\ reqs' \in [Requests -> Request] /\ now' = now
  BY <1>1 DEF IncrFails, Request
<1>3. CASE UNCHANGED <<key, life, unarmed>>
  <2>1. TypeOK'
    BY <1>2, <1>3 DEF IInv, TypeOK
  <2>2. CountsInOrder' /\ CountsDiffer' /\ ServedInBudget'
    BY <1>2, <1>3
    DEF IInv, CountsInOrder, CountsDiffer, ServedInBudget, Counting
  <2>3. CounterExpires'
    BY <1>2, <1>3 DEF IInv, CounterExpires
  <2> QED BY <2>1, <2>2, <2>3 DEF IInv
<1>4. CASE /\ Counted(1)
           /\ unarmed' = IF key.count = 0 THEN unarmed \cup {life + 1}
                                          ELSE unarmed
  <2>1. /\ key.count \in Nat /\ life \in Nat /\ LifeNow \in Nat
        /\ key' \in Key /\ key'.count = key.count + 1 /\ key'.due = key.due
        /\ life' = LifeNow
        /\ LifeNow = IF key.count = 0 THEN life + 1 ELSE life
    BY <1>4, CountedType DEF IInv
  <2>2. TypeOK'
    BY <1>2, <1>4, <2>1 DEF IInv, TypeOK
  <2>3. \A q \in Requests : /\ reqs[q].life \in Nat /\ reqs[q].count \in Nat
    BY <1>1 DEF Request
  <2>4. CountsInOrder'
    BY <1>2, <2>1, <2>3 DEF IInv, CountsInOrder, Counting
  <2>5. CountsDiffer' /\ ServedInBudget'
    BY <1>2 DEF IInv, CountsDiffer, ServedInBudget, Counting
  <2>6. CounterExpires'
    BY <1>2, <1>4, <2>1 DEF IInv, CounterExpires
  <2> QED BY <2>2, <2>4, <2>5, <2>6 DEF IInv
<1> QED BY <1>3, <1>4 DEF IncrFails

LEMMA RequestSteps ==
  ASSUME IInv, NEW r \in Requests,
         \/ Incr(r) \/ Expire(r) \/ Decide(r)
         \/ IncrRepeated(r) \/ ExpireFails(r) \/ ReplicaDies(r)
  PROVE  IInv'
<1>1. /\ key \in Key /\ key.count \in Nat /\ now \in Nat /\ life \in Nat
      /\ unarmed \in SUBSET Nat /\ reqs[r].life \in Nat
      /\ reqs \in [Requests -> Request]
  BY DEF IInv, TypeOK, Key, NoKey, Request
<1>2. CASE Incr(r)
  <2> DEFINE pc == IF key.count = 0 THEN "expire" ELSE "decide"
  <2>1. pc \in {"expire", "decide"} /\ (key.count = 0 => pc = "expire")
    OBVIOUS
  <2>2. Numbered(r, pc, key.count + 1)
    BY <1>2 DEF Incr
  <2> HIDE DEF pc
  <2> QED BY <1>1, <1>2, <2>1, <2>2, CountedRequest DEF Incr
<1>3. CASE IncrRepeated(r)
  <2>1. /\ unarmed' \in SUBSET Nat /\ unarmed \subseteq unarmed'
        /\ key.count = 0 => LifeNow \in unarmed'
    BY <1>1, <1>3 DEF IncrRepeated, LifeNow
  <2> QED BY <1>3, <2>1, CountedRequest DEF IncrRepeated
<1>4. CASE Expire(r)
  <2>1. /\ key' \in Key /\ key'.count = key.count
        /\ key.count > 0 => key'.due # Never
    <3>1. now + Minute \in Nat /\ Never \notin Nat
      BY <1>1, RateLimiterAssumption
    <3> QED BY <1>1, <1>4, <3>1 DEF Expire, Key, NoKey
  <2>2. CounterExpires'
    BY <2>1 DEF CounterExpires
  <2> QED BY <1>1, <1>4, <2>1, <2>2, MoveFrame DEF Expire, Counting
<1>5. CASE ExpireFails(r)
  <2>1. CounterExpires'
    BY <1>1, <1>5 DEF ExpireFails, IInv, CounterExpires
  <2> QED BY <1>1, <1>5, <2>1, MoveFrame DEF ExpireFails, Counting
<1>6. CASE Decide(r)
  <2> DEFINE pc == IF reqs[r].count <= reqs[r].limit THEN "served"
                                                     ELSE "refused"
  <2>1. /\ pc \in {"served", "refused"}
        /\ pc = "served" => reqs[r].count <= reqs[r].limit
    OBVIOUS
  <2>2. reqs' = [reqs EXCEPT ![r].pc = pc] /\ reqs[r].pc = "decide"
        /\ UNCHANGED <<now, key, life, unarmed>>
    BY <1>6 DEF Decide
  <2> HIDE DEF pc
  <2>3. CounterExpires'
    BY <1>1, <2>1, <2>2 DEF IInv, CounterExpires
  <2> QED BY <1>1, <2>1, <2>2, <2>3, MoveFrame DEF Counting
<1>7. CASE ReplicaDies(r)
  <2>1. unarmed' \in SUBSET Nat
    BY <1>1, <1>7 DEF ReplicaDies
  <2>2. CounterExpires'
    BY <1>1, <1>7 DEF ReplicaDies, IInv, CounterExpires
  <2> QED BY <1>1, <1>7, <2>1, <2>2, MoveFrame DEF ReplicaDies, Counting
<1> QED BY <1>2, <1>3, <1>4, <1>5, <1>6, <1>7

-----------------------------------------------------------------------------
\* The inductive invariant of the limiter.
THEOREM RateLimiterInductive == Spec => []IInv
<1>1. IInv /\ [Next]_vars => IInv'
  <2> SUFFICES ASSUME IInv, [Next]_vars PROVE IInv'
    OBVIOUS
  <2>1. CASE UNCHANGED vars
    BY <2>1 DEF vars, IInv, TypeOK, CountsInOrder, CountsDiffer,
                ServedInBudget, CounterExpires
  <2>2. CASE Next
    BY <2>2, TickStep, RequestSteps, IncrFailsStep DEF Next
  <2> QED BY <2>1, <2>2
<1> QED BY <1>1, InitIInv, PTL DEF Spec

\* Requests of one life carry different numbers: those served with a number
\* from a to n are n - a + 1 at most.
LEMMA CountBound ==
  ASSUME IInv, NEW l \in Nat, NEW S \in SUBSET Served(l),
         NEW a \in {1, 2}, NEW n \in Nat \ {0},
         \A r \in S : reqs[r].count >= a /\ reqs[r].count <= n
  PROVE  IsFiniteSet(S) /\ Cardinality(S) \in Nat
         /\ Cardinality(S) <= n - a + 1
<1> DEFINE f == [r \in S |-> reqs[r].count]
<1>1. \A r \in S : reqs[r].count \in a .. n
  BY DEF IInv, TypeOK, Request, Served
<1>2. \A r, q \in S : reqs[r].count = reqs[q].count => r = q
  BY DEF IInv, Served, CountsDiffer, Counting
<1>3. f \in Injection(S, a .. n)
  BY <1>1, <1>2 DEF Injection, IsInjective
<1>4. IsFiniteSet(a .. n) /\ Cardinality(a .. n) = n - a + 1
  BY FS_Interval
<1> HIDE DEF f
<1>5. IsFiniteSet(S) /\ Cardinality(S) <= Cardinality(a .. n)
  BY <1>3, <1>4, FS_Injection
<1> QED BY <1>4, <1>5, FS_CardinalityType

\* No life of the counter lets more requests through than the plan allows.
THEOREM BudgetKept == Spec => []AtMostLimit
<1>1. ASSUME IInv PROVE AtMostLimit
  <2> SUFFICES ASSUME NEW l \in 1 .. life, NEW n \in Limits
               PROVE  Cardinality({r \in Served(l) : reqs[r].limit <= n}) <= n
    BY DEF AtMostLimit
  <2> DEFINE S == {r \in Served(l) : reqs[r].limit <= n}
  <2>1. l \in Nat /\ n \in Nat \ {0}
    BY <1>1, RateLimiterAssumption DEF IInv, TypeOK
  <2>2. \A r \in S : reqs[r].count >= 1 /\ reqs[r].count <= n
    <3> SUFFICES ASSUME NEW r \in S
                 PROVE  reqs[r].count >= 1 /\ reqs[r].count <= n
      OBVIOUS
    <3>1. reqs[r].limit \in Nat /\ reqs[r].count \in Nat
      BY <1>1, RateLimiterAssumption DEF IInv, TypeOK, Request, Served
    <3>2. reqs[r].count >= 1 /\ reqs[r].count <= reqs[r].limit
      BY <1>1 DEF IInv, CountsInOrder, ServedInBudget, Served, Counting
    <3> QED BY <2>1, <3>1, <3>2
  <2> HIDE DEF S
  <2>3. S \in SUBSET Served(l)
    BY DEF S
  <2>4. Cardinality(S) <= n - 1 + 1
    BY <1>1, <2>1, <2>2, <2>3, CountBound
  <2> QED BY <2>1, <2>4 DEF S
<1> QED BY <1>1, RateLimiterInductive, PTL

\* A counter that would never expire is one whose EXPIRE was lost.
THEOREM OnlyLostExpiriesStick == Spec => []CounterExpires
<1>1. IInv => CounterExpires
  BY DEF IInv
<1> QED BY <1>1, RateLimiterInductive, PTL

\* Type correctness.
THEOREM TypeCorrect == Spec => []TypeOK
<1>1. IInv => TypeOK
  BY DEF IInv
<1> QED BY <1>1, RateLimiterInductive, PTL

-----------------------------------------------------------------------------
(* Two lives of the counter that are not neighbours are a minute apart.    *)

\* A request is stamped with a time that is past.  Once its life is over and
\* a later one has an expiry, or has ended too, that is a minute or more after
\* the stamp: the later life's EXPIRE came after it.
Apart ==
  \A r \in Requests : reqs[r].pc \in Counting =>
    /\ reqs[r].at <= now
    /\ reqs[r].life < life /\ key.count = 0 => reqs[r].at + Minute <= now
    /\ reqs[r].life < life /\ key.due # Never => reqs[r].at + Minute <= key.due
    /\ reqs[r].life + 2 <= life => reqs[r].at + Minute <= now
    /\ \A q \in Requests :
         reqs[q].pc \in Counting /\ reqs[r].life + 2 <= reqs[q].life
           => reqs[r].at + Minute <= reqs[q].at

\* What the steps below need of the types.
LEMMA Numbers ==
  ASSUME IInv
  PROVE  /\ now \in Nat /\ life \in Nat /\ key.count \in Nat
         /\ key.due \in Nat \cup {Never} /\ Minute \in Nat \ {0}
         /\ key.count = 0 => key.due = Never
         /\ \A r \in Requests : reqs[r].life \in Nat /\ reqs[r].at \in Nat
         /\ \A r \in Requests : reqs[r].pc \in Counting => reqs[r].life <= life
<1>1. /\ now \in Nat /\ life \in Nat /\ Minute \in Nat \ {0}
      /\ reqs \in [Requests -> Request]
      /\ key \in Key
  BY RateLimiterAssumption DEF IInv, TypeOK
<1>2. /\ key.count \in Nat /\ key.due \in Nat \cup {Never}
      /\ key.count = 0 => key.due = Never
  BY <1>1 DEF Key, NoKey
<1>3. \A r \in Requests : reqs[r].life \in Nat /\ reqs[r].at \in Nat
  BY <1>1 DEF Request
<1>4. \A r \in Requests : reqs[r].pc \in Counting => reqs[r].life <= life
  BY DEF IInv, CountsInOrder
<1> QED BY <1>1, <1>2, <1>3, <1>4

\* INCR takes effect; the request is stamped, or let through without.
LEMMA CountApart ==
  ASSUME IInv, Apart, NEW r \in Requests, NEW n \in {1, 2}, Counted(n),
         now' = now, reqs' \in [Requests -> Request],
         \A q \in Requests \ {r} : reqs'[q] = reqs[q],
         reqs'[r].pc \in Counting => reqs'[r].life = LifeNow /\ reqs'[r].at = now
  PROVE  Apart'
<1> USE Numbers
<1>1. /\ life' = LifeNow /\ key'.due = key.due /\ key'.count > 0
      /\ LifeNow = IF key.count = 0 THEN life + 1 ELSE life
  <2>1. TypeOK /\ n \in Nat \ {0}
    BY DEF IInv
  <2> QED BY <2>1, CountedType
<1>2. ASSUME NEW q \in Requests \ {r}, reqs[q].pc \in Counting
      PROVE  /\ reqs[q].at <= now
             /\ reqs[q].life < life' /\ key.due # Never
                  => reqs[q].at + Minute <= key.due
             /\ reqs[q].life + 2 <= life' => reqs[q].at + Minute <= now
  <2>1. /\ reqs[q].at <= now /\ reqs[q].life <= life
        /\ reqs[q].life < life /\ key.count = 0 => reqs[q].at + Minute <= now
        /\ reqs[q].life < life /\ key.due # Never
             => reqs[q].at + Minute <= key.due
        /\ reqs[q].life + 2 <= life => reqs[q].at + Minute <= now
    BY <1>2 DEF Apart
  <2>2. CASE key.count = 0
    BY <1>1, <2>1, <2>2
  <2>3. CASE key.count # 0
    BY <1>1, <2>1, <2>3
  <2> QED BY <2>2, <2>3
<1>3. ASSUME NEW q \in Requests, reqs'[q].pc \in Counting
      PROVE  /\ reqs'[q].at <= now
             /\ reqs'[q].life < life' /\ key.due # Never
                  => reqs'[q].at + Minute <= key.due
             /\ reqs'[q].life + 2 <= life' => reqs'[q].at + Minute <= now
             /\ reqs'[q].life <= life'
  <2>1. CASE q = r
    <3>1. /\ reqs'[q].life = life' /\ reqs'[q].at = now
          /\ life' \in Nat /\ now \in Nat
      BY <1>1, <1>3, <2>1
    <3>2. \A k \in Nat : ~(k < k) /\ ~(k + 2 <= k) /\ k <= k
      OBVIOUS
    <3> HIDE Numbers
    <3> QED BY <3>1, <3>2, Zenon
  <2>2. CASE q # r
    <3>1. reqs[q].life <= life /\ life <= life'
      BY <1>1, <1>3, <2>2
    <3>2. reqs'[q] = reqs[q] /\ reqs[q].pc \in Counting
      BY <1>3, <2>2
    <3>3. /\ reqs[q].at <= now
          /\ reqs[q].life < life' /\ key.due # Never
               => reqs[q].at + Minute <= key.due
          /\ reqs[q].life + 2 <= life' => reqs[q].at + Minute <= now
      BY <1>2, <2>2, <3>2
    <3>4. reqs[q].life <= life' /\ reqs[q].life \in Nat /\ life' \in Nat
      BY <1>1, <3>1, <3>2
    <3> HIDE Numbers
    <3> QED BY <3>2, <3>3, <3>4, Zenon
  <2> QED BY <2>1, <2>2
<1>4. ASSUME NEW p \in Requests, NEW q \in Requests,
             reqs'[p].pc \in Counting, reqs'[q].pc \in Counting,
             reqs'[p].life + 2 <= reqs'[q].life
      PROVE  reqs'[p].at + Minute <= reqs'[q].at
  <2>1. p # r
    <3>1. /\ reqs'[q].life <= life' /\ life' \in Nat
          /\ p = r => reqs'[p].life = life'
      BY <1>1, <1>3, <1>4
    <3>2. reqs'[q].life \in Nat
      BY DEF Request
    <3> QED BY <1>4, <3>1, <3>2
  <2>2. CASE q = r
    BY <1>1, <1>3, <1>4, <2>2
  <2>3. CASE q # r
    BY <1>4, <2>1, <2>3 DEF Apart
  <2> QED BY <2>2, <2>3
<1> QED BY <1>1, <1>3, <1>4 DEF Apart

\* A request moves on; EXPIRE may set a new, later expiry.
LEMMA MoveApart ==
  ASSUME IInv, Apart, UNCHANGED <<now, life>>,
         \A q \in Requests :
           reqs'[q].pc \in Counting =>
             /\ reqs[q].pc \in Counting
             /\ reqs'[q].life = reqs[q].life /\ reqs'[q].at = reqs[q].at,
         key'.count = key.count, key'.due \in {key.due, now + Minute}
  PROVE  Apart'
<1> USE Numbers
<1>1. ASSUME NEW q \in Requests, reqs[q].pc \in Counting
      PROVE  /\ reqs[q].at <= now
             /\ reqs[q].life < life /\ key.count = 0 => reqs[q].at + Minute <= now
             /\ reqs[q].life < life /\ key'.due # Never
                  => reqs[q].at + Minute <= key'.due
             /\ reqs[q].life + 2 <= life => reqs[q].at + Minute <= now
  BY <1>1 DEF Apart
<1>2. ASSUME NEW p \in Requests, NEW q \in Requests,
             reqs[p].pc \in Counting, reqs[q].pc \in Counting,
             reqs[p].life + 2 <= reqs[q].life
      PROVE  reqs[p].at + Minute <= reqs[q].at
  BY <1>2 DEF Apart
<1> QED BY <1>1, <1>2 DEF Apart

\* Time passes, and the key expires when it is due.
LEMMA TickApart == ASSUME IInv, Apart, Tick PROVE Apart'
<1> USE Numbers
<1>1. now' = now + 1 /\ UNCHANGED <<life, reqs>>
  BY DEF Tick
<1>2. CASE Expired(key, now + 1)
  <2>1. key' = NoKey /\ key.due # Never /\ key.due <= now'
    BY <1>1, <1>2 DEF Tick, Expired
  <2>2. key'.due = Never
    BY <2>1 DEF NoKey
  <2> QED BY <1>1, <2>1, <2>2 DEF Apart
<1>3. CASE ~Expired(key, now + 1)
  <2>1. key' = key
    BY <1>3 DEF Tick
  <2> QED BY <1>1, <2>1 DEF Apart
<1> QED BY <1>2, <1>3

\* What a request is after it was counted.
LEMMA NumberedType ==
  ASSUME NEW r \in Requests, NEW pc \in {"expire", "decide"},
         NEW c \in Nat, Numbered(r, pc, c),
         reqs \in [Requests -> Request], now \in Nat, LifeNow \in Nat
  PROVE  /\ reqs' \in [Requests -> Request]
         /\ reqs'[r].life = LifeNow /\ reqs'[r].at = now /\ reqs'[r].count = c
         /\ \A q \in Requests \ {r} : reqs'[q] = reqs[q]
<1> DEFINE x == [reqs[r] EXCEPT !.pc = pc, !.count = c,
                                !.life = LifeNow, !.at = now]
<1>1. /\ x \in Request /\ x.life = LifeNow /\ x.at = now /\ x.count = c
  BY DEF Request
<1>2. reqs' = [reqs EXCEPT ![r] = x]
  BY DEF Numbered
<1> HIDE DEF x
<1> QED BY <1>1, <1>2

\* The steps of a request are of these forms.
LEMMA StepsApart ==
  ASSUME IInv, Apart, NEW r \in Requests,
         \/ Incr(r) \/ Expire(r) \/ Decide(r)
         \/ IncrRepeated(r) \/ IncrFails(r) \/ ExpireFails(r) \/ ReplicaDies(r)
  PROVE  Apart'
<1>1. reqs \in [Requests -> Request]
  BY DEF IInv, TypeOK
<1>2. now \in Nat /\ LifeNow \in Nat /\ key.count \in Nat
  BY Numbers DEF LifeNow
<1>3. CASE Incr(r) \/ IncrRepeated(r)
  <2>1. PICK n \in {1, 2}, pc \in {"expire", "decide"} :
          Counted(n) /\ now' = now /\ Numbered(r, pc, key.count + n)
    BY <1>3 DEF Incr, IncrRepeated
  <2>3. /\ reqs' \in [Requests -> Request]
        /\ reqs'[r].life = LifeNow /\ reqs'[r].at = now
        /\ \A q \in Requests \ {r} : reqs'[q] = reqs[q]
    BY <1>1, <1>2, <2>1, NumberedType
  <2> QED BY <2>1, <2>3, CountApart
<1>4. CASE IncrFails(r)
  <2>1. /\ reqs' \in [Requests -> Request] /\ reqs'[r].pc \notin Counting
        /\ \A q \in Requests \ {r} : reqs'[q] = reqs[q]
        /\ now' = now
    BY <1>1, <1>4 DEF IncrFails, Request, Counting
  <2>2. CASE Counted(1)
    BY <2>1, <2>2, CountApart
  <2>3. CASE UNCHANGED <<key, life, unarmed>>
    BY <2>1, <2>3, MoveApart
  <2> QED BY <1>4, <2>2, <2>3 DEF IncrFails
<1>5. CASE Expire(r) \/ Decide(r) \/ ExpireFails(r) \/ ReplicaDies(r)
  <2>1. \A q \in Requests :
          reqs'[q].pc \in Counting =>
            /\ reqs[q].pc \in Counting
            /\ reqs'[q].life = reqs[q].life /\ reqs'[q].at = reqs[q].at
    BY <1>1, <1>5
    DEF Expire, Decide, ExpireFails, ReplicaDies, Request, Counting
  <2>2. UNCHANGED <<now, life>>
    BY <1>5 DEF Expire, Decide, ExpireFails, ReplicaDies
  <2>3. key \in Key
    BY DEF IInv, TypeOK
  <2>4. key'.count = key.count /\ key'.due \in {key.due, now + Minute}
    BY <1>5, <2>3 DEF Expire, Decide, ExpireFails, ReplicaDies, Key, NoKey
  <2> QED BY <2>1, <2>2, <2>4, MoveApart
<1> QED BY <1>3, <1>4, <1>5

\* Lives that are not neighbours stay a minute apart.
LEMMA ApartInductive == Spec => []Apart
<1>1. Init => Apart
  <2> SUFFICES ASSUME Init PROVE Apart
    OBVIOUS
  <2>1. \A r \in Requests : reqs[r].pc \notin Counting
    BY DEF Init, Counting
  <2> QED BY <2>1 DEF Apart
<1>2. IInv /\ Apart /\ [Next]_vars => Apart'
  <2> SUFFICES ASSUME IInv, Apart, [Next]_vars PROVE Apart'
    OBVIOUS
  <2>1. CASE UNCHANGED vars
    BY <2>1 DEF vars, Apart
  <2>2. CASE Next
    BY <2>2, TickApart, StepsApart DEF Next
  <2> QED BY <2>1, <2>2
<1> QED BY <1>1, <1>2, RateLimiterInductive, PTL DEF Spec

-----------------------------------------------------------------------------
(* The request that began a life is a minute before the next one.          *)

\* The first number of a life is given when the life begins, and its expiry
\* is a minute later at the earliest.
FirstApart ==
  \A r \in Requests : reqs[r].pc \in Counting /\ reqs[r].count = 1 =>
    /\ key.count = 0 \/ reqs[r].life < life => reqs[r].at + Minute <= now
    /\ key.due # Never => reqs[r].at + Minute <= key.due
    /\ \A q \in Requests :
         reqs[q].pc \in Counting /\ reqs[r].life < reqs[q].life
           => reqs[r].at + Minute <= reqs[q].at

\* INCR takes effect: number 1 is given only when there is no key.
LEMMA CountFirst ==
  ASSUME IInv, FirstApart, NEW r \in Requests, NEW n \in {1, 2}, Counted(n),
         now' = now, reqs' \in [Requests -> Request],
         \A q \in Requests \ {r} : reqs'[q] = reqs[q],
         reqs'[r].pc \in Counting =>
           /\ reqs'[r].life = LifeNow /\ reqs'[r].at = now
           /\ reqs'[r].count = key.count + n
  PROVE  FirstApart'
<1> USE Numbers
<1>1. /\ life' = LifeNow /\ key'.due = key.due /\ key'.count > 0
      /\ LifeNow = IF key.count = 0 THEN life + 1 ELSE life
  <2>1. TypeOK /\ n \in Nat \ {0}
    BY DEF IInv
  <2> QED BY <2>1, CountedType
<1>2. ASSUME NEW q \in Requests \ {r}, reqs[q].pc \in Counting,
             reqs[q].count = 1
      PROVE  /\ reqs[q].life < life' => reqs[q].at + Minute <= now
             /\ key.due # Never => reqs[q].at + Minute <= key.due
  <2>1. /\ key.count = 0 \/ reqs[q].life < life => reqs[q].at + Minute <= now
        /\ key.due # Never => reqs[q].at + Minute <= key.due
    BY <1>2 DEF FirstApart
  <2> QED BY <1>1, <2>1
<1>3. ASSUME NEW q \in Requests, reqs'[q].pc \in Counting
      PROVE  reqs'[q].life <= life'
  BY <1>1, <1>3
<1>4. ASSUME reqs'[r].pc \in Counting, reqs'[r].count = 1
      PROVE  key.due = Never /\ reqs'[r].life = life'
  BY <1>1, <1>4
<1>5. ASSUME NEW p \in Requests, reqs'[p].pc \in Counting,
             reqs'[p].count = 1
      PROVE  /\ key'.count = 0 \/ reqs'[p].life < life' =>
                  reqs'[p].at + Minute <= now'
             /\ key'.due # Never => reqs'[p].at + Minute <= key'.due
  <2>1. CASE p = r
    <3>1. reqs'[p].life = life' /\ key'.due = Never /\ life' \in Nat
      BY <1>1, <1>4, <1>5, <2>1
    <3>2. \A k \in Nat : ~(k < k)
      OBVIOUS
    <3> QED BY <1>1, <3>1, <3>2
  <2>2. CASE p # r
    BY <1>1, <1>2, <1>5, <2>2
  <2> QED BY <2>1, <2>2
<1>6. ASSUME NEW p \in Requests, NEW q \in Requests,
             reqs'[p].pc \in Counting, reqs'[p].count = 1,
             reqs'[q].pc \in Counting, reqs'[p].life < reqs'[q].life
      PROVE  reqs'[p].at + Minute <= reqs'[q].at
  <2>1. p # r
    <3>1. reqs'[q].life <= life' /\ life' \in Nat /\ reqs'[q].life \in Nat
      BY <1>1, <1>3, <1>6 DEF Request
    <3>2. p = r => reqs'[p].life = life'
      BY <1>4, <1>6
    <3> QED BY <1>6, <3>1, <3>2
  <2>2. CASE q = r
    BY <1>1, <1>2, <1>6, <2>1, <2>2
  <2>3. CASE q # r
    BY <1>6, <2>1, <2>3 DEF FirstApart
  <2> QED BY <2>2, <2>3
<1> QED BY <1>5, <1>6 DEF FirstApart

\* A request moves on; EXPIRE may set a new, later expiry.
LEMMA MoveFirst ==
  ASSUME IInv, Apart, FirstApart, UNCHANGED <<now, life>>,
         \A q \in Requests :
           reqs'[q].pc \in Counting =>
             /\ reqs[q].pc \in Counting /\ reqs'[q].count = reqs[q].count
             /\ reqs'[q].life = reqs[q].life /\ reqs'[q].at = reqs[q].at,
         key'.count = key.count, key'.due \in {key.due, now + Minute}
  PROVE  FirstApart'
<1> USE Numbers
<1>1. ASSUME NEW q \in Requests, reqs[q].pc \in Counting, reqs[q].count = 1
      PROVE  /\ key.count = 0 \/ reqs[q].life < life =>
                  reqs[q].at + Minute <= now
             /\ key'.due # Never => reqs[q].at + Minute <= key'.due
  BY <1>1 DEF FirstApart, Apart
<1>2. ASSUME NEW p \in Requests, NEW q \in Requests,
             reqs[p].pc \in Counting, reqs[p].count = 1,
             reqs[q].pc \in Counting, reqs[p].life < reqs[q].life
      PROVE  reqs[p].at + Minute <= reqs[q].at
  BY <1>2 DEF FirstApart
<1> QED BY <1>1, <1>2 DEF FirstApart

\* Time passes, and the key expires when it is due.
LEMMA TickFirst == ASSUME IInv, FirstApart, Tick PROVE FirstApart'
<1> USE Numbers
<1>1. now' = now + 1 /\ UNCHANGED <<life, reqs>>
  BY DEF Tick
<1>2. CASE Expired(key, now + 1)
  <2>1. key' = NoKey /\ key.due # Never /\ key.due <= now'
    BY <1>1, <1>2 DEF Tick, Expired
  <2>2. key'.due = Never
    BY <2>1 DEF NoKey
  <2> QED BY <1>1, <2>1, <2>2 DEF FirstApart
<1>3. CASE ~Expired(key, now + 1)
  <2>1. key' = key
    BY <1>3 DEF Tick
  <2> QED BY <1>1, <2>1 DEF FirstApart
<1> QED BY <1>2, <1>3

LEMMA StepsFirst ==
  ASSUME IInv, Apart, FirstApart, NEW r \in Requests,
         \/ Incr(r) \/ Expire(r) \/ Decide(r)
         \/ IncrRepeated(r) \/ IncrFails(r) \/ ExpireFails(r) \/ ReplicaDies(r)
  PROVE  FirstApart'
<1>1. reqs \in [Requests -> Request]
  BY DEF IInv, TypeOK
<1>2. now \in Nat /\ LifeNow \in Nat /\ key.count \in Nat
  BY Numbers DEF LifeNow
<1>3. CASE Incr(r) \/ IncrRepeated(r)
  <2>1. PICK n \in {1, 2}, pc \in {"expire", "decide"} :
          Counted(n) /\ now' = now /\ Numbered(r, pc, key.count + n)
    BY <1>3 DEF Incr, IncrRepeated
  <2>2. key.count + n \in Nat
    BY <1>2
  <2>3. /\ reqs' \in [Requests -> Request]
        /\ reqs'[r].life = LifeNow /\ reqs'[r].at = now
        /\ reqs'[r].count = key.count + n
        /\ \A q \in Requests \ {r} : reqs'[q] = reqs[q]
    BY <1>1, <1>2, <2>1, <2>2, NumberedType
  <2> QED BY <2>1, <2>3, CountFirst
<1>4. CASE IncrFails(r)
  <2>1. /\ reqs' \in [Requests -> Request] /\ reqs'[r].pc \notin Counting
        /\ \A q \in Requests \ {r} : reqs'[q] = reqs[q]
        /\ now' = now
    BY <1>1, <1>4 DEF IncrFails, Request, Counting
  <2>2. CASE Counted(1)
    BY <2>1, <2>2, CountFirst
  <2>3. CASE UNCHANGED <<key, life, unarmed>>
    BY <2>1, <2>3, MoveFirst
  <2> QED BY <1>4, <2>2, <2>3 DEF IncrFails
<1>5. CASE Expire(r) \/ Decide(r) \/ ExpireFails(r) \/ ReplicaDies(r)
  <2>1. \A q \in Requests :
          reqs'[q].pc \in Counting =>
            /\ reqs[q].pc \in Counting /\ reqs'[q].count = reqs[q].count
            /\ reqs'[q].life = reqs[q].life /\ reqs'[q].at = reqs[q].at
    BY <1>1, <1>5
    DEF Expire, Decide, ExpireFails, ReplicaDies, Request, Counting
  <2>2. UNCHANGED <<now, life>>
    BY <1>5 DEF Expire, Decide, ExpireFails, ReplicaDies
  <2>3. key \in Key
    BY DEF IInv, TypeOK
  <2>4. key'.count = key.count /\ key'.due \in {key.due, now + Minute}
    BY <1>5, <2>3 DEF Expire, Decide, ExpireFails, ReplicaDies, Key, NoKey
  <2> QED BY <2>1, <2>2, <2>4, MoveFirst
<1> QED BY <1>3, <1>4, <1>5

\* The request that began a life stays a minute before the next life.
LEMMA FirstApartInductive == Spec => []FirstApart
<1>1. Init => FirstApart
  <2> SUFFICES ASSUME Init PROVE FirstApart
    OBVIOUS
  <2>1. \A r \in Requests : reqs[r].pc \notin Counting
    BY DEF Init, Counting
  <2> QED BY <2>1 DEF FirstApart
<1>2. IInv /\ Apart /\ FirstApart /\ [Next]_vars => FirstApart'
  <2> SUFFICES ASSUME IInv, Apart, FirstApart, [Next]_vars PROVE FirstApart'
    OBVIOUS
  <2>1. CASE UNCHANGED vars
    BY <2>1 DEF vars, FirstApart
  <2>2. CASE Next
    BY <2>2, TickFirst, StepsFirst DEF Next
  <2> QED BY <2>1, <2>2
<1> QED BY <1>1, <1>2, RateLimiterInductive, ApartInductive, PTL DEF Spec

-----------------------------------------------------------------------------
(* The requests served in one minute.                                      *)

\* The requests served in one minute were counted in two neighbouring lives.
LEMMA TwoLives ==
  ASSUME IInv, Apart, NEW s \in Nat, NEW n \in Nat
  PROVE  \E l \in Nat : InMinute(s, n) \subseteq Served(l) \cup Served(l + 1)
<1> USE Numbers
<1>1. ASSUME NEW r \in InMinute(s, n), NEW q \in InMinute(s, n)
      PROVE  reqs[q].life <= reqs[r].life + 1
  <2>1. /\ reqs[q].at < s + Minute /\ s <= reqs[r].at
        /\ reqs[r].pc = "served" /\ reqs[q].pc = "served"
        /\ r \in Requests /\ q \in Requests
    BY DEF InMinute
  <2>2. ~(reqs[r].at + Minute <= reqs[q].at)
    BY <2>1
  <2>3. ~(reqs[r].life + 2 <= reqs[q].life)
    BY <2>1, <2>2 DEF Apart, Counting
  <2>4. reqs[r].life \in Nat /\ reqs[q].life \in Nat
    BY <2>1
  <2> QED BY <2>3, <2>4
<1>2. \A r \in InMinute(s, n) : r \in Served(reqs[r].life) /\ reqs[r].life \in Nat
  BY DEF Served, InMinute
<1>3. CASE InMinute(s, n) = {}
  BY <1>3
<1>4. ASSUME NEW r \in InMinute(s, n),
             \A q \in InMinute(s, n) : reqs[q].life >= reqs[r].life
      PROVE  \E l \in Nat : InMinute(s, n) \subseteq Served(l) \cup Served(l + 1)
  <2>1. \A q \in InMinute(s, n) : reqs[q].life \in {reqs[r].life, reqs[r].life + 1}
    BY <1>1, <1>2, <1>4
  <2> QED BY <1>2, <2>1
<1>5. ASSUME NEW r \in InMinute(s, n), NEW q \in InMinute(s, n), reqs[q].life < reqs[r].life
      PROVE  \A p \in InMinute(s, n) : reqs[p].life >= reqs[q].life
  <2> SUFFICES ASSUME NEW p \in InMinute(s, n) PROVE reqs[p].life >= reqs[q].life
    OBVIOUS
  <2>1. reqs[r].life <= reqs[p].life + 1
    BY <1>1
  <2> QED BY <1>2, <1>5, <2>1
<1>6. CASE InMinute(s, n) # {}
  <2>1. PICK r : r \in InMinute(s, n)
    BY <1>6
  <2>2. CASE \E q \in InMinute(s, n) : reqs[q].life < reqs[r].life
    BY <1>4, <1>5, <2>1, <2>2
  <2>3. CASE \A q \in InMinute(s, n) : ~(reqs[q].life < reqs[r].life)
    BY <1>2, <1>4, <2>1, <2>3
  <2> QED BY <2>2, <2>3
<1> QED BY <1>3, <1>6

\* A served request has a number within its plan.
LEMMA ServedNumbers ==
  ASSUME IInv, NEW s \in Nat, NEW n \in Nat, NEW r \in InMinute(s, n)
  PROVE  /\ r \in Requests /\ reqs[r].pc \in Counting /\ reqs[r].count \in Nat
         /\ reqs[r].count >= 1 /\ reqs[r].count <= n
         /\ s <= reqs[r].at /\ reqs[r].at < s + Minute
<1>1. reqs[r].limit \in Nat /\ reqs[r].count \in Nat /\ reqs[r].at \in Nat
  BY RateLimiterAssumption DEF IInv, TypeOK, Request, InMinute
<1>2. /\ r \in Requests /\ reqs[r].pc = "served" /\ reqs[r].limit <= n
      /\ reqs[r].at \in s .. s + Minute - 1
  BY DEF InMinute
<1>3. reqs[r].count >= 1 /\ reqs[r].count <= reqs[r].limit
  BY <1>2 DEF IInv, CountsInOrder, ServedInBudget, Counting
<1>4. s <= reqs[r].at /\ reqs[r].at < s + Minute
  BY <1>1, <1>2, RateLimiterAssumption
<1> QED BY <1>1, <1>2, <1>3, <1>4 DEF Counting

\* No minute lets through twice the plan's budget, wherever it starts and
\* however many replicas, lost commands and lives it meets: of the first of
\* two lives number 1 lies before the minute.
THEOREM TwiceAMinute == Spec => []AtMostTwiceAMinute
<1>1. ASSUME IInv, Apart, FirstApart PROVE AtMostTwiceAMinute
  <2> SUFFICES ASSUME NEW s \in 0 .. now, NEW n \in Limits
               PROVE  Cardinality(InMinute(s, n)) < 2 * n
    BY DEF AtMostTwiceAMinute
  <2> DEFINE W == InMinute(s, n)
  <2>1. s \in Nat /\ n \in Nat \ {0}
    BY <1>1, Numbers, RateLimiterAssumption
  <2>2. PICK l \in Nat : W \subseteq Served(l) \cup Served(l + 1)
    BY <1>1, <2>1, TwoLives
  <2> DEFINE A == W \cap Served(l)
             B == W \cap Served(l + 1)
  <2>3. \A r \in W : /\ r \in Requests /\ reqs[r].pc \in Counting
                     /\ reqs[r].count \in Nat
                     /\ reqs[r].count >= 1 /\ reqs[r].count <= n
                     /\ s <= reqs[r].at /\ reqs[r].at < s + Minute
    BY <1>1, <2>1, ServedNumbers
  <2> HIDE DEF W
  <2>4. IsFiniteSet(A) /\ Cardinality(A) \in Nat /\ Cardinality(A) <= n - 1 + 1
    <3> HIDE DEF A
    <3>1. /\ A \in SUBSET Served(l)
          /\ \A r \in A : reqs[r].count >= 1 /\ reqs[r].count <= n
      BY <2>3 DEF A
    <3> QED BY <1>1, <2>1, <3>1, CountBound
  <2>5. IsFiniteSet(B) /\ Cardinality(B) \in Nat /\ Cardinality(B) <= n - 1 + 1
    <3> HIDE DEF B
    <3>1. /\ B \in SUBSET Served(l + 1) /\ l + 1 \in Nat
          /\ \A r \in B : reqs[r].count >= 1 /\ reqs[r].count <= n
      BY <2>3 DEF B
    <3> QED BY <1>1, <2>1, <3>1, CountBound
  <2>6. CASE B = {}
    <3>1. W = A
      BY <2>2, <2>6
    <3> HIDE DEF A
    <3>2. Cardinality(W) < 2 * n
      BY <2>1, <2>4, <3>1
    <3> QED BY <3>2 DEF W
  <2>7. CASE B # {}
    <3>1. PICK q \in B : TRUE
      BY <2>7
    <3>2. \A r \in A : reqs[r].count # 1
      <4> SUFFICES ASSUME NEW r \in A, reqs[r].count = 1 PROVE FALSE
        OBVIOUS
      <4>1. reqs[r].life = l /\ reqs[q].life = l + 1 /\ r \in W /\ q \in W
        BY <3>1 DEF Served
      <4>2. reqs[r].at + Minute <= reqs[q].at
        BY <1>1, <2>3, <4>1 DEF FirstApart
      <4>3. /\ s <= reqs[r].at /\ reqs[q].at < s + Minute
            /\ reqs[r].at \in Nat /\ reqs[q].at \in Nat /\ Minute \in Nat
        BY <1>1, <2>3, <4>1, Numbers
      <4> QED BY <2>1, <4>2, <4>3
    <3>3. Cardinality(A) <= n - 2 + 1
      <4>1. \A r \in A : reqs[r].count >= 2 /\ reqs[r].count <= n
        BY <2>3, <3>2
      <4>2. A \in SUBSET Served(l)
        OBVIOUS
      <4> HIDE DEF A
      <4> QED BY <1>1, <2>1, <4>1, <4>2, CountBound
    <3> HIDE DEF A, B
    <3>4. /\ IsFiniteSet(A \cup B)
          /\ Cardinality(A \cup B) =
                Cardinality(A) + Cardinality(B) - Cardinality(A \cap B)
      BY <2>4, <2>5, FS_Union
    <3>5. Cardinality(A \cap B) \in Nat
      BY <2>4, FS_Intersection, FS_CardinalityType
    <3>6. W = A \cup B
      BY <2>2 DEF A, B
    <3>7. Cardinality(W) < 2 * n
      BY <2>1, <2>4, <2>5, <3>3, <3>4, <3>5, <3>6
    <3> QED BY <3>7 DEF W
  <2> QED BY <2>6, <2>7
<1> QED BY <1>1, RateLimiterInductive, ApartInductive, FirstApartInductive, PTL
=============================================================================
