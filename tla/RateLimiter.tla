----------------------------- MODULE RateLimiter -----------------------------
(***************************************************************************)
(* The request budget of one workspace: RedisRateLimiter.Allow behind the  *)
(* RateLimit middleware, called by requests of any number of API replicas. *)
(*                                                                         *)
(* The counter is one Redis key.  INCR and EXPIRE are separate commands of *)
(* a client that repeats a command whose answer it did not get.  A life of *)
(* the key is the time from the INCR that creates it to its expiry.  Time  *)
(* passes in ticks, Minute of them to the minute.                          *)
(***************************************************************************)
EXTENDS Naturals, FiniteSets

CONSTANTS
  Requests,
  Limits,   \* the requests per minute of the plans in PlanLimits
  Minute,   \* ticks in a minute
  MaxTime,  \* bound on the clock
  Faults,   \* TRUE: Redis commands fail or are repeated, replicas die
  Never

ASSUME RateLimiterAssumption ==
  /\ Limits \subseteq Nat \ {0}
  /\ Minute \in Nat \ {0}
  /\ MaxTime \in Nat
  /\ Faults \in BOOLEAN
  /\ Never \notin Nat

VARIABLES
  now,
  key,      \* the counter, 0 while there is no key, and when it expires
  life,     \* the number of the key's current, or last, life
  reqs,     \* where each request stands in the middleware
  unarmed   \* lives whose EXPIRE failed or was never sent

vars == <<now, key, life, reqs, unarmed>>

-----------------------------------------------------------------------------
NoKey == [count |-> 0, due |-> Never]
Key == [count : Nat \ {0}, due : Nat \cup {Never}] \cup {NoKey}

\* What a request knows: the limit of the plan its workspace row had when the
\* tenant middleware read it, or of "free" when it could not be read; the count
\* INCR gave it; for the history, the life it was counted in and when.
Request == [pc : {"new", "expire", "decide", "served", "refused", "open",
                  "lost"},
            limit : Limits, count : Nat, life : Nat, at : Nat]

TypeOK ==
  /\ now \in Nat
  /\ key \in Key
  /\ life \in Nat
  /\ reqs \in [Requests -> Request]
  /\ unarmed \in SUBSET Nat

Init ==
  /\ now \in 0 .. Minute - 1
  /\ key = NoKey
  /\ life = 0
  /\ \E plan \in [Requests -> Limits] :
       reqs = [r \in Requests |-> [pc |-> "new", limit |-> plan[r],
                                  count |-> 0, life |-> 0, at |-> 0]]
  /\ unarmed = {}

Expired(k, t) == k.due # Never /\ k.due <= t

Tick ==
  /\ now < MaxTime
  /\ now' = now + 1
  /\ key' = IF Expired(key, now + 1) THEN NoKey ELSE key
  /\ UNCHANGED <<life, reqs, unarmed>>

LifeNow == IF key.count = 0 THEN life + 1 ELSE life

Counted(n) ==
  /\ key' = [key EXCEPT !.count = @ + n]
  /\ life' = LifeNow

\* A request is given the number c of the current life.
Numbered(r, next, c) ==
  reqs' = [reqs EXCEPT ![r] = [@ EXCEPT !.pc = next, !.count = c,
                                        !.life = LifeNow, !.at = now]]

\* Mutant: the counter is read, and written back by a second command.
IncrFromRead(r) ==
  /\ reqs[r].pc = "new"
  /\ Counted(1)
  /\ \E c \in 1 .. key.count + 1 :
       Numbered(r, IF c = 1 THEN "expire" ELSE "decide", c)
  /\ UNCHANGED <<now, unarmed>>

\* Mutant: only a refused request sets the expiry.
ExpireWhenRefused(r) ==
  /\ reqs[r].pc = "new"
  /\ Counted(1)
  /\ Numbered(r, IF key.count < reqs[r].limit THEN "decide" ELSE "expire",
              key.count + 1)
  /\ UNCHANGED <<now, unarmed>>

\* INCR returns the new count; whoever gets 1 created the key.
Incr(r) ==
  /\ reqs[r].pc = "new"
  /\ Counted(1)
  /\ Numbered(r, IF key.count = 0 THEN "expire" ELSE "decide", key.count + 1)
  /\ UNCHANGED <<now, unarmed>>

\* The answer to the first INCR of a life was lost: the repeated one returns
\* 2 and nobody sends EXPIRE.
IncrRepeated(r) ==
  /\ Faults
  /\ reqs[r].pc = "new"
  /\ Counted(2)
  /\ Numbered(r, "decide", key.count + 2)
  /\ unarmed' = IF key.count = 0 THEN unarmed \cup {life + 1} ELSE unarmed
  /\ UNCHANGED now

\* An error of INCR, which may have taken effect: the request is let through.
IncrFails(r) ==
  /\ Faults
  /\ reqs[r].pc = "new"
  /\ reqs' = [reqs EXCEPT ![r].pc = "open"]
  /\ \/ UNCHANGED <<key, life, unarmed>>
     \/ /\ Counted(1)
        /\ unarmed' = IF key.count = 0 THEN unarmed \cup {life + 1}
                                       ELSE unarmed
  /\ UNCHANGED now

\* Mutant: a shorter unit in the expiry, time.Second for time.Minute.
ExpireSoon(r) ==
  /\ reqs[r].pc = "expire"
  /\ key' = IF key.count = 0 THEN key ELSE [key EXCEPT !.due = now + 1]
  /\ reqs' = [reqs EXCEPT ![r].pc = "decide"]
  /\ UNCHANGED <<now, life, unarmed>>

\* EXPIRE of a key that is gone has no effect.
Expire(r) ==
  /\ reqs[r].pc = "expire"
  /\ key' = IF key.count = 0 THEN key ELSE [key EXCEPT !.due = now + Minute]
  /\ reqs' = [reqs EXCEPT ![r].pc = "decide"]
  /\ UNCHANGED <<now, life, unarmed>>

\* The error of EXPIRE is not looked at.
ExpireFails(r) ==
  /\ Faults
  /\ reqs[r].pc = "expire"
  /\ reqs' = [reqs EXCEPT ![r].pc = "decide"]
  /\ unarmed' = unarmed \cup {reqs[r].life}
  /\ UNCHANGED <<now, key, life>>

Decide(r) ==
  /\ reqs[r].pc = "decide"
  /\ reqs' = [reqs EXCEPT ![r].pc =
                IF reqs[r].count <= reqs[r].limit THEN "served" ELSE "refused"]
  /\ UNCHANGED <<now, key, life, unarmed>>

\* The replica dies between two commands.
ReplicaDies(r) ==
  /\ Faults
  /\ reqs[r].pc \in {"expire", "decide"}
  /\ reqs' = [reqs EXCEPT ![r].pc = "lost"]
  /\ unarmed' = IF reqs[r].pc = "expire" THEN unarmed \cup {reqs[r].life}
                                         ELSE unarmed
  /\ UNCHANGED <<now, key, life>>

Next ==
  \/ Tick
  \/ \E r \in Requests :
       \/ Incr(r) \/ Expire(r) \/ Decide(r)
       \/ IncrRepeated(r) \/ IncrFails(r) \/ ExpireFails(r) \/ ReplicaDies(r)

Spec == Init /\ [][Next]_vars

-----------------------------------------------------------------------------
(* Properties                                                              *)

Served(l) == {r \in Requests : reqs[r].pc = "served" /\ reqs[r].life = l}

\* No more requests are let through on the count of one life of the key than
\* the plan allows, however the replicas interleave and commands repeat.  When
\* the plan changes, the requests that read a plan of n or less are n at most.
AtMostLimit ==
  \A l \in 1 .. life, n \in Limits :
    Cardinality({r \in Served(l) : reqs[r].limit <= n}) <= n

\* The requests let through on a plan of n or less in the minute from s.
InMinute(s, n) ==
  {r \in Requests : /\ reqs[r].pc = "served" /\ reqs[r].limit <= n
                    /\ reqs[r].at \in s .. s + Minute - 1}

\* In any minute less than twice the limit is counted and let through: the
\* minute touches two lives at most, and if two, the request that began the
\* first of them lies before it.
AtMostTwiceAMinute ==
  \A s \in 0 .. now, n \in Limits : Cardinality(InMinute(s, n)) < 2 * n

\* A counter without expiry, which would refuse the workspace for ever once
\* it passes the limit, has a request about to set one, or its EXPIRE is one
\* that failed, was never sent, or followed a repeated INCR.
CounterExpires ==
  key.count > 0 /\ key.due = Never =>
    life \in unarmed \/ \E r \in Requests : /\ reqs[r].pc = "expire"
                                            /\ reqs[r].life = life

=============================================================================
