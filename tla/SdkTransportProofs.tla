------------------------- MODULE SdkTransportProofs -------------------------
(* What a call of the SDK may do to the server, and how long it waits, for  *)
(* every number of retries, negative ones too.  What it does to the server    *)
(* does not depend on the timer, which has an invariant of its own.         *)
EXTENDS SdkTransport, FiniteSetTheorems, TLAPS

-----------------------------------------------------------------------------
\* The part of TypeOK the argument needs.
CallType ==
  /\ pc \in {"idle", "send", "await", "wait"} \cup Returned
  /\ attempt \in Attempts
  /\ inflight \subseteq Attempts
  /\ effects \subseteq Attempts
  /\ doubtful \subseteq Attempts
  /\ answer \in Answers \cup {None}

\* The server may still act, or has acted, on attempt a.
Known(a) == a \in inflight \cup effects

\* The attempts are numbers from 0.
LEMMA AttemptsAreNumbers ==
  /\ Attempts \subseteq Nat /\ 0 \in Attempts /\ MaxRetries \in Int
  /\ \A a \in Attempts : a < MaxRetries => a + 1 \in Attempts
  /\ MaxRetries >= 0 => \A a \in Attempts : a <= MaxRetries
  BY TransportAssumption DEF Attempts

\* No attempt reaches the server before it is sent, and earlier ones can have
\* done something only if they are doubtful.
Ordered ==
  \A a \in Attempts :
    /\ a > attempt => ~Known(a)
    /\ a < attempt /\ Known(a) => a \in doubtful

\* What each stage knows of the current attempt.
Stage ==
  /\ pc \in {"idle", "send"} => ~Known(attempt)
  /\ pc = "wait" => attempt < MaxRetries /\ (Known(attempt) => attempt \in doubtful)
  /\ pc = "await" /\ answer = None => attempt \in inflight \ effects
  /\ pc = "await" /\ answer # None => attempt \notin inflight
  /\ pc = "await" /\ answer \in {"4xx", "429"} => attempt \notin effects
  /\ pc = "await" /\ answer = "2xx" => attempt \in effects
  /\ pc = "ok" => \/ attempt \in effects
                  \/ MaxRetries < 0 /\ inflight = {} /\ effects = {}
  /\ MaxRetries < 0 => /\ pc \in {"idle", "ok"} /\ attempt = 0
                       /\ inflight = {} /\ effects = {}

CallInv == CallType /\ Ordered /\ Stage

-----------------------------------------------------------------------------
\* The initial state satisfies the invariant.
LEMMA CallInitial == Init => CallInv
  BY TransportAssumption, AttemptsAreNumbers
  DEF Init, CallInv, CallType, Ordered, Stage, Known, Returned, Answers

\* A step of the client's goroutine keeps the invariant.
LEMMA ClientKeeps ==
  ASSUME CallInv, Call \/ Cancel \/ ClientStep \/ DecodeFails \/ AnswerLost
  PROVE  CallInv'
  <1> USE TransportAssumption, AttemptsAreNumbers
      DEF CallInv, CallType, Ordered, Stage, Known, Returned, Answers,
          server, timer
  <1>1. CASE Call
    BY <1>1 DEF Call
  <1>2. CASE Cancel
    BY <1>2 DEF Cancel
  <1>3. CASE Send
    BY <1>3 DEF Send
  <1>4. CASE SendRefused
    BY <1>4 DEF SendRefused, SendError, Sleep
  <1>5. CASE Succeeds
    BY <1>5 DEF Succeeds
  <1>6. CASE Tick
    BY <1>6 DEF Tick
  <1>7. CASE Wake
    BY <1>7 DEF Wake
  <1>8. CASE AnswerLost
    BY <1>8 DEF AnswerLost, SendError, Sleep
  <1>9. CASE DecodeFails
    BY <1>9 DEF DecodeFails
  <1>10. ASSUME NEW after \in RetryAfters \cup {None}, Refused(after)
         PROVE  CallInv'
    BY <1>10 DEF Refused, Sleep, Retryable
  <1> QED
    BY <1>1, <1>2, <1>3, <1>4, <1>5, <1>6, <1>7, <1>8, <1>9, <1>10
    DEF ClientStep

\* The server handling any request it has received keeps the invariant.
LEMMA ServerKeeps ==
  ASSUME CallInv, NEW a \in inflight, NEW code \in Answers, Handle(a, code)
  PROVE  CallInv'
  <1> USE TransportAssumption, AttemptsAreNumbers
      DEF CallInv, CallType, Ordered, Stage, Known, Returned, Answers, timer
  <1>1. a \in Attempts /\ a <= attempt
    OBVIOUS
  <1>2. CallType'
    BY <1>1 DEF Handle
  <1>3. Ordered'
    BY <1>1 DEF Handle
  <1>4. Stage'
    <2>1. CASE a = attempt /\ pc = "await"
      BY <1>1, <2>1 DEF Handle
    <2>2. CASE ~(a = attempt /\ pc = "await")
      BY <1>1, <2>2 DEF Handle
    <2> QED BY <2>1, <2>2
  <1> QED BY <1>2, <1>3, <1>4

\* CallInv is an invariant of every call.
THEOREM CallInductive == Spec => []CallInv
  <1>1. Init => CallInv
    BY CallInitial
  <1>2. CallInv /\ [Next]_vars => CallInv'
    <2> SUFFICES ASSUME CallInv, [Next]_vars PROVE CallInv'
      OBVIOUS
    <2>1. CASE Next
      BY <2>1, ClientKeeps, ServerKeeps DEF Next
    <2>2. CASE UNCHANGED vars
      BY <2>2 DEF vars, CallInv, CallType, Ordered, Stage, Known
    <2> QED BY <2>1, <2>2
  <1> QED BY <1>1, <1>2, PTL DEF Spec

-----------------------------------------------------------------------------
\* DoJSON returns nil only if the server did what the call asked.
THEOREM OkIsDone == Spec => []OkMeansDone
  <1>1. CallInv => OkMeansDone
    BY DEF CallInv, Stage, OkMeansDone
  <1> QED BY <1>1, CallInductive, PTL

\* Whatever took effect on the server before the current attempt, its answer
\* was lost or said 5xx: no acknowledged request is sent again.
THEOREM NoAcknowledgedRepeat == Spec => []RepeatsOnlyDoubt
  <1>1. CallInv => RepeatsOnlyDoubt
    BY AttemptsAreNumbers
    DEF CallInv, CallType, Ordered, Known, RepeatsOnlyDoubt
  <1> QED BY <1>1, CallInductive, PTL

-----------------------------------------------------------------------------
(* The timer.                                                               *)

\* The backoff after attempt n is one whose conversion may overflow.
TooLong(n) == WaitMin * 2 ^ n >= Overflow

\* The client has waited as PausesKept says after attempt n.
Waited(n) ==
  \/ asked # None /\ slept >= asked
  \/ asked = None /\ slept >= WaitMin
  \/ asked = None /\ TooLong(n)

\* While the client waits the timer is the one it was told to keep; only a
\* context that is done, under which nothing is sent, wakes it earlier.
TimerInv ==
  /\ TypeOK
  /\ pc = "idle" => attempt = 0
  /\ pc = "wait" =>
       /\ attempt < MaxRetries
       /\ asked # None => wait = asked
       /\ asked = None => wait >= WaitMin \/ TooLong(attempt)
  /\ pc = "send" /\ attempt > 0 => cancelled \/ Waited(attempt - 1)
  /\ pc = "await" /\ attempt > 0 => Waited(attempt - 1)

\* A power of two is a positive number: the number of subsets of a finite set.
LEMMA PowersArePositive ==
  ASSUME NEW n \in Nat
  PROVE  2 ^ n \in Nat \ {0}
  <1>1. IsFiniteSet(1 .. n) /\ Cardinality(1 .. n) = n
    BY FS_Interval
  <1>2. IsFiniteSet(SUBSET (1 .. n)) /\ Cardinality(SUBSET (1 .. n)) = 2 ^ n
    BY <1>1, FS_SUBSET
  <1>3. SUBSET (1 .. n) # {}
    OBVIOUS
  <1> QED BY <1>2, <1>3, FS_EmptySet, FS_CardinalityType

\* A backoff is a time, and at least the minimum unless it is too long.
LEMMA BackoffBound ==
  ASSUME attempt \in Attempts, NEW w \in Backoff
  PROVE  w \in Nat /\ (w >= WaitMin \/ TooLong(attempt))
  <1>1. 2 ^ attempt \in Nat \ {0}
    BY PowersArePositive, AttemptsAreNumbers
  <1>2. ASSUME NEW k \in Nat \ {0} PROVE WaitMin * k \in Nat /\ WaitMin * k >= WaitMin
    BY TransportAssumption
  <1>3. /\ WaitMin * 2 ^ attempt \in Nat
        /\ WaitMin * 2 ^ attempt >= WaitMin
    BY <1>1, <1>2
  <1> DEFINE v == WaitMin * 2 ^ attempt
  <1>4. v \in Nat /\ v >= WaitMin
    BY <1>3
  <1>5. w \in (IF v >= Overflow THEN {0, WaitMax}
               ELSE {IF v > WaitMax THEN WaitMax ELSE v})
    BY DEF Backoff
  <1>6. TooLong(attempt) <=> v >= Overflow
    BY DEF TooLong
  <1> HIDE DEF v
  <1> QED BY <1>4, <1>5, <1>6, TransportAssumption

\* Going to sleep starts a timer of the right length.
LEMMA SleepTimer ==
  ASSUME TimerInv, NEW after \in RetryAfters \cup {None}, Sleep(after),
         attempt < MaxRetries, UNCHANGED <<attempt, cancelled>>,
         inflight' \in SUBSET Attempts,
         effects' \in SUBSET Attempts,
         answer' \in Answers \cup {None},
         doubtful' \in SUBSET Attempts
  PROVE  TimerInv'
  <1>1. /\ attempt \in Attempts /\ cancelled \in BOOLEAN
        /\ after \in Nat \cup {None} /\ None \notin Nat
    BY TransportAssumption DEF TimerInv, TypeOK
  <1>2. /\ pc' = "wait" /\ asked' = after /\ slept' = 0
        /\ after # None => wait' = after
        /\ after = None => wait' \in Backoff
    BY DEF Sleep
  <1>3. /\ wait' \in Nat
        /\ asked' = None => wait' >= WaitMin \/ TooLong(attempt)
    <2>1. CASE after = None
      BY <1>1, <1>2, <2>1, BackoffBound
    <2>2. CASE after # None
      BY <1>1, <1>2, <2>2
    <2> QED BY <2>1, <2>2
  <1>4. TypeOK'
    BY <1>1, <1>2, <1>3 DEF TypeOK
  <1> QED BY <1>2, <1>3, <1>4 DEF TimerInv

\* A call that returns needs no timer.
LEMMA ReturnTimer ==
  ASSUME TimerInv, pc' \in Returned, UNCHANGED <<attempt, timer, cancelled>>,
         inflight' \in SUBSET Attempts,
         effects' \in SUBSET Attempts,
         answer' \in Answers \cup {None},
         doubtful' \in SUBSET Attempts
  PROVE  TimerInv'
  BY DEF TimerInv, TypeOK, Returned, timer

LEMMA ClientTimer ==
  ASSUME TimerInv, Call \/ Cancel \/ ClientStep \/ DecodeFails \/ AnswerLost
  PROVE  TimerInv'
  <1>1. TypeOK /\ attempt \in Attempts /\ None \notin Nat
        /\ None \in RetryAfters \cup {None}
    BY TransportAssumption DEF TimerInv, TypeOK
  <1>2. CASE Call
    <2>1. attempt' = 0
      BY <1>2 DEF Call, TimerInv
    <2>2. pc' \in {"send", "ok"}
      BY <1>2 DEF Call
    <2>3. TypeOK'
      BY <1>1, <1>2, <2>2 DEF Call, timer, server, TypeOK, Returned
    <2> QED BY <2>1, <2>2, <2>3 DEF TimerInv
  <1>3. CASE Cancel
    BY <1>1, <1>3 DEF Cancel, timer, server, TimerInv, TypeOK, Waited
  <1>4. CASE Send
    BY <1>1, <1>4 DEF Send, timer, server, TimerInv, TypeOK, Waited
  <1>5. ASSUME SendError, UNCHANGED <<attempt, cancelled, server, answer>>,
               doubtful' \in SUBSET Attempts
        PROVE  TimerInv'
    <2>1. /\ inflight' \in SUBSET Attempts
          /\ effects' \in SUBSET Attempts
          /\ answer' \in Answers \cup {None}
      BY <1>1, <1>5 DEF server, TypeOK
    <2>2. CASE attempt < MaxRetries
      BY <1>1, <1>5, <2>1, <2>2, SleepTimer DEF SendError
    <2>3. CASE ~(attempt < MaxRetries)
      BY <1>5, <2>1, <2>3, ReturnTimer DEF SendError, Returned
    <2> QED BY <2>2, <2>3
  <1>6. CASE SendRefused
    BY <1>1, <1>5, <1>6 DEF SendRefused, TypeOK
  <1>7. CASE AnswerLost
    BY <1>1, <1>5, <1>7 DEF AnswerLost, TypeOK
  <1>8. CASE Succeeds \/ DecodeFails
    BY <1>1, <1>8, ReturnTimer
    DEF Succeeds, DecodeFails, TypeOK, server, Returned
  <1>9. ASSUME NEW after \in RetryAfters \cup {None}, Refused(after)
        PROVE  TimerInv'
    <2>1. /\ inflight' \in SUBSET Attempts
          /\ effects' \in SUBSET Attempts
          /\ answer' \in Answers \cup {None}
          /\ doubtful' \in SUBSET Attempts
          /\ UNCHANGED <<attempt, cancelled>>
      BY <1>1, <1>9 DEF Refused, server, TypeOK
    <2>2. CASE answer \in Retryable /\ attempt < MaxRetries
      BY <1>9, <2>1, <2>2, SleepTimer DEF Refused
    <2>3. CASE ~(answer \in Retryable /\ attempt < MaxRetries)
      BY <1>9, <2>1, <2>3, ReturnTimer DEF Refused, Returned
    <2> QED BY <2>2, <2>3
  <1>10. CASE Tick
    BY <1>1, <1>10 DEF Tick, server, TimerInv, TypeOK
  <1>11. CASE Wake
    <2>1. /\ pc = "wait" /\ (slept >= wait \/ cancelled)
          /\ pc' = "send" /\ attempt' = attempt + 1
          /\ UNCHANGED <<timer, cancelled, server, answer, doubtful>>
      BY <1>11 DEF Wake
    <2>2. /\ attempt < MaxRetries
          /\ asked # None => wait = asked
          /\ asked = None => wait >= WaitMin \/ TooLong(attempt)
      BY <2>1 DEF TimerInv
    <2>3. attempt' \in Attempts /\ attempt' - 1 = attempt
      BY <1>1, <2>1, <2>2, AttemptsAreNumbers
    <2>4. TypeOK'
      BY <1>1, <2>1, <2>3 DEF TypeOK, timer, server
    <2>5. wait \in Nat /\ slept \in Nat /\ WaitMin \in Nat
      BY <1>1, TransportAssumption DEF TypeOK
    <2>6. cancelled \/ Waited(attempt)
      BY <2>1, <2>2, <2>5 DEF Waited
    <2>7. cancelled' \/ Waited(attempt - 1)'
      BY <2>1, <2>3, <2>6 DEF Waited, TooLong, timer
    <2> QED BY <2>1, <2>4, <2>7 DEF TimerInv
  <1> QED
    BY <1>2, <1>3, <1>4, <1>6, <1>7, <1>8, <1>9, <1>10, <1>11 DEF ClientStep

\* The server does not touch the timer.
LEMMA ServerTimer ==
  ASSUME TimerInv, NEW a \in inflight, NEW code \in Answers, Handle(a, code)
  PROVE  TimerInv'
  BY DEF Handle, TimerInv, TypeOK, Waited, timer

LEMMA TimerInductive == Spec => []TimerInv
  <1>1. Init => TimerInv
    <2> SUFFICES ASSUME Init PROVE TimerInv
      OBVIOUS
    <2>1. attempt = 0 /\ pc = "idle" /\ 0 \in Attempts
      BY AttemptsAreNumbers DEF Init
    <2>2. TypeOK
      BY <2>1 DEF Init, TypeOK
    <2> QED BY <2>1, <2>2 DEF TimerInv
  <1>2. TimerInv /\ [Next]_vars => TimerInv'
    <2> SUFFICES ASSUME TimerInv, [Next]_vars PROVE TimerInv'
      OBVIOUS
    <2>1. CASE Next
      BY <2>1, ClientTimer, ServerTimer DEF Next
    <2>2. CASE UNCHANGED vars
      BY <2>2 DEF vars, TimerInv, TypeOK, Waited
    <2> QED BY <2>1, <2>2
  <1> QED BY <1>1, <1>2, PTL DEF Spec

\* Type correctness of a call.
THEOREM TypeCorrect == Spec => []TypeOK
  <1>1. TimerInv => TypeOK
    BY DEF TimerInv
  <1> QED BY <1>1, TimerInductive, PTL

\* No retry is sent before the time the server asked for, or the configured
\* minimum, is over, as long as the backoff fits its type.
THEOREM WaitsBetweenAttempts == Spec => []PausesKept
  <1>1. TimerInv => PausesKept
    BY DEF TimerInv, PausesKept, Waited, TooLong
  <1> QED BY <1>1, TimerInductive, PTL

\* No step of the loop goes back without using up an attempt, so a call makes
\* at most MaxRetries + 1 of them and each ends.
THEOREM NoWayBack == Spec => OnlyForward
  <1> DEFINE Forward ==
        \/ attempt' = attempt + 1 /\ attempt' <= MaxRetries
        \/ attempt' = attempt /\ Place[pc'] > Place[pc]
        \/ UNCHANGED <<pc, attempt, wait, asked>> /\ slept < slept' /\ slept' <= wait
        \/ UNCHANGED <<pc, attempt, timer>>
  <1>1. TimerInv /\ [Next]_vars => [Forward]_vars
    <2> SUFFICES ASSUME TimerInv, Next PROVE Forward
      OBVIOUS
    <2>1. attempt \in Nat /\ MaxRetries \in Int /\ slept \in Nat /\ wait \in Nat
      BY AttemptsAreNumbers DEF TimerInv, TypeOK
    <2>2. CASE Wake
      <3>1. attempt < MaxRetries /\ attempt' = attempt + 1
        BY <2>2 DEF Wake, TimerInv
      <3> QED BY <2>1, <3>1
    <2>3. CASE Tick
      BY <2>1, <2>3 DEF Tick
    <2>4. CASE Call
      BY <2>4 DEF Call, Place, Returned
    <2>5. CASE Send
      BY <2>5 DEF Send, Place, Returned
    <2>6. CASE SendRefused
      BY <2>6 DEF SendRefused, SendError, Sleep, Place, Returned
    <2>7. CASE AnswerLost
      BY <2>7 DEF AnswerLost, SendError, Sleep, Place, Returned
    <2>8. CASE Succeeds \/ DecodeFails
      BY <2>8 DEF Succeeds, DecodeFails, Place, Returned
    <2>9. ASSUME NEW after \in RetryAfters \cup {None}, Refused(after)
          PROVE  Forward
      BY <2>9 DEF Refused, Sleep, Place, Returned
    <2>10. CASE Cancel
      BY <2>10 DEF Cancel
    <2>11. ASSUME NEW a \in inflight, NEW code \in Answers, Handle(a, code)
           PROVE  Forward
      BY <2>11 DEF Handle
    <2> HIDE DEF Forward
    <2> QED
      BY <2>2, <2>3, <2>4, <2>5, <2>6, <2>7, <2>8, <2>9, <2>10, <2>11
      DEF Next, ClientStep
  <1> QED BY <1>1, TimerInductive, PTL DEF Spec, OnlyForward
=============================================================================
