---------------------------- MODULE SdkTransport ----------------------------
(***************************************************************************)
(* One call of the SDK's transport.DoJSON and what it does to the server.  *)
(*                                                                         *)
(* The call is a loop of attempts.  Each sends the same request, so what   *)
(* matters is which attempts took effect on the server: a request whose    *)
(* answer was lost may take effect at any later time, even while the next  *)
(* attempt is under way.  Time is counted in ticks of the retry timer.     *)
(***************************************************************************)
EXTENDS Integers, FiniteSets

CONSTANTS
  MaxRetries,          \* WithMaxRetries, which takes a negative value too
  WaitMin, WaitMax,    \* retryWaitMin and retryWaitMax of New
  Overflow,            \* the first duration an int64 cannot hold
  RetryAfters,         \* values of the Retry-After header
  Timeout,             \* TRUE: the http.Client has a timeout
  None

Answers == {"2xx", "4xx", "429", "5xx"}

ASSUME TransportAssumption ==
  /\ MaxRetries \in Int
  /\ WaitMin \in Nat \ {0} /\ WaitMax \in Nat \ {0}
  /\ WaitMin <= WaitMax /\ WaitMax < Overflow
  /\ Overflow \in Nat
  /\ RetryAfters \subseteq Nat
  /\ Timeout \in BOOLEAN
  /\ None \notin Nat \cup Answers

VARIABLES
  pc,         \* where DoJSON stands, or how it returned
  attempt,    \* the loop variable
  wait,       \* length of the current timer
  asked,      \* the Retry-After of the last answer, None without one
  slept,      \* ticks since the timer was started
  cancelled,  \* the caller's context is done
  inflight,   \* attempts the server has yet to handle
  effects,    \* attempts that changed the server's state
  answer,     \* the answer to the current attempt on its way back
  doubtful    \* attempts whose answer was lost, or said 5xx

vars == <<pc, attempt, wait, asked, slept, cancelled, inflight, effects,
          answer, doubtful>>
timer == <<wait, asked, slept>>
server == <<inflight, effects>>

-----------------------------------------------------------------------------
Returned == {"ok", "apiError", "sendError", "decodeError"}
Retryable == {"429", "5xx"}  \* Error.IsRetryable

\* The values of the loop variable: range maxRetries + 1, and the zero value
\* of a loop that is not entered.
Attempts == 0 .. (IF MaxRetries < 0 THEN 0 ELSE MaxRetries)

TypeOK ==
  /\ pc \in {"idle", "send", "await", "wait"} \cup Returned
  /\ attempt \in Attempts
  /\ wait \in Nat /\ slept \in Nat
  /\ asked \in Nat \cup {None}
  /\ cancelled \in BOOLEAN
  /\ inflight \in SUBSET Attempts
  /\ effects \in SUBSET Attempts
  /\ answer \in Answers \cup {None}
  /\ doubtful \in SUBSET Attempts

Init ==
  /\ pc = "idle"
  /\ attempt = 0
  /\ wait = 0 /\ asked = None /\ slept = 0
  /\ cancelled = FALSE
  /\ inflight = {} /\ effects = {}
  /\ answer = None
  /\ doubtful = {}

-----------------------------------------------------------------------------
\* A range over no attempts leaves lastErr nil, and DoJSON returns it.
Call ==
  /\ pc = "idle"
  /\ pc' = IF MaxRetries < 0 THEN "ok" ELSE "send"
  /\ UNCHANGED <<attempt, timer, cancelled, server, answer, doubtful>>

\* http.Client refuses to send under a context that is done.
Send ==
  /\ pc = "send"
  /\ ~cancelled
  /\ inflight' = inflight \cup {attempt}
  /\ answer' = None
  /\ pc' = "await"
  /\ UNCHANGED <<attempt, timer, cancelled, effects, doubtful>>

\* backoff: the float is converted to int64 before it is compared, and what a
\* conversion out of range yields is up to the processor, the smallest int64
\* (a timer that fires at once) or the largest.
Backoff ==
  LET w == WaitMin * 2 ^ attempt IN
  IF w >= Overflow THEN {0, WaitMax}
  ELSE {IF w > WaitMax THEN WaitMax ELSE w}

\* Mutant: the server's Retry-After is only a hint within the backoff.
SleepAtMostBackoff(after) ==
  /\ pc' = "wait"
  /\ wait' \in IF after = None THEN Backoff
               ELSE {IF after < b THEN after ELSE b : b \in Backoff}
  /\ asked' = after
  /\ slept' = 0

\* sleep(ctx, attempt, retryAfter)
Sleep(after) ==
  /\ pc' = "wait"
  /\ wait' \in IF after = None THEN Backoff ELSE {after}
  /\ asked' = after
  /\ slept' = 0

\* Mutant: the last attempt is not recognised.
SendErrorOneMore ==
  IF attempt <= MaxRetries THEN Sleep(None)
  ELSE pc' = "sendError" /\ UNCHANGED timer

\* client.Do returned an error: the last one is returned, others retried.
SendError ==
  IF attempt < MaxRetries THEN Sleep(None)
  ELSE pc' = "sendError" /\ UNCHANGED timer

SendRefused ==
  /\ pc = "send"
  /\ cancelled
  /\ SendError
  /\ UNCHANGED <<attempt, cancelled, server, answer, doubtful>>

\* No connection, a timeout, or a context that is done while waiting.
AnswerLost ==
  /\ pc = "await"
  /\ SendError
  /\ doubtful' = doubtful \cup {attempt}
  /\ UNCHANGED <<attempt, cancelled, server, answer>>

Succeeds ==
  /\ pc = "await"
  /\ answer = "2xx"
  /\ pc' = "ok"
  /\ UNCHANGED <<attempt, timer, cancelled, server, answer, doubtful>>

\* Mutant: every error of handleResponse is retried.
DecodeFailsAndRetries ==
  /\ pc = "await"
  /\ answer = "2xx"
  /\ IF attempt < MaxRetries THEN Sleep(None)
     ELSE pc' = "decodeError" /\ UNCHANGED timer
  /\ UNCHANGED <<attempt, cancelled, server, answer, doubtful>>

\* The body of a 2xx cannot be read or decoded: not an *Error, not retried.
DecodeFails ==
  /\ pc = "await"
  /\ answer = "2xx"
  /\ pc' = "decodeError"
  /\ UNCHANGED <<attempt, timer, cancelled, server, answer, doubtful>>

\* Mutant: after the last attempt the error of the answer is forgotten.
ForgetsLastError(after) ==
  /\ pc = "await"
  /\ answer \in Answers \ {"2xx"}
  /\ IF answer \in Retryable
       THEN IF attempt < MaxRetries THEN Sleep(after)
            ELSE pc' = "ok" /\ UNCHANGED timer
       ELSE pc' = "apiError" /\ UNCHANGED timer
  /\ doubtful' = IF answer = "5xx" THEN doubtful \cup {attempt} ELSE doubtful
  /\ UNCHANGED <<attempt, cancelled, server, answer>>

\* An *Error: 429 and 5xx are retried while attempts are left.
Refused(after) ==
  /\ pc = "await"
  /\ answer \in Answers \ {"2xx"}
  /\ IF answer \in Retryable /\ attempt < MaxRetries
       THEN Sleep(after)
       ELSE pc' = "apiError" /\ UNCHANGED timer
  /\ doubtful' = IF answer = "5xx" THEN doubtful \cup {attempt} ELSE doubtful
  /\ UNCHANGED <<attempt, cancelled, server, answer>>

Tick ==
  /\ pc = "wait"
  /\ slept < wait
  /\ slept' = slept + 1
  /\ UNCHANGED <<pc, attempt, wait, asked, cancelled, server, answer, doubtful>>

\* Mutant: waiting for the server is not counted as an attempt.
WakeUncounted ==
  /\ pc = "wait"
  /\ slept >= wait \/ cancelled
  /\ pc' = "send"
  /\ attempt' = IF asked = None THEN attempt + 1 ELSE attempt
  /\ UNCHANGED <<timer, cancelled, server, answer, doubtful>>

\* The timer fires or the context ends the wait.
Wake ==
  /\ pc = "wait"
  /\ slept >= wait \/ cancelled
  /\ pc' = "send"
  /\ attempt' = attempt + 1
  /\ UNCHANGED <<timer, cancelled, server, answer, doubtful>>

Cancel ==
  /\ ~cancelled
  /\ cancelled' = TRUE
  /\ UNCHANGED <<pc, attempt, timer, server, answer, doubtful>>

\* The server handles a request: a 2xx has its effect, a 4xx or 429 has none,
\* and a 5xx may come before or after the effect (Post.Create answers 500
\* when a target cannot be stored, with the post already there).
Handle(a, code) ==
  /\ a \in inflight
  /\ inflight' = inflight \ {a}
  /\ \/ code # "2xx" /\ UNCHANGED effects
     \/ code \in {"2xx", "5xx"} /\ effects' = effects \cup {a}
  /\ answer' = IF a = attempt /\ pc = "await" THEN code ELSE answer
  /\ UNCHANGED <<pc, attempt, timer, cancelled, doubtful>>

-----------------------------------------------------------------------------
ClientStep ==
  \/ Send \/ SendRefused \/ Succeeds \/ Tick \/ Wake
  \/ \E after \in RetryAfters \cup {None} : Refused(after)
  \/ AnswerLost /\ (Timeout \/ cancelled)

Next ==
  \/ Call \/ Cancel \/ ClientStep \/ DecodeFails \/ AnswerLost
  \/ \E a \in inflight, code \in Answers : Handle(a, code)

\* A call's goroutine, its timer and its timeout come eventually; the server
\* owes nothing.
Spec == Init /\ [][Next]_vars /\ WF_vars(ClientStep)

-----------------------------------------------------------------------------
(* Properties                                                              *)

\* nil is returned only if the server did what was asked: no path drops the
\* error of the last attempt.  The exception is a negative number of retries,
\* with which nothing is sent.
OkMeansDone ==
  pc = "ok" => \/ attempt \in effects
               \/ MaxRetries < 0 /\ inflight = {} /\ effects = {}

\* A request takes effect again only after an attempt whose answer was lost
\* or said 5xx: what was done and acknowledged, even by a body that cannot be
\* decoded, is not asked for again.
RepeatsOnlyDoubt == \A a \in effects : a < attempt => a \in doubtful

\* Between two requests the client waits as long as the server asked, else at
\* least the configured minimum, until the backoff overflows.
PausesKept ==
  pc = "await" /\ attempt > 0 =>
    \/ asked # None /\ slept >= asked
    \/ asked = None /\ slept >= WaitMin
    \/ asked = None /\ WaitMin * 2 ^ (attempt - 1) >= Overflow

\* The order of the places of one attempt.
Place == [p \in {"idle", "send", "await", "wait"} \cup Returned |->
            CASE p = "idle" -> 0 [] p = "send" -> 1 [] p = "await" -> 2
              [] p = "wait" -> 3 [] OTHER -> 4]

\* The loop never goes back without using up an attempt: each step of a call
\* counts one more, or stands later in the attempt, or brings its timer
\* nearer to the end, whatever the server and the context do.
OnlyForward ==
  [][\/ attempt' = attempt + 1 /\ attempt' <= MaxRetries
     \/ attempt' = attempt /\ Place[pc'] > Place[pc]
     \/ UNCHANGED <<pc, attempt, wait, asked>> /\ slept < slept' /\ slept' <= wait
     \/ UNCHANGED <<pc, attempt, timer>>]_vars

\* A call returns, even if the server never answers, because every attempt
\* has a timeout and the attempts are counted.
CallReturns == pc = "send" ~> pc \in Returned
=============================================================================
