------------------------------- MODULE HttpCall -------------------------------
(***************************************************************************)
(* One call of the HTTP client: attempts that may be repeated, the waits   *)
(* between them, and the body of the answer, which may fall silent.        *)
(* meshStack is behind a gateway: an answer may be lost, or be that of the *)
(* gateway, whether meshStack has run the request or not.                  *)
(***************************************************************************)
EXTENDS Integers

CONSTANTS
  MaxRetries,        \* attempts after the first
  MinWait, MaxWait,  \* the backoff
  MaxRetryAfterWait, \* what meshStack may ask for at most
  Second,            \* a second, in the unit of a duration
  Width,             \* the bits of a duration
  RetryAfter         \* numbers of seconds, or of a time before now, that Retry-After may hold

ASSUME HttpAssumption ==
  /\ MaxRetries \in Nat /\ MinWait \in Nat \ {0} /\ MaxWait \in Nat \ {0} /\ Width \in Nat \ {0}
  /\ MaxRetryAfterWait \in Nat /\ MaxWait <= MaxRetryAfterWait
  /\ Second \in Nat
  /\ RetryAfter \subseteq Int

VARIABLES
  callPc,     \* where the call is
  call,       \* which call it is
  attempt,    \* the number of the attempt
  waitTime,   \* how long it waits for the next one
  result,     \* what the caller gets
  answered,   \* what the last attempt came to
  ran         \* how often meshStack ran the request

callVars == <<callPc, call, attempt, waitTime, result, answered, ran>>

Calls == {"get", "put", "delete", "login", "post", "refresh"}

(* A GET, and what its caller has marked: not the grant that rotates a token, nor a      *)
(* write that meshStack would do twice.                                                  *)
Get == {"get"}
Retryable == {"put", "delete", "login"}

Statuses == {200, 404, 409, 429, 500, 502, 503, 504}
NoRetryAfter == <<>>      \* none, or one that is neither a number nor a date
Answer == [status : Statuses, retryAfter : {NoRetryAfter} \cup {<<s>> : s \in RetryAfter}]
            \cup {[error |-> e] : e \in {"broken", "refused", "silent"}}
NoAnswer == [error |-> "none"]

CallTypeOK ==
  /\ callPc \in {"idle", "sent", "waiting", "body", "done"}
  /\ call \in Calls
  /\ attempt \in 1..MaxRetries + 1
  /\ waitTime \in 0..MaxRetryAfterWait
  /\ result \in {"none", "content", "notFound", "error", "interrupted", "unreadable"}
  /\ answered \in Answer \cup {NoAnswer}
  /\ ran \in 0..MaxRetries + 1

CallInit ==
  /\ callPc = "idle"
  /\ call \in Calls
  /\ attempt = 1 /\ waitTime = 0
  /\ result = "none" /\ answered = NoAnswer
  /\ ran = 0

IsError(a) == "error" \in DOMAIN a

-----------------------------------------------------------------------------
(* How long to wait.                                                       *)

Exponential(n) ==
  LET next == 2 ^ (n - 1) * MinWait
  IN IF MaxWait > 0 /\ next > MaxWait THEN MaxWait ELSE next

(* A duration wraps.                                                       *)
Wrapped(d) == ((d + 2 ^ (Width - 1)) % 2 ^ Width) - 2 ^ (Width - 1)

AskedWait(a) == IF a.retryAfter = NoRetryAfter THEN -1 ELSE Wrapped(a.retryAfter[1] * Second)

(* Mutation: what has wrapped is waited for.                               *)
RetryAfterWaitWrapped(a, n) ==
  LET asked == AskedWait(a)
  IN IF a.retryAfter = NoRetryAfter THEN Exponential(n)
     ELSE IF asked > MaxRetryAfterWait THEN MaxRetryAfterWait ELSE asked

RetryAfterWait(a, n) ==
  LET asked == AskedWait(a)
  IN CASE asked < 0 -> Exponential(n)
       [] asked > MaxRetryAfterWait -> MaxRetryAfterWait
       [] OTHER -> asked

-----------------------------------------------------------------------------
(* Whether to repeat the request.                                          *)

(* Mutation: whatever the gateway turned away is repeated.                 *)
ShouldRetryRequestAny == TRUE
ShouldRetryRequest == call \in Get \cup Retryable

(* Only a connection that broke, and a gateway or meshStack that is not there yet.       *)
ShouldRetryResponse(a) ==
  IF IsError(a) THEN a.error = "broken" ELSE a.status \in {429, 502, 503, 504}

Backoff(a, n) ==
  IF ~IsError(a) /\ a.status \in {429, 503} THEN RetryAfterWait(a, n) ELSE Exponential(n)

-----------------------------------------------------------------------------
(* The call.                                                               *)

Send ==
  /\ callPc = "idle"
  /\ callPc' = "sent"
  /\ UNCHANGED <<call, attempt, waitTime, result, answered, ran>>

(* Whether meshStack may have run a request with this answer, and whether it must have.  *)
MayRun(a) == IF IsError(a) THEN a.error # "refused" ELSE a.status \notin {429, 503, 404, 409}
MustRun(a) == ~IsError(a) /\ a.status = 200

Return(what) == callPc' = "done" /\ result' = what /\ UNCHANGED <<attempt, waitTime>>

(* One attempt, and what the client makes of it.                           *)
RoundTrip ==
  /\ callPc = "sent"
  /\ \E a \in Answer, runs \in {0, 1} :
       /\ MustRun(a) => runs = 1
       /\ ~MayRun(a) => runs = 0
       /\ answered' = a
       /\ ran' = ran + runs
       /\ IF ShouldRetryRequest /\ ShouldRetryResponse(a) /\ attempt <= MaxRetries
          THEN /\ callPc' = "waiting"
               /\ waitTime' = Backoff(a, attempt)
               /\ UNCHANGED <<attempt, result>>
          ELSE IF IsError(a) THEN Return("error")
          ELSE callPc' = "body" /\ UNCHANGED <<attempt, waitTime, result>>
  /\ UNCHANGED call

WaitOver ==
  /\ callPc = "waiting"
  /\ callPc' = "sent"
  /\ attempt' = attempt + 1
  /\ waitTime' = 0
  /\ UNCHANGED <<call, result, answered, ran>>

(* A 404 is no object for a Get; every other status that is no success is an error, and  *)
(* so is an answer without content, except to a delete, or of a form that does not parse. *)
Content(s) ==
  CASE s = 404 /\ call = "get" -> {"notFound"}
    [] s = 200 -> {"content"} \cup IF call = "delete" THEN {} ELSE {"error"}
    [] OTHER -> {"error"}

ReadBody ==
  /\ callPc = "body"
  /\ \E what \in Content(answered.status) : Return(what)
  /\ UNCHANGED <<call, answered, ran>>

(* A body that broke, or was silent for a minute, is not read again.       *)
LoseBody ==
  /\ callPc = "body"
  /\ Return("unreadable")
  /\ UNCHANGED <<call, answered, ran>>

(* Ctrl-C or a deadline, in whatever the call is doing.                    *)
Interrupt ==
  /\ callPc \in {"sent", "waiting", "body"}
  /\ Return("interrupted")
  /\ \/ ran' = ran
     \/ callPc = "sent" /\ ran' = ran + 1
  /\ UNCHANGED <<call, answered>>

CallStep == Send \/ RoundTrip \/ WaitOver \/ ReadBody \/ LoseBody \/ Interrupt

-----------------------------------------------------------------------------
(* meshStack runs a write that nobody marked at most once, however its answer is lost:  *)
(* a run is not asked for twice, and a refresh token is not used twice.                  *)
RunsOnce == call \notin Get \cup {"put", "delete", "login"} => ran <= 1
=============================================================================
