----------------------------- MODULE RestClient -----------------------------
(***************************************************************************)
(* One call of _RestClient (src/entraadm_mcp/client.py): get, post or      *)
(* post_json, from acquiring the token to the value or exception the       *)
(* caller receives, next to what really happened at the API.               *)
(*                                                                         *)
(* An HTTP attempt goes through three phases: connect (pool slot, TCP,     *)
(* TLS), exchange (request out, response headers in) and body (chunk by    *)
(* chunk).  httpx times every operation of a phase apart, each for at most *)
(* `timeout`: the last operation of a phase is the action that ends it,    *)
(* any operation before that is an action Waits.                           *)
(* The API may act on a request at any time after it left the host, also   *)
(* long after the client gave up on it.                                    *)
(*                                                                         *)
(* Time is in whole seconds.                                               *)
(***************************************************************************)
EXTENDS Integers

CONSTANTS
    Deadlines,      \* absolute deadlines a caller may pass
    NoDeadline,     \* the deadline=None of a call without a budget
    OpTimeout,      \* httpx's own per-operation timeout (30 in the code)
    Durations,      \* how long one httpx operation may take
    TokenTimes,     \* how long azure-identity may take; nothing bounds it
    RetryAfters,    \* the Retry-After values a 429 may carry
    MaxOversleep,   \* time.sleep may return that much late
    MaxChunks,      \* chunks in the longest response body
    MaxWaits        \* operations of an attempt beyond one per phase and chunk

ASSUME TimeAssumption ==
    /\ Deadlines \subseteq Nat
    /\ NoDeadline \notin Nat
    /\ OpTimeout \in Nat \ {0}
    /\ Durations \subseteq Nat
    /\ TokenTimes \subseteq Nat
    /\ RetryAfters \subseteq Int
    /\ MaxOversleep \in Nat
    /\ MaxChunks \in Nat
    /\ MaxWaits \in Nat

VARIABLES
    call,           \* the method called: decides idempotence and the use of the flag
    deadline,       \* its deadline argument
    pc,             \* where the call stands
    now,            \* time.monotonic()
    timeout,        \* the timeout given to httpx for each operation of the attempt
    waits,          \* history: operations of the attempt that did not end their phase
    netLeft,        \* network_retries_left
    srvLeft,        \* server_retries_left
    retried429,     \* retried_429
    maybe,          \* maybe_applied
    resp,           \* status class of the response being read
    chunks,         \* body chunks of it that have not arrived yet
    outcome,        \* what the caller got
    travelling,     \* requests sent, given up by the client, not yet acted on
    applied,        \* how often the API acted on this call
    attempts,       \* history: attempts started
    seen            \* history: failures met, per kind; attempts that left the
                    \* host; complete 4xx answers

clientVars == <<netLeft, srvLeft, retried429, maybe>>
serverVars == <<travelling, applied>>
argVars == <<call, deadline>>
attemptVars == <<timeout, waits>>
vars == <<argVars, pc, now, attemptVars, clientVars, resp, chunks, outcome,
          serverVars, attempts, seen>>

Calls == {"get", "post", "post_json"}

\* What a response means to the client: a JSON answer below 400 (one that confirms the
\* action, or one that declines it, like {"value": false}), an answer below 400
\* that is not JSON, or an error status.
Status == {"ok", "declined", "nonjson", "401", "403", "4xx", "429", "5xx"}
None == "none"

\* An error below 500 is a definite "not done" for its attempt.
Refusals == {"401", "403", "4xx", "429"}

\* What the caller receives as a value rather than as an exception.
Values == {"ok", "declined"}

Kinds == {"ok", "declined", "ApiAuthError", "ApiPermissionError", "ApiError429", "ApiError",
          "ApiServerError", "ApiResponseError", "ApiTransportError",
          "ApiDeadline", "ValueError"}

\* What the caller got: a value or an exception, with its may_have_applied.
Result(kind, may) == [kind |-> kind, may |-> may]

Results == [kind : Kinds \cup {None}, may : BOOLEAN]

Unanswered == Result(None, FALSE)

\* What the client met during the call.
Histories == [net : Nat, srv : Nat, busy : Nat, left : Nat, refused : Nat]

Phases == {"token", "ready", "connect", "exchange", "body", "answered", "done"}

\* Mutant of Idempotent: post_json forgets idempotent=False.
IdempotentAlways == TRUE

\* Only post_json creates an object and must never be repeated once sent.
Idempotent == call # "post_json"

Past(t) == deadline # NoDeadline /\ t >= deadline

Smaller(a, b) == IF a <= b THEN a ELSE b

-----------------------------------------------------------------------------
Init ==
    /\ call \in Calls
    /\ deadline \in Deadlines \cup {NoDeadline}
    /\ pc = "token"
    /\ now = 0
    /\ timeout = OpTimeout
    /\ waits = 0
    /\ netLeft = 2
    /\ srvLeft = 2
    /\ retried429 = FALSE
    /\ maybe = FALSE
    /\ resp = None
    /\ chunks = 0
    /\ outcome = Unanswered
    /\ travelling = 0
    /\ applied = 0
    /\ attempts = 0
    /\ seen = [net |-> 0, srv |-> 0, busy |-> 0, left |-> 0, refused |-> 0]

Finish(kind, may) ==
    /\ pc' = "done"
    /\ outcome' = Result(kind, may)

\* Mutant of SleepWithin: the wait is not checked against the deadline.
SleepUnchecked(t, seconds, may) ==
    /\ seconds >= 0
    /\ now' = t + seconds
    /\ pc' = "ready"
    /\ UNCHANGED outcome

\* _sleep_within, started at time t: the next attempt follows, or the wait would
\* end past the deadline.  time.sleep refuses a negative wait with a ValueError
\* that no ApiError handler sees (it carries no flag: TRUE stands for "unknown").
SleepWithin(t, seconds, may) ==
    \/ /\ Past(t + seconds)
       /\ now' = t
       /\ Finish("ApiDeadline", may)
    \/ /\ ~Past(t + seconds)
       /\ seconds >= 0
       /\ \E late \in 0..MaxOversleep : now' = t + seconds + late
       /\ pc' = "ready"
       /\ UNCHANGED outcome
    \/ /\ ~Past(t + seconds)
       /\ seconds < 0
       /\ now' = t
       /\ Finish("ValueError", TRUE)

\* 2 ** (2 - left): 1 s before the first retry, 2 s before the second.
Backoff(left) == IF left = 2 THEN 1 ELSE 2

-----------------------------------------------------------------------------
\* The token: cached (0 s) or from azure-identity, which may block past the deadline.
GetToken(d) ==
    /\ pc = "token"
    /\ now' = now + d
    /\ \/ Finish("ApiAuthError", FALSE)
       \/ Past(now + d) /\ Finish("ApiDeadline", FALSE)
       \/ ~Past(now + d) /\ pc' = "ready" /\ UNCHANGED outcome
    /\ UNCHANGED <<argVars, attemptVars, clientVars, resp, chunks, serverVars, attempts, seen>>

\* The head of the retry loop.
StartAttempt ==
    /\ pc = "ready"
    /\ ~Past(now)
    /\ pc' = "connect"
    /\ timeout' = IF deadline = NoDeadline THEN OpTimeout
                                           ELSE Smaller(OpTimeout, deadline - now)
    /\ waits' = 0
    /\ resp' = None
    /\ attempts' = attempts + 1
    /\ UNCHANGED <<argVars, now, clientVars, chunks, outcome, serverVars, seen>>

GiveUpBeforeAttempt ==
    /\ pc = "ready"
    /\ Past(now)
    /\ Finish("ApiDeadline", maybe)
    /\ UNCHANGED <<argVars, now, attemptVars, clientVars, resp, chunks, serverVars, attempts, seen>>

\* The `except httpx.RequestError` branch, d seconds into a wait of the attempt.
NetworkError(d, notSent) ==
    LET may == maybe \/ ~notSent IN
    /\ maybe' = may
    /\ seen' = [seen EXCEPT !.net = @ + 1]
    /\ \/ /\ netLeft > 0 /\ (Idempotent \/ notSent)
          /\ SleepWithin(now + d, Backoff(netLeft), may)
          /\ netLeft' = netLeft - 1
       \/ /\ ~(netLeft > 0 /\ (Idempotent \/ notSent))
          /\ now' = now + d
          /\ Finish("ApiTransportError", may)
          /\ UNCHANGED netLeft
    /\ UNCHANGED <<argVars, attemptVars, srvLeft, retried429, resp, chunks, attempts>>

\* One more operation of the phase went through: the pool slot before the TCP connect,
\* that before the TLS handshake, a part of the request written, a part of the headers
\* or of a chunk read.  Nothing looks at the clock between two of them.
Waits(d) ==
    /\ pc \in {"connect", "exchange", "body"}
    /\ d <= timeout
    /\ waits < MaxWaits
    /\ now' = now + d
    /\ waits' = waits + 1
    /\ UNCHANGED <<argVars, pc, timeout, clientVars, resp, chunks, outcome, serverVars,
                   attempts, seen>>

\* _NOT_SENT_ERRORS: the connection was refused, timed out, or no pool slot came free.
ConnectFails(d) ==
    /\ pc = "connect"
    /\ d <= timeout
    /\ NetworkError(d, TRUE)
    /\ UNCHANGED serverVars

Connects(d) ==
    /\ pc = "connect"
    /\ d <= timeout
    /\ now' = now + d
    /\ pc' = "exchange"
    /\ seen' = [seen EXCEPT !.left = @ + 1]
    /\ UNCHANGED <<argVars, attemptVars, clientVars, resp, chunks, outcome, serverVars,
                   attempts>>

\* Any other httpx error before the headers: the request may be on its way.
LoseRequest(d) ==
    /\ pc = "exchange"
    /\ d <= timeout
    /\ NetworkError(d, FALSE)
    /\ travelling' = travelling + 1
    /\ UNCHANGED applied

\* The same while the body is read.
LoseBody(d) ==
    /\ pc = "body"
    /\ d <= timeout
    /\ NetworkError(d, FALSE)
    /\ UNCHANGED serverVars

\* What the API did when it answered with this status.
ActsOn(s) ==
    CASE s = "ok"                 -> {TRUE}
      [] s \in {"nonjson", "5xx"} -> BOOLEAN
      [] OTHER                    -> {FALSE}

Responds(d, s, acts, size) ==
    /\ pc = "exchange"
    /\ d <= timeout
    /\ acts \in ActsOn(s)
    /\ now' = now + d
    /\ pc' = "body"
    /\ resp' = s
    /\ chunks' = size
    /\ applied' = IF acts THEN applied + 1 ELSE applied
    /\ UNCHANGED <<argVars, attemptVars, clientVars, outcome, travelling, attempts, seen>>

\* One turn of the iter_raw loop: the chunk is there, then the clock is looked at.
ReadChunk(d) ==
    /\ pc = "body"
    /\ chunks > 0
    /\ d <= timeout
    /\ now' = now + d
    /\ chunks' = chunks - 1
    /\ \/ Past(now + d) /\ Finish("ApiDeadline", TRUE)
       \/ ~Past(now + d) /\ UNCHANGED <<pc, outcome>>
    /\ UNCHANGED <<argVars, attemptVars, clientVars, resp, serverVars, attempts, seen>>

\* The end of the stream is not checked against the clock.
EndOfBody(d) ==
    /\ pc = "body"
    /\ chunks = 0
    /\ d <= timeout
    /\ now' = now + d
    /\ pc' = "answered"
    /\ seen' = [seen EXCEPT !.srv = IF resp = "5xx" THEN @ + 1 ELSE @,
                            !.busy = IF resp = "429" THEN @ + 1 ELSE @,
                            !.refused = IF resp \in Refusals THEN @ + 1 ELSE @]
    /\ UNCHANGED <<argVars, attemptVars, clientVars, resp, chunks, outcome, serverVars, attempts>>

-----------------------------------------------------------------------------
RetriesBusy == Idempotent /\ resp = "429" /\ ~retried429

\* Mutant of RetriesServer: one attempt counter shared by all kinds of failure.
RetriesServerShared == Idempotent /\ resp = "5xx" /\ srvLeft + netLeft > 2

\* Mutant of RetriesServer: one retry too many.
RetriesServerOffByOne == Idempotent /\ resp = "5xx" /\ srvLeft >= 0

RetriesServer == Idempotent /\ resp = "5xx" /\ srvLeft > 0

\* A 429 has a retry of its own.
RetryBusy(seconds) ==
    /\ pc = "answered"
    /\ RetriesBusy
    /\ retried429' = TRUE
    /\ SleepWithin(now, seconds, maybe)
    /\ UNCHANGED <<argVars, attemptVars, netLeft, srvLeft, maybe, resp, chunks, serverVars,
                   attempts, seen>>

RetryServerError ==
    /\ pc = "answered"
    /\ RetriesServer
    /\ maybe' = TRUE
    /\ SleepWithin(now, Backoff(srvLeft), TRUE)
    /\ srvLeft' = srvLeft - 1
    /\ UNCHANGED <<argVars, attemptVars, netLeft, retried429, resp, chunks, serverVars,
                   attempts, seen>>

\* Mutant of ParseKind: an accepted request with an unreadable body is a value.
ParseKindLax(s) ==
    CASE s \in {"ok", "nonjson"} -> "ok"
      [] s = "declined" -> s
      [] s = "401" -> "ApiAuthError"
      [] s = "403" -> "ApiPermissionError"
      [] s = "429" -> "ApiError429"
      [] s = "4xx" -> "ApiError"
      [] s = "5xx" -> "ApiServerError"

\* _parse: the exception for a status, and whether it says by itself that the
\* request may have been applied.
ParseKind(s) ==
    CASE s \in {"ok", "declined"} -> s
      [] s = "nonjson" -> "ApiResponseError"
      [] s = "401"     -> "ApiAuthError"
      [] s = "403"     -> "ApiPermissionError"
      [] s = "429"     -> "ApiError429"
      [] s = "4xx"     -> "ApiError"
      [] s = "5xx"     -> "ApiServerError"

\* Mutant of ParseMay: a 429 counts as an unknown outcome.
ParseMayBusy(s) == s \in {"nonjson", "5xx", "429"}

ParseMay(s) == s \in {"nonjson", "5xx"}

\* Mutant of AnswerMay: the flag of the earlier attempts is lost.
AnswerMayForgets(s, may) == s \notin Values /\ ParseMay(s)

\* post and post_json add the flag of the earlier attempts to the exception of the
\* last answer; get does not, and a value carries no flag.
AnswerMay(s, may) ==
    /\ s \notin Values
    /\ ParseMay(s) \/ (call # "get" /\ may)

\* Mutant of Settled: a 429 that may not be repeated is waited on forever.
SettledUnlessBusy == ~RetriesBusy /\ ~RetriesServer /\ resp # "429"

\* No retry is left for this answer.
Settled == ~RetriesBusy /\ ~RetriesServer

\* The last answer is returned and parsed.
Answer ==
    LET may == maybe \/ resp = "5xx" IN
    /\ pc = "answered"
    /\ Settled
    /\ maybe' = may
    /\ Finish(ParseKind(resp), AnswerMay(resp, may))
    /\ UNCHANGED <<argVars, now, attemptVars, netLeft, srvLeft, retried429, resp, chunks,
                   serverVars, attempts, seen>>

\* The API acts on a request the client has given up on, maybe after the call ended.
LateArrival ==
    /\ travelling > 0
    /\ travelling' = travelling - 1
    /\ applied' = applied + 1
    /\ UNCHANGED <<argVars, pc, now, attemptVars, clientVars, resp, chunks, outcome,
                   attempts, seen>>

\* The call's own steps.
ClientNext ==
    \/ \E d \in TokenTimes : GetToken(d)
    \/ StartAttempt
    \/ GiveUpBeforeAttempt
    \/ \E d \in Durations :
          \/ Waits(d)
          \/ ConnectFails(d)
          \/ Connects(d)
          \/ LoseRequest(d)
          \/ LoseBody(d)
          \/ \E s \in Status, acts \in BOOLEAN, size \in 0..MaxChunks :
                Responds(d, s, acts, size)
          \/ ReadChunk(d)
          \/ EndOfBody(d)
    \/ \E seconds \in RetryAfters : RetryBusy(seconds)
    \/ RetryServerError
    \/ Answer

Done == pc = "done" /\ travelling = 0 /\ UNCHANGED vars

Next == ClientNext \/ LateArrival \/ Done

Spec == Init /\ [][Next]_vars

\* httpx times every wait out and time.sleep returns, so the call never stays put.
FairSpec == Spec /\ WF_vars(ClientNext)
-----------------------------------------------------------------------------
\* The shape of the state.
TypeOK ==
    /\ call \in Calls
    /\ deadline \in Deadlines \cup {NoDeadline}
    /\ pc \in Phases
    /\ now \in Nat
    /\ timeout \in 1..OpTimeout
    /\ waits \in 0..MaxWaits
    /\ netLeft \in 0..2
    /\ srvLeft \in 0..2
    /\ retried429 \in BOOLEAN
    /\ maybe \in BOOLEAN
    /\ resp \in Status \cup {None}
    /\ pc \in {"body", "answered"} => resp \in Status
    /\ chunks \in 0..MaxChunks
    /\ outcome \in Results
    /\ travelling \in Nat
    /\ applied \in Nat
    /\ attempts \in Nat
    /\ seen \in Histories

Write == call # "get"

Failed == pc = "done" /\ outcome.kind \notin Values

\* ApiError.may_have_applied (client.py:50-55): a write that ends in an error with
\* the flag down was not acted on by any attempt and never will be, whatever
\* is still on its way.
FalseFlagMeansNotDone ==
    (Failed /\ Write /\ ~outcome.may) => (applied = 0 /\ travelling = 0)

\* A value that confirms the action means the API acted on it at least once.
ValueMeansDone ==
    (pc = "done" /\ outcome.kind = "ok") => applied > 0

\* post_json (client.py:403-410): the object is created at most once, counting the
\* requests still on their way after the call has ended.
CreatesAtMostOnce ==
    call = "post_json" => applied + travelling <= 1

\* The comment on the retry budgets (client.py:301-308): each kind of failure has its
\* full guarantee, whatever happened before it.  A call of an idempotent method
\* that ends in a 5xx, a network error or a 429 met that failure three, three and
\* two times.
EveryKindGetsItsRetries ==
    (Failed /\ Idempotent) =>
        /\ outcome.kind = "ApiServerError" => seen.srv = 3
        /\ outcome.kind = "ApiTransportError" => seen.net = 3
        /\ outcome.kind = "ApiError429" => seen.busy = 2

\* The same budgets bound a call: six attempts in all, and the failures of one kind
\* never exceed its budget by more than the one that ends the call.
RetriesAreBounded ==
    /\ attempts <= 6
    /\ seen.net <= 3 /\ seen.srv <= 3 /\ seen.busy <= 2

\* What the deadline does bound (client.py:316-323, 358-377): once an attempt was made,
\* the call outlives it by no more than the operations of that one attempt, each given
\* what was left at its start, and no retry wait carries it further, late wake-ups
\* apart.  The two are the answer's last read and the end of the stream.
OverrunIsOneAttempt ==
    (attempts > 0 /\ deadline # NoDeadline) =>
        now <= deadline + (2 + waits) * timeout \/ now < deadline + MaxOversleep

\* The other half of the flag: it is up only when an attempt left this host and was
\* not refused by a complete 4xx answer.  A write that met nothing but failed
\* connections and 429s before its deadline is reported as not done.
FlagIsExact ==
    (Failed /\ Write /\ outcome.kind # "ValueError")
        => (outcome.may <=> seen.left > seen.refused)

\* Every call ends.
CallEnds == <>(pc = "done")
-----------------------------------------------------------------------------
(***************************************************************************)
(* The inductive invariant behind the safety properties, by part.          *)
(***************************************************************************)
\* The request of the current attempt has not left this host, or has but is unanswered.
BeforeResponse == pc \in {"token", "ready", "connect", "exchange"}

\* An attempt is under way.
Trying == pc \in {"connect", "exchange", "body", "answered"}

One(b) == IF b THEN 1 ELSE 0

\* While the flag is down the API has done nothing but give the current answer.
FlagInv ==
    /\ pc = "token" => ~maybe
    /\ ~maybe => travelling = 0
    /\ (~maybe /\ BeforeResponse) => applied = 0
    /\ (~maybe /\ pc \in {"body", "answered"} /\ resp \in Refusals) => applied = 0
    /\ FalseFlagMeansNotDone

\* A JSON answer being read, or given, has an effect behind it.
ValueInv ==
    /\ (pc \in {"body", "answered"} /\ resp = "ok") => applied > 0
    /\ pc = "done" => outcome.kind # None
    /\ ValueMeansDone

\* post_json leaves this host once.
CreateInv ==
    call = "post_json" =>
        /\ BeforeResponse => applied + travelling = 0
        /\ applied + travelling <= 1

\* Every failure so far was paid for from its own budget.
BudgetInv ==
    /\ pc # "done" =>
        /\ seen.net = 2 - netLeft
        /\ seen.srv = 2 - srvLeft + One(pc = "answered" /\ resp = "5xx")
        /\ seen.busy = One(retried429) + One(pc = "answered" /\ resp = "429")
        /\ attempts = 2 - netLeft + 2 - srvLeft + One(retried429) + One(Trying)
    /\ EveryKindGetsItsRetries
    /\ RetriesAreBounded

\* The flag counts the attempts that left this host without a refusal; the current one
\* is in `seen` before its answer is.
ExactInv ==
    /\ pc \in {"token", "ready", "connect"} =>
          seen.refused <= seen.left /\ (maybe <=> seen.refused < seen.left)
    /\ pc \in {"exchange", "body"} =>
          seen.refused < seen.left /\ (maybe <=> seen.refused + 1 < seen.left)
    /\ (pc = "answered" /\ resp \in Refusals) =>
          seen.refused <= seen.left /\ (maybe <=> seen.refused < seen.left)
    /\ (pc = "answered" /\ resp \notin Refusals) => seen.refused < seen.left
    /\ FlagIsExact

\* An operation begins while those before it have not used up what the attempt may
\* overrun by.
DeadlineInv ==
    /\ pc = "token" => attempts = 0
    /\ deadline # NoDeadline =>
          /\ pc = "connect" => now + timeout <= deadline + waits * timeout
          /\ pc = "exchange" => now <= deadline + waits * timeout
          /\ pc = "body" => now <= deadline + (1 + waits) * timeout
          /\ pc = "answered" => now <= deadline + (2 + waits) * timeout
    /\ OverrunIsOneAttempt

IInv == TypeOK /\ FlagInv /\ ValueInv /\ CreateInv /\ BudgetInv /\ ExactInv /\ DeadlineInv
=============================================================================
