-------------------------- MODULE RestClientProofs --------------------------
(***************************************************************************)
(* Proofs about RestClient, for every deadline, timing and Retry-After.    *)
(***************************************************************************)
EXTENDS RestClientRefines, TLAPS

\* A result keeps what it was made of.
LEMMA ResultFields ==
    ASSUME NEW kind \in Kinds, NEW may \in BOOLEAN
    PROVE  /\ Result(kind, may) \in Results
           /\ Result(kind, may).kind = kind
           /\ Result(kind, may).may = may
  BY DEF Result, Results

\* A failure or a departure counted in the history changes its own field only.
LEMMA HistoryUpdate ==
    ASSUME seen \in Histories, NEW a \in Nat, NEW b \in Nat, NEW c \in Nat
    PROVE  /\ [seen EXCEPT !.net = a] \in Histories
           /\ [seen EXCEPT !.left = a] \in Histories
           /\ [seen EXCEPT !.srv = a, !.busy = b, !.refused = c] \in Histories
  BY DEF Histories

\* What is counted in the history is a number.
LEMMA HistoryFields ==
    ASSUME seen \in Histories
    PROVE  /\ seen.net \in Nat /\ seen.srv \in Nat /\ seen.busy \in Nat
           /\ seen.left \in Nat /\ seen.refused \in Nat
  BY DEF Histories

\* What a retry wait of the loop does: the loop goes on with nothing told, or the call
\* ends with ApiDeadline and the flag given, or with a ValueError.
LEMMA SleepEffect ==
    ASSUME TypeOK, NEW t \in Nat, NEW seconds \in Int, NEW may \in BOOLEAN,
           SleepWithin(t, seconds, may)
    PROVE  /\ now' \in Nat
           /\ \/ pc' = "ready" /\ outcome' = outcome
              \/ pc' = "done" /\ outcome' = Result("ApiDeadline", may)
              \/ pc' = "done" /\ outcome' = Result("ValueError", TRUE)
<1>1. CASE Past(t + seconds) /\ now' = t /\ Finish("ApiDeadline", may)
  BY <1>1 DEF Finish
<1>2. ASSUME seconds >= 0, NEW late \in 0..MaxOversleep, now' = t + seconds + late,
             pc' = "ready", UNCHANGED outcome
      PROVE  now' \in Nat /\ pc' = "ready" /\ outcome' = outcome
  BY <1>2, TimeAssumption
<1>3. CASE ~Past(t + seconds) /\ seconds < 0 /\ now' = t /\ Finish("ValueError", TRUE)
  BY <1>3 DEF Finish
<1>4. QED
  BY <1>1, <1>2, <1>3, Zenon DEF SleepWithin

\* What the RequestError branch does: it retries while its budget lasts, or ends the
\* call with the flag as it now stands.
LEMMA NetworkErrorEffect ==
    ASSUME TypeOK, NEW d \in Durations, NEW notSent \in BOOLEAN,
           NetworkError(d, notSent)
    PROVE  /\ now' \in Nat
           /\ maybe' \in BOOLEAN
           /\ maybe' = (maybe \/ ~notSent)
           /\ seen' = [seen EXCEPT !.net = @ + 1]
           /\ \/ /\ netLeft > 0 /\ (Idempotent \/ notSent)
                 /\ netLeft' = netLeft - 1
                 /\ \/ pc' = "ready" /\ outcome' = outcome
                    \/ pc' = "done" /\ outcome' = Result("ApiDeadline", maybe')
                    \/ pc' = "done" /\ outcome' = Result("ValueError", TRUE)
              \/ /\ ~(netLeft > 0 /\ (Idempotent \/ notSent))
                 /\ netLeft' = netLeft
                 /\ pc' = "done"
                 /\ outcome' = Result("ApiTransportError", maybe')
           /\ UNCHANGED <<argVars, attemptVars, srvLeft, retried429, resp, chunks, attempts>>
<1>1. now + d \in Nat /\ (maybe \/ ~notSent) \in BOOLEAN /\ Backoff(netLeft) \in Int
  BY TimeAssumption DEF TypeOK, Backoff
<1>2. CASE netLeft > 0 /\ (Idempotent \/ notSent)
  <2>1. SleepWithin(now + d, Backoff(netLeft), maybe \/ ~notSent) /\ netLeft' = netLeft - 1
    BY <1>2 DEF NetworkError
  <2>2. QED
    BY <1>1, <1>2, <2>1, SleepEffect DEF NetworkError
<1>3. CASE ~(netLeft > 0 /\ (Idempotent \/ notSent))
  BY <1>1, <1>3 DEF NetworkError, Finish
<1>4. QED
  BY <1>2, <1>3

-----------------------------------------------------------------------------
\* Every step keeps the state well formed.
LEMMA TypeStep == TypeOK /\ [Next]_vars => TypeOK'
<1> SUFFICES ASSUME TypeOK, [Next]_vars
             PROVE  TypeOK'
  OBVIOUS
<1> USE TimeAssumption DEF TypeOK, argVars, attemptVars, clientVars, serverVars
<1>0. /\ \A k \in Kinds, b \in BOOLEAN : Result(k, b) \in Results
      /\ {"ok", "ApiAuthError", "ApiPermissionError", "ApiError429", "ApiError",
          "ApiServerError", "ApiResponseError", "ApiTransportError", "ApiDeadline",
          "ValueError"} \subseteq Kinds
  BY ResultFields DEF Kinds
<1>1. ASSUME NEW d \in TokenTimes, GetToken(d)
      PROVE  TypeOK'
  <2>1. now' \in Nat
    BY <1>1 DEF GetToken
  <2>2. pc' \in {"ready", "done"} /\ outcome' \in Results
    BY <1>0, <1>1 DEF GetToken, Finish
  <2>3. QED
    BY <1>1, <2>1, <2>2 DEF GetToken, Phases
<1>2. CASE StartAttempt
  <2>1. timeout' \in 1..OpTimeout
    BY <1>2 DEF StartAttempt, Past, Smaller
  <2>2. QED
    BY <1>2, <2>1 DEF StartAttempt, Phases
<1>3. CASE GiveUpBeforeAttempt
  <2>1. pc' = "done" /\ outcome' \in Results
    BY <1>0, <1>3 DEF GiveUpBeforeAttempt, Finish
  <2>2. QED
    BY <1>3, <2>1 DEF GiveUpBeforeAttempt, Phases
<1>4. ASSUME NEW d \in Durations, NEW notSent \in BOOLEAN, NetworkError(d, notSent),
             travelling' \in Nat, applied' \in Nat
      PROVE  TypeOK'
  <2>1. now' \in Nat /\ maybe' \in BOOLEAN
    BY <1>4, NetworkErrorEffect
  <2>3. netLeft' \in 0..2
    <3>1. (netLeft > 0 /\ netLeft' = netLeft - 1) \/ netLeft' = netLeft
      BY <1>4, NetworkErrorEffect
    <3>2. QED
      BY <3>1
  <2>2. pc' \in {"ready", "done"} /\ outcome' \in Results
    BY <1>0, <1>4, <2>1, NetworkErrorEffect
  <2>4. seen' \in Histories
    <3>1. seen.net + 1 \in Nat
      BY HistoryFields
    <3>2. QED
      BY <1>4, <3>1, HistoryUpdate DEF NetworkError
  <2>5. QED
    BY <1>4, <2>1, <2>2, <2>3, <2>4 DEF NetworkError, Phases
<1>5. ASSUME NEW d \in Durations, ConnectFails(d) \/ LoseRequest(d) \/ LoseBody(d)
      PROVE  TypeOK'
  <2>1. CASE ConnectFails(d)
    BY <1>4, <2>1 DEF ConnectFails
  <2>2. CASE LoseRequest(d)
    <3>1. travelling' \in Nat /\ applied' \in Nat
      BY <2>2 DEF LoseRequest
    <3>2. QED
      BY <1>4, <2>2, <3>1 DEF LoseRequest
  <2>3. CASE LoseBody(d)
    BY <1>4, <2>3 DEF LoseBody
  <2>4. QED
    BY <1>5, <2>1, <2>2, <2>3
<1>6. ASSUME NEW d \in Durations, Connects(d)
      PROVE  TypeOK'
  <2>1. seen' \in Histories
    <3>1. seen.left + 1 \in Nat
      BY HistoryFields
    <3>2. QED
      BY <1>6, <3>1, HistoryUpdate DEF Connects
  <2>2. QED
    BY <1>6, <2>1 DEF Connects, Phases
<1>7. ASSUME NEW d \in Durations, NEW s \in Status, NEW acts \in BOOLEAN,
             NEW size \in 0..MaxChunks, Responds(d, s, acts, size)
      PROVE  TypeOK'
  BY <1>7 DEF Responds, Phases
<1>8. ASSUME NEW d \in Durations, ReadChunk(d)
      PROVE  TypeOK'
  <2>1. pc' \in Phases /\ outcome' \in Results
    BY <1>0, <1>8 DEF ReadChunk, Finish, Phases
  <2>2. now' \in Nat /\ chunks' \in 0..MaxChunks
    BY <1>8 DEF ReadChunk
  <2>3. QED
    BY <1>8, <2>1, <2>2 DEF ReadChunk
<1>9. ASSUME NEW d \in Durations, EndOfBody(d)
      PROVE  TypeOK'
  <2>1. seen' \in Histories
    <3> DEFINE srv == IF resp = "5xx" THEN seen.srv + 1 ELSE seen.srv
               busy == IF resp = "429" THEN seen.busy + 1 ELSE seen.busy
               refused == IF resp \in Refusals THEN seen.refused + 1 ELSE seen.refused
    <3>1. srv \in Nat /\ busy \in Nat /\ refused \in Nat
      BY HistoryFields
    <3>2. seen' = [seen EXCEPT !.srv = srv, !.busy = busy, !.refused = refused]
      BY <1>9 DEF EndOfBody
    <3> HIDE DEF srv, busy, refused
    <3>3. QED
      BY <3>1, <3>2, HistoryUpdate
  <2>2. QED
    BY <1>9, <2>1 DEF EndOfBody, Phases
<1>10. ASSUME NEW seconds \in RetryAfters, RetryBusy(seconds)
       PROVE  TypeOK'
  <2>1. now' \in Nat /\ pc' \in Phases /\ outcome' \in Results
    BY <1>0, <1>10, SleepEffect DEF RetryBusy, Phases
  <2>2. QED
    BY <1>10, <2>1 DEF RetryBusy
<1>11. CASE RetryServerError
  <2>1. Backoff(srvLeft) \in Int
    BY DEF Backoff
  <2>2. now' \in Nat /\ pc' \in Phases /\ outcome' \in Results
    BY <1>0, <1>11, <2>1, SleepEffect DEF RetryServerError, Phases
  <2>3. srvLeft' \in 0..2
    BY <1>11 DEF RetryServerError, RetriesServer
  <2>4. QED
    BY <1>11, <2>2, <2>3 DEF RetryServerError
<1>12. CASE Answer
  <2>1. maybe' \in BOOLEAN
    BY <1>12 DEF Answer
  <2>2. ParseKind(resp) \in Kinds /\ AnswerMay(resp, maybe') \in BOOLEAN
    BY <1>12 DEF Answer, ParseKind, AnswerMay, ParseMay, Status, Kinds, Values
  <2>3. pc' \in Phases /\ outcome' \in Results
    BY <1>0, <1>12, <2>2 DEF Answer, Finish, Phases
  <2>4. QED
    BY <1>12, <2>1, <2>3 DEF Answer
<1>13. CASE LateArrival
  BY <1>13 DEF LateArrival
<1>14. CASE UNCHANGED vars
  BY <1>14 DEF vars
<1>15. ASSUME NEW d \in Durations, Waits(d)
       PROVE  TypeOK'
  BY <1>15 DEF Waits
<1>16. QED
  BY <1>1, <1>2, <1>3, <1>5, <1>6, <1>7, <1>8, <1>9, <1>10, <1>11, <1>12, <1>13, <1>14, <1>15
     DEF Next, ClientNext, Done

\* A call starts well formed.
LEMMA InitTyped == Init => TypeOK
<1> SUFFICES ASSUME Init
             PROVE  TypeOK
  OBVIOUS
<1>1. outcome \in Results
  BY DEF Init, Unanswered, Result, Results
<1>2. seen \in Histories
  BY DEF Init, Histories
<1>3. /\ timeout \in 1..OpTimeout /\ waits \in 0..MaxWaits
      /\ chunks \in 0..MaxChunks
      /\ netLeft \in 0..2 /\ srvLeft \in 0..2
      /\ now \in Nat /\ travelling \in Nat /\ applied \in Nat /\ attempts \in Nat
  BY TimeAssumption DEF Init
<1>4. /\ pc \in Phases /\ resp \in Status \cup {None}
      /\ pc \in {"body", "answered"} => resp \in Status
      /\ call \in Calls /\ deadline \in Deadlines \cup {NoDeadline}
      /\ retried429 \in BOOLEAN /\ maybe \in BOOLEAN
  BY DEF Init, Phases
<1>5. QED
  BY <1>1, <1>2, <1>3, <1>4 DEF TypeOK

\* The state is well formed in every reachable state.
THEOREM TypeCorrect == Spec => []TypeOK
  BY InitTyped, TypeStep, PTL DEF Spec

-----------------------------------------------------------------------------
\* The flag never understates what the API may have done.
LEMMA FlagStep == TypeOK /\ FlagInv /\ [Next]_vars => FlagInv'
<1> SUFFICES ASSUME TypeOK, FlagInv, [Next]_vars
             PROVE  FlagInv'
  OBVIOUS
<1> USE DEF FlagInv, FalseFlagMeansNotDone, Failed, Write, BeforeResponse, Values,
            argVars, clientVars, serverVars
<1>0. /\ \A k \in Kinds, b \in BOOLEAN :
            Result(k, b).kind = k /\ Result(k, b).may = b
      /\ {"ok", "declined", "ApiAuthError", "ApiTransportError", "ApiDeadline",
          "ValueError"} \subseteq Kinds
      /\ maybe \in BOOLEAN /\ travelling \in Nat /\ applied \in Nat
  BY ResultFields DEF Kinds, TypeOK
<1>1. ASSUME NEW d \in TokenTimes, GetToken(d)
      PROVE  FlagInv'
  <2>1. pc' \in {"ready", "done"}
    BY <1>1 DEF GetToken, Finish
  <2>2. QED
    BY <1>1, <2>1 DEF GetToken
<1>2. CASE StartAttempt
  BY <1>2 DEF StartAttempt
<1>3. CASE GiveUpBeforeAttempt
  <2>1. pc' = "done" /\ outcome'.may = maybe
    BY <1>0, <1>3 DEF GiveUpBeforeAttempt, Finish
  <2>2. QED
    BY <1>3, <2>1 DEF GiveUpBeforeAttempt
<1>4. ASSUME NEW d \in Durations, NEW notSent \in BOOLEAN, NetworkError(d, notSent)
      PROVE  /\ maybe' = (maybe \/ ~notSent)
             /\ pc' = "ready" \/ (pc' = "done" /\ ((outcome'.may <=> maybe') \/ outcome'.may))
             /\ pc' \in {"ready", "done"}
             /\ call' = call
  BY <1>0, <1>4, NetworkErrorEffect
<1>5. ASSUME NEW d \in Durations, ConnectFails(d)
      PROVE  FlagInv'
  BY <1>4, <1>5 DEF ConnectFails
<1>6. ASSUME NEW d \in Durations, LoseRequest(d) \/ LoseBody(d)
      PROVE  FlagInv'
  <2>1. NetworkError(d, FALSE)
    BY <1>6 DEF LoseRequest, LoseBody
  <2>2. QED
    BY <1>4, <2>1
<1>7. ASSUME NEW d \in Durations, Connects(d)
      PROVE  FlagInv'
  BY <1>7 DEF Connects
<1>8. ASSUME NEW d \in Durations, NEW s \in Status, NEW acts \in BOOLEAN,
             NEW size \in 0..MaxChunks, Responds(d, s, acts, size)
      PROVE  FlagInv'
  <2>1. s \in Refusals => ~acts
    BY <1>8 DEF Responds, ActsOn, Refusals
  <2>2. QED
    BY <1>8, <2>1 DEF Responds
<1>9. ASSUME NEW d \in Durations, ReadChunk(d)
      PROVE  FlagInv'
  <2>1. CASE Finish("ApiDeadline", TRUE)
    BY <1>0, <1>9, <2>1 DEF ReadChunk, Finish
  <2>2. CASE UNCHANGED <<pc, outcome>>
    BY <1>9, <2>2 DEF ReadChunk
  <2>3. QED
    BY <1>9, <2>1, <2>2 DEF ReadChunk
<1>10. ASSUME NEW d \in Durations, EndOfBody(d)
       PROVE  FlagInv'
  BY <1>10 DEF EndOfBody
<1>11. ASSUME NEW seconds \in RetryAfters, RetryBusy(seconds)
       PROVE  FlagInv'
  <2>1. now \in Nat /\ seconds \in Int
    BY TimeAssumption DEF TypeOK
  <2>2. /\ pc' \in {"ready", "done"}
        /\ pc' = "done" => outcome'.may \/ (outcome'.may <=> maybe)
    BY <1>0, <1>11, <2>1, SleepEffect DEF RetryBusy
  <2>3. resp \in Refusals
    BY <1>11 DEF RetryBusy, RetriesBusy, Refusals
  <2>4. QED
    BY <1>11, <2>2, <2>3 DEF RetryBusy
<1>12. CASE RetryServerError
  <2>1. now \in Nat /\ Backoff(srvLeft) \in Int
    BY DEF TypeOK, Backoff
  <2>2. pc' = "ready" \/ (pc' = "done" /\ outcome'.may)
    BY <1>0, <1>12, <2>1, SleepEffect DEF RetryServerError
  <2>3. QED
    BY <1>12, <2>2 DEF RetryServerError
<1>13. CASE Answer
  <2>1. /\ ParseKind(resp) \in Kinds
        /\ AnswerMay(resp, maybe') \in BOOLEAN
        /\ resp \in Status
    BY <1>13 DEF Answer, ParseKind, AnswerMay, ParseMay, Status, Kinds, Values, TypeOK
  <2>2. /\ pc' = "done"
        /\ outcome'.kind = ParseKind(resp)
        /\ outcome'.may = AnswerMay(resp, maybe')
    BY <1>0, <1>13, <2>1 DEF Answer, Finish
  <2>3. CASE resp \in Refusals
    BY <1>13, <2>2, <2>3 DEF Answer, AnswerMay, Refusals
  <2>4. CASE resp \in Values
    BY <1>13, <2>2, <2>4 DEF Answer, ParseKind, Values
  <2>5. CASE resp \in {"nonjson", "5xx"}
    BY <1>13, <2>2, <2>5 DEF Answer, AnswerMay, ParseMay
  <2>6. QED
    BY <2>1, <2>3, <2>4, <2>5 DEF Status, Refusals, Values
<1>14. CASE LateArrival
  <2>1. maybe /\ ~(Failed /\ Write /\ ~outcome.may)
    BY <1>0, <1>14 DEF LateArrival
  <2>2. QED
    BY <1>14, <2>1 DEF LateArrival
<1>15. CASE UNCHANGED vars
  BY <1>15 DEF vars
<1>16. ASSUME NEW d \in Durations, Waits(d)
       PROVE  FlagInv'
  BY <1>16 DEF Waits
<1>17. QED
  BY <1>1, <1>2, <1>3, <1>5, <1>6, <1>7, <1>8, <1>9, <1>10, <1>11, <1>12, <1>13, <1>14, <1>15, <1>16
     DEF Next, ClientNext, Done

\* Whatever the network and the deadline do, a write reported as not done was not
\* done and never will be.
THEOREM FlagIsSound == Spec => []FalseFlagMeansNotDone
<1>1. Init => FlagInv
  BY DEF Init, FlagInv, FalseFlagMeansNotDone, Failed
<1>2. FlagInv => FalseFlagMeansNotDone
  BY DEF FlagInv
<1>3. QED
  BY <1>1, <1>2, FlagStep, TypeCorrect, PTL DEF Spec
-----------------------------------------------------------------------------
\* A creation leaves this host in one attempt only.
LEMMA CreateStep == TypeOK /\ CreateInv /\ [Next]_vars => CreateInv'
<1> SUFFICES ASSUME TypeOK, CreateInv, [Next]_vars, call' = "post_json"
             PROVE  /\ BeforeResponse' => applied' + travelling' = 0
                    /\ applied' + travelling' <= 1
  BY DEF CreateInv
<1> DEFINE Once == /\ BeforeResponse' => applied' + travelling' = 0
                   /\ applied' + travelling' <= 1
<1>0. /\ call = "post_json" /\ ~Idempotent
      /\ BeforeResponse => applied + travelling = 0
      /\ applied + travelling <= 1
      /\ applied \in Nat /\ travelling \in Nat
  <2>1. call' = call
    BY DEF Next, ClientNext, Done, GetToken, StartAttempt, GiveUpBeforeAttempt, Waits,
           ConnectFails, Connects, LoseRequest, LoseBody, NetworkError, Responds, ReadChunk, EndOfBody,
           RetryBusy, RetryServerError, Answer, LateArrival, vars, argVars
  <2>2. QED
    BY <2>1 DEF CreateInv, Idempotent, TypeOK
<1> USE <1>0 DEF BeforeResponse, serverVars, argVars
<1>1. ASSUME NEW d \in TokenTimes, GetToken(d)
      PROVE  Once
  BY <1>1 DEF GetToken
<1>2. CASE StartAttempt \/ GiveUpBeforeAttempt
  BY <1>2 DEF StartAttempt, GiveUpBeforeAttempt
<1>3. ASSUME NEW d \in Durations, ConnectFails(d) \/ Connects(d)
      PROVE  Once
  BY <1>3 DEF ConnectFails, Connects
<1>4. ASSUME NEW d \in Durations, LoseRequest(d) \/ LoseBody(d)
      PROVE  Once
  <2>1. NetworkError(d, FALSE)
    BY <1>4 DEF LoseRequest, LoseBody
  <2>2. pc' = "done"
    BY <2>1, NetworkErrorEffect
  <2>3. CASE LoseRequest(d)
    BY <2>2, <2>3 DEF LoseRequest
  <2>4. CASE LoseBody(d)
    BY <2>2, <2>4 DEF LoseBody
  <2>5. QED
    BY <1>4, <2>3, <2>4
<1>5. ASSUME NEW d \in Durations, NEW s \in Status, NEW acts \in BOOLEAN,
             NEW size \in 0..MaxChunks, Responds(d, s, acts, size)
      PROVE  Once
  BY <1>5 DEF Responds
<1>6. ASSUME NEW d \in Durations, ReadChunk(d) \/ EndOfBody(d)
      PROVE  Once
  <2>1. pc' # "ready" /\ pc' \in {"body", "answered", "done"}
    BY <1>6 DEF ReadChunk, EndOfBody, Finish
  <2>2. QED
    BY <1>6, <2>1 DEF ReadChunk, EndOfBody
<1>7. ASSUME NEW seconds \in RetryAfters
      PROVE  ~RetryBusy(seconds)
  BY DEF RetryBusy, RetriesBusy
<1>8. ~RetryServerError
  BY DEF RetryServerError, RetriesServer
<1>9. CASE Answer
  BY <1>9 DEF Answer, Finish
<1>10. CASE LateArrival
  BY <1>10 DEF LateArrival
<1>11. CASE UNCHANGED vars
  BY <1>11 DEF vars
<1>12. ASSUME NEW d \in Durations, Waits(d)
       PROVE  Once
  BY <1>12 DEF Waits
<1>13. QED
  BY <1>1, <1>2, <1>3, <1>4, <1>5, <1>6, <1>7, <1>8, <1>9, <1>10, <1>11, <1>12
     DEF Next, ClientNext, Done

\* post_json makes the API create at most one object, whatever is lost or late.
THEOREM CreationIsUnique == Spec => []CreatesAtMostOnce
<1>1. Init => CreateInv
  BY DEF Init, CreateInv
<1>2. CreateInv => CreatesAtMostOnce
  BY DEF CreateInv, CreatesAtMostOnce
<1>3. QED
  BY <1>1, <1>2, CreateStep, TypeCorrect, PTL DEF Spec

-----------------------------------------------------------------------------
\* A value that is being read, or was returned, has an effect behind it.
LEMMA ValueStep == TypeOK /\ ValueInv /\ [Next]_vars => ValueInv'
<1> SUFFICES ASSUME TypeOK, ValueInv, [Next]_vars
             PROVE  ValueInv'
  OBVIOUS
<1>0. /\ \A k \in Kinds, b \in BOOLEAN : Result(k, b).kind = k
      /\ {"ok", "declined", "ApiAuthError", "ApiTransportError", "ApiDeadline",
          "ValueError"} \subseteq Kinds
      /\ maybe \in BOOLEAN /\ travelling \in Nat /\ applied \in Nat
  BY ResultFields DEF Kinds, TypeOK
<1> USE DEF ValueInv, ValueMeansDone, None, argVars, clientVars, serverVars
<1>1. ASSUME pc' \in {"ready", "done"},
             pc' = "done" => outcome'.kind \notin {"ok", None}
      PROVE  ValueInv'
  BY <1>1
<1>2. ASSUME NEW d \in TokenTimes, GetToken(d)
      PROVE  ValueInv'
  BY <1>0, <1>1, <1>2 DEF GetToken, Finish
<1>3. CASE StartAttempt
  BY <1>3 DEF StartAttempt
<1>4. CASE GiveUpBeforeAttempt
  BY <1>0, <1>1, <1>4 DEF GiveUpBeforeAttempt, Finish
<1>5. ASSUME NEW d \in Durations, NEW notSent \in BOOLEAN, NetworkError(d, notSent)
      PROVE  ValueInv'
  <2>1. maybe' \in BOOLEAN
    BY <1>5, NetworkErrorEffect
  <2>2. QED
    BY <1>0, <1>1, <1>5, <2>1, NetworkErrorEffect
<1>6. ASSUME NEW d \in Durations, ConnectFails(d) \/ LoseRequest(d) \/ LoseBody(d)
      PROVE  ValueInv'
  <2>1. NetworkError(d, TRUE) \/ NetworkError(d, FALSE)
    BY <1>6 DEF ConnectFails, LoseRequest, LoseBody
  <2>2. QED
    BY <1>5, <2>1
<1>7. ASSUME NEW d \in Durations, Connects(d)
      PROVE  ValueInv'
  BY <1>7 DEF Connects
<1>8. ASSUME NEW d \in Durations, NEW s \in Status, NEW acts \in BOOLEAN,
             NEW size \in 0..MaxChunks, Responds(d, s, acts, size)
      PROVE  ValueInv'
  <2>1. s = "ok" => acts
    BY <1>8 DEF Responds, ActsOn
  <2>2. pc' = "body" /\ resp' = s /\ (acts => applied' > 0)
    BY <1>0, <1>8 DEF Responds
  <2>3. QED
    BY <2>1, <2>2
<1>9. ASSUME NEW d \in Durations, ReadChunk(d)
      PROVE  ValueInv'
  <2>1. CASE Finish("ApiDeadline", TRUE)
    BY <1>0, <1>1, <2>1 DEF Finish
  <2>2. CASE UNCHANGED <<pc, outcome>>
    BY <1>9, <2>2 DEF ReadChunk
  <2>3. QED
    BY <1>9, <2>1, <2>2 DEF ReadChunk
<1>10. ASSUME NEW d \in Durations, EndOfBody(d)
       PROVE  ValueInv'
  BY <1>10 DEF EndOfBody
<1>11. ASSUME NEW seconds \in RetryAfters, RetryBusy(seconds)
       PROVE  ValueInv'
  <2>1. now \in Nat /\ seconds \in Int
    BY TimeAssumption DEF TypeOK
  <2>2. QED
    BY <1>0, <1>1, <1>11, <2>1, SleepEffect DEF RetryBusy
<1>12. CASE RetryServerError
  <2>1. now \in Nat /\ Backoff(srvLeft) \in Int
    BY DEF TypeOK, Backoff
  <2>2. QED
    BY <1>0, <1>1, <1>12, <2>1, SleepEffect DEF RetryServerError
<1>13. CASE Answer
  <2>1. /\ ParseKind(resp) \in Kinds
        /\ AnswerMay(resp, maybe') \in BOOLEAN
        /\ resp \in Status
    BY <1>13 DEF Answer, ParseKind, AnswerMay, ParseMay, Status, Kinds, Values, TypeOK
  <2>2. pc' = "done" /\ outcome'.kind = ParseKind(resp)
    BY <1>0, <1>13, <2>1 DEF Answer, Finish
  <2>3. ParseKind(resp) # None /\ (ParseKind(resp) = "ok" => resp = "ok")
    BY <2>1 DEF ParseKind, Status
  <2>4. QED
    BY <1>13, <2>2, <2>3 DEF Answer
<1>14. CASE LateArrival
  BY <1>0, <1>14 DEF LateArrival
<1>15. CASE UNCHANGED vars
  BY <1>15 DEF vars
<1>16. ASSUME NEW d \in Durations, Waits(d)
       PROVE  ValueInv'
  BY <1>16 DEF Waits
<1>17. QED
  BY <1>2, <1>3, <1>4, <1>6, <1>7, <1>8, <1>9, <1>10, <1>11, <1>12, <1>13, <1>14, <1>15, <1>16
     DEF Next, ClientNext, Done

\* A value returned by the client means the API acted on the request.
THEOREM ValueIsSound == Spec => []ValueMeansDone
<1>1. Init => ValueInv
  BY DEF Init, ValueInv, ValueMeansDone
<1>2. ValueInv => ValueMeansDone
  BY DEF ValueInv
<1>3. QED
  BY <1>1, <1>2, ValueStep, TypeCorrect, PTL DEF Spec
-----------------------------------------------------------------------------
\* A failure is counted in its own field.
LEMMA HistoryCounts ==
    ASSUME seen \in Histories, NEW a \in Nat, NEW b \in Nat, NEW c \in Nat
    PROVE  /\ LET h == [seen EXCEPT !.net = a] IN
                  h.net = a /\ h.srv = seen.srv /\ h.busy = seen.busy
           /\ LET h == [seen EXCEPT !.left = a] IN
                  h.net = seen.net /\ h.srv = seen.srv /\ h.busy = seen.busy
           /\ LET h == [seen EXCEPT !.srv = a, !.busy = b, !.refused = c] IN
                  h.net = seen.net /\ h.srv = a /\ h.busy = b
  BY DEF Histories

\* The budgets as numbers while the call goes on.
Counts ==
    /\ pc # "done"
    /\ seen.net = 2 - netLeft
    /\ seen.srv = 2 - srvLeft + One(pc = "answered" /\ resp = "5xx")
    /\ seen.busy = One(retried429) + One(pc = "answered" /\ resp = "429")
    /\ attempts = 2 - netLeft + 2 - srvLeft + One(retried429) + One(Trying)

\* As long as the call goes on, these numbers are the whole invariant.
LEMMA CountsSuffice == TypeOK /\ Counts => BudgetInv
<1> SUFFICES ASSUME TypeOK, Counts
             PROVE  BudgetInv
  OBVIOUS
<1>1. netLeft \in 0..2 /\ srvLeft \in 0..2 /\ retried429 \in BOOLEAN
  BY DEF TypeOK
<1>2. RetriesAreBounded
  BY <1>1 DEF Counts, RetriesAreBounded, One
<1>3. QED
  BY <1>2 DEF BudgetInv, Counts, EveryKindGetsItsRetries, Failed

\* Each failure is paid for from its own budget, and only the last one is not.
LEMMA BudgetStep == TypeOK /\ BudgetInv /\ [Next]_vars => BudgetInv'
<1> SUFFICES ASSUME TypeOK, BudgetInv, [Next]_vars
             PROVE  BudgetInv'
  OBVIOUS
<1> USE DEF argVars, clientVars, serverVars
<1>0. /\ \A k, b : Result(k, b).kind = k
      /\ netLeft \in 0..2 /\ srvLeft \in 0..2 /\ retried429 \in BOOLEAN /\ attempts \in Nat
      /\ pc # "done" => Counts
      /\ EveryKindGetsItsRetries /\ RetriesAreBounded
      /\ \A b : One(b) \in 0..1
      /\ One(TRUE) = 1 /\ One(FALSE) = 0
  BY DEF Result, TypeOK, BudgetInv, Counts, One
<1>1. /\ seen.net \in Nat /\ seen.srv \in Nat /\ seen.busy \in Nat
      /\ seen.left \in Nat /\ seen.refused \in Nat /\ seen \in Histories
  BY HistoryFields DEF TypeOK
<1>2. ASSUME Counts'
      PROVE  BudgetInv'
  BY <1>2, TypeStep, CountsSuffice, PTL
<1>3. ASSUME pc' = "done", RetriesAreBounded',
             outcome'.kind \notin {"ApiServerError", "ApiTransportError", "ApiError429"}
      PROVE  BudgetInv'
  BY <1>3 DEF BudgetInv, EveryKindGetsItsRetries
<1>4. ASSUME UNCHANGED <<netLeft, srvLeft, retried429, seen, attempts>>
      PROVE  /\ netLeft' \in 0..2 /\ srvLeft' \in 0..2 /\ retried429' \in BOOLEAN
             /\ RetriesAreBounded'
  BY <1>0, <1>4 DEF RetriesAreBounded
<1>5. ASSUME NEW d \in TokenTimes, GetToken(d)
      PROVE  BudgetInv'
  <2>1. UNCHANGED <<netLeft, srvLeft, retried429, seen, attempts, resp>> /\ pc = "token"
    BY <1>5 DEF GetToken
  <2>2. CASE pc' = "ready"
    <3>1. Counts'
      BY <1>0, <2>1, <2>2 DEF Counts, One, Trying
    <3>2. QED
      BY <1>2, <1>4, <2>1, <2>2, <3>1
  <2>3. CASE pc' = "done" /\ outcome'.kind \in {"ApiAuthError", "ApiDeadline"}
    BY <1>3, <1>4, <2>1, <2>3
  <2>4. QED
    BY <1>0, <1>5, <2>2, <2>3 DEF GetToken, Finish
<1>6. CASE StartAttempt
  <2>1. Counts'
    BY <1>0, <1>6 DEF StartAttempt, Counts, One, Trying
  <2>2. QED
    BY <1>0, <1>2, <1>6, <2>1 DEF StartAttempt
<1>7. CASE GiveUpBeforeAttempt
  BY <1>0, <1>3, <1>4, <1>7 DEF GiveUpBeforeAttempt, Finish
<1>8. ASSUME NEW d \in Durations, NEW notSent \in BOOLEAN, NetworkError(d, notSent),
             pc \in {"connect", "exchange", "body"}
      PROVE  BudgetInv'
  <2>1. /\ seen.net = 2 - netLeft /\ seen.srv = 2 - srvLeft /\ seen.busy = One(retried429)
        /\ attempts = 5 - netLeft - srvLeft + One(retried429)
    BY <1>0, <1>8 DEF Counts, One, Trying
  <2>2. /\ UNCHANGED <<call, srvLeft, retried429, attempts>>
        /\ maybe' \in BOOLEAN
    BY <1>8, NetworkErrorEffect
  <2>3. seen'.net = seen.net + 1 /\ seen'.srv = seen.srv /\ seen'.busy = seen.busy
    BY <1>1, <1>8, HistoryCounts DEF NetworkError
  <2>4. netLeft' \in 0..2 /\ (netLeft' = netLeft \/ netLeft' = netLeft - 1)
    <3>1. (netLeft > 0 /\ netLeft' = netLeft - 1) \/ netLeft' = netLeft
      BY <1>8, NetworkErrorEffect
    <3>2. QED
      BY <1>0, <3>1
  <2>5. RetriesAreBounded'
    BY <1>0, <2>1, <2>2, <2>3 DEF RetriesAreBounded
  <2>6. CASE pc' = "ready"
    <3>1. netLeft' = netLeft - 1
      BY <1>8, <2>6, NetworkErrorEffect
    <3>2. Counts'
      BY <1>0, <2>1, <2>2, <2>3, <2>6, <3>1 DEF Counts, One, Trying
    <3>3. QED
      BY <1>0, <1>2, <2>2, <2>4, <2>6, <3>2
  <2>7. CASE pc' = "done" /\ outcome'.kind \in {"ApiDeadline", "ValueError"}
    BY <1>3, <2>5, <2>7
  <2>8. CASE /\ pc' = "done"
             /\ outcome'.kind = "ApiTransportError"
             /\ ~(netLeft > 0 /\ (Idempotent \/ notSent))
    <3>1. Idempotent' => seen'.net = 3
      BY <1>0, <2>1, <2>2, <2>3, <2>8 DEF Idempotent
    <3>2. QED
      BY <2>5, <2>8, <3>1 DEF BudgetInv, EveryKindGetsItsRetries
  <2>9. QED
    BY <1>0, <1>8, <2>2, <2>6, <2>7, <2>8, NetworkErrorEffect
<1>9. ASSUME NEW d \in Durations, ConnectFails(d) \/ LoseRequest(d) \/ LoseBody(d)
      PROVE  BudgetInv'
  <2>1. /\ NetworkError(d, TRUE) \/ NetworkError(d, FALSE)
        /\ pc \in {"connect", "exchange", "body"}
    BY <1>9 DEF ConnectFails, LoseRequest, LoseBody
  <2>2. QED
    BY <1>8, <2>1
<1>10. ASSUME NEW d \in Durations, Connects(d)
       PROVE  BudgetInv'
  <2>1. seen'.net = seen.net /\ seen'.srv = seen.srv /\ seen'.busy = seen.busy
    <3>1. seen.left + 1 \in Nat
      BY <1>1
    <3>2. QED
      BY <1>1, <1>10, <3>1, HistoryCounts DEF Connects
  <2>2. Counts'
    BY <1>0, <1>10, <2>1 DEF Connects, Counts, One, Trying
  <2>3. QED
    BY <1>0, <1>2, <1>10, <2>2 DEF Connects
<1>11. ASSUME NEW d \in Durations, NEW s \in Status, NEW acts \in BOOLEAN,
              NEW size \in 0..MaxChunks, Responds(d, s, acts, size)
       PROVE  BudgetInv'
  <2>1. Counts'
    BY <1>0, <1>11 DEF Responds, Counts, One, Trying
  <2>2. QED
    BY <1>0, <1>2, <1>11, <2>1 DEF Responds
<1>12. ASSUME NEW d \in Durations, ReadChunk(d)
       PROVE  BudgetInv'
  <2>1. UNCHANGED <<netLeft, srvLeft, retried429, seen, attempts, resp>> /\ pc = "body"
    BY <1>12 DEF ReadChunk
  <2>2. CASE Finish("ApiDeadline", TRUE)
    <3>1. pc' = "done" /\ outcome'.kind = "ApiDeadline"
      BY <1>0, <2>2 DEF Finish
    <3>2. QED
      BY <1>3, <1>4, <2>1, <3>1
  <2>3. CASE UNCHANGED <<pc, outcome>>
    <3>1. Counts'
      BY <1>0, <2>1, <2>3 DEF Counts, One, Trying
    <3>2. QED
      BY <1>2, <1>4, <2>1, <2>3, <3>1
  <2>4. QED
    BY <1>12, <2>2, <2>3 DEF ReadChunk
<1>13. ASSUME NEW d \in Durations, EndOfBody(d)
       PROVE  BudgetInv'
  <2>1. /\ seen'.net = seen.net
        /\ seen'.srv = seen.srv + One(resp = "5xx")
        /\ seen'.busy = seen.busy + One(resp = "429")
    <3>1. /\ seen.srv + 1 \in Nat /\ seen.busy + 1 \in Nat /\ seen.refused + 1 \in Nat
      BY <1>1
    <3>2. /\ (IF resp = "5xx" THEN seen.srv + 1 ELSE seen.srv) \in Nat
          /\ (IF resp = "429" THEN seen.busy + 1 ELSE seen.busy) \in Nat
          /\ (IF resp \in Refusals THEN seen.refused + 1 ELSE seen.refused) \in Nat
      BY <1>1, <3>1
    <3>3. /\ seen'.net = seen.net
          /\ seen'.srv = IF resp = "5xx" THEN seen.srv + 1 ELSE seen.srv
          /\ seen'.busy = IF resp = "429" THEN seen.busy + 1 ELSE seen.busy
      BY <1>1, <1>13, <3>2, HistoryCounts DEF EndOfBody
    <3>4. QED
      BY <1>1, <3>3 DEF One
  <2>2. Counts'
    BY <1>0, <1>13, <2>1 DEF EndOfBody, Counts, One, Trying
  <2>3. QED
    BY <1>0, <1>2, <1>13, <2>2 DEF EndOfBody
\* A retry after an answer: the budget of its kind pays for it.
<1>14. ASSUME NEW seconds \in RetryAfters, RetryBusy(seconds)
       PROVE  BudgetInv'
  <2>1. now \in Nat /\ seconds \in Int /\ maybe \in BOOLEAN
    BY TimeAssumption DEF TypeOK
  <2>2. /\ ~retried429 /\ retried429' = TRUE /\ resp = "429" /\ pc = "answered"
        /\ UNCHANGED <<netLeft, srvLeft, attempts, seen>>
    BY <1>14 DEF RetryBusy, RetriesBusy
  <2>3. \/ pc' = "ready"
        \/ pc' = "done" /\ outcome'.kind \in {"ApiDeadline", "ValueError"}
    BY <1>0, <1>14, <2>1, SleepEffect DEF RetryBusy
  <2>4. RetriesAreBounded'
    BY <1>0, <2>2 DEF RetriesAreBounded
  <2>5. CASE pc' = "ready"
    <3>1. Counts'
      BY <1>0, <2>2, <2>5 DEF Counts, One, Trying
    <3>2. QED
      BY <1>0, <1>2, <2>2, <2>5, <3>1
  <2>6. QED
    BY <1>3, <2>3, <2>4, <2>5
<1>15. CASE RetryServerError
  <2>1. now \in Nat /\ Backoff(srvLeft) \in Int
    BY DEF TypeOK, Backoff
  <2>2. /\ srvLeft > 0 /\ srvLeft' = srvLeft - 1 /\ resp = "5xx" /\ pc = "answered"
        /\ UNCHANGED <<netLeft, retried429, attempts, seen>>
    BY <1>15 DEF RetryServerError, RetriesServer
  <2>3. \/ pc' = "ready"
        \/ pc' = "done" /\ outcome'.kind \in {"ApiDeadline", "ValueError"}
    BY <1>0, <1>15, <2>1, SleepEffect DEF RetryServerError
  <2>4. RetriesAreBounded'
    BY <1>0, <2>2 DEF RetriesAreBounded
  <2>5. CASE pc' = "ready"
    <3>1. Counts'
      BY <1>0, <2>2, <2>5 DEF Counts, One, Trying
    <3>2. QED
      BY <1>0, <1>2, <2>2, <2>5, <3>1
  <2>6. QED
    BY <1>3, <2>3, <2>4, <2>5
<1>16. CASE Answer
  <2>1. /\ ParseKind(resp) \in Kinds
        /\ AnswerMay(resp, maybe') \in BOOLEAN
        /\ resp \in Status
    BY <1>16 DEF Answer, ParseKind, AnswerMay, ParseMay, Status, Kinds, Values, TypeOK
  <2>2. /\ pc = "answered" /\ Settled
        /\ pc' = "done" /\ outcome'.kind = ParseKind(resp)
        /\ UNCHANGED <<call, netLeft, srvLeft, retried429, attempts, seen>>
    BY <1>0, <1>16, <2>1 DEF Answer, Finish
  <2>3. /\ ParseKind(resp) = "ApiServerError" => resp = "5xx"
        /\ ParseKind(resp) = "ApiError429" => resp = "429"
        /\ ParseKind(resp) # "ApiTransportError"
    BY <2>1 DEF ParseKind, Status
  <2>4. (Idempotent /\ resp = "5xx") => seen.srv = 3
    BY <1>0, <2>2 DEF Settled, RetriesServer, Counts, One
  <2>5. (Idempotent /\ resp = "429") => seen.busy = 2
    BY <1>0, <2>2 DEF Settled, RetriesBusy, Counts, One
  <2>6. Idempotent' = Idempotent
    BY <2>2 DEF Idempotent
  <2>7. QED
    BY <1>4, <2>2, <2>3, <2>4, <2>5, <2>6 DEF BudgetInv, EveryKindGetsItsRetries
<1>17. CASE LateArrival \/ UNCHANGED vars
  <2>1. UNCHANGED <<call, pc, netLeft, srvLeft, retried429, resp, outcome, attempts, seen>>
    BY <1>17 DEF LateArrival, vars
  <2>2. QED
    BY <2>1 DEF BudgetInv, EveryKindGetsItsRetries, RetriesAreBounded, Failed, Idempotent,
                Trying, One
<1>18. ASSUME NEW d \in Durations, Waits(d)
       PROVE  BudgetInv'
  <2>1. UNCHANGED <<call, pc, netLeft, srvLeft, retried429, resp, outcome, attempts, seen>>
    BY <1>18 DEF Waits
  <2>2. QED
    BY <2>1 DEF BudgetInv, EveryKindGetsItsRetries, RetriesAreBounded, Failed, Idempotent,
                Trying, One
<1>19. QED
  BY <1>5, <1>6, <1>7, <1>9, <1>10, <1>11, <1>12, <1>13, <1>14, <1>15, <1>16, <1>17, <1>18
     DEF Next, ClientNext, Done

\* The budgets add up in every reachable state (client.py:301-308).
LEMMA BudgetHolds == Spec => []BudgetInv
<1>1. Init => BudgetInv
  BY DEF Init, BudgetInv, EveryKindGetsItsRetries, RetriesAreBounded, Failed, Trying, One
<1>2. QED
  BY <1>1, BudgetStep, TypeCorrect, PTL DEF Spec

\* No failure of one kind takes a retry from another.
THEOREM RetriesAreSeparate == Spec => []EveryKindGetsItsRetries
<1>1. BudgetInv => EveryKindGetsItsRetries
  BY DEF BudgetInv
<1>2. QED
  BY <1>1, BudgetHolds, PTL

\* No mixture of failures makes a call try more than six times.
THEOREM AttemptsAreBounded == Spec => []RetriesAreBounded
<1>1. BudgetInv => RetriesAreBounded
  BY DEF BudgetInv
<1>2. QED
  BY <1>1, BudgetHolds, PTL
-----------------------------------------------------------------------------
\* The flag never overstates it either: it rises only with an attempt that left this
\* host and was not refused.
LEMMA ExactStep == TypeOK /\ FlagInv /\ ExactInv /\ [Next]_vars => ExactInv'
<1> SUFFICES ASSUME TypeOK, FlagInv, ExactInv, [Next]_vars
             PROVE  ExactInv'
  OBVIOUS
<1> USE DEF ExactInv, FlagIsExact, Failed, Write, Values, argVars, clientVars
<1>0. /\ \A k \in Kinds, b \in BOOLEAN :
            Result(k, b).kind = k /\ Result(k, b).may = b
      /\ {"ok", "declined", "ApiAuthError", "ApiTransportError", "ApiDeadline",
          "ValueError"} \subseteq Kinds
      /\ maybe \in BOOLEAN /\ seen.left \in Nat /\ seen.refused \in Nat
  BY ResultFields, HistoryFields DEF Kinds, TypeOK
<1>1. ASSUME NEW d \in TokenTimes, GetToken(d)
      PROVE  ExactInv'
  <2>1. /\ pc = "token" /\ ~maybe
        /\ UNCHANGED <<call, maybe, seen, resp>>
    BY <1>1 DEF GetToken, FlagInv
  <2>2. pc' = "ready" \/ (pc' = "done" /\ ~outcome'.may)
    BY <1>0, <1>1 DEF GetToken, Finish
  <2>3. QED
    BY <1>0, <2>1, <2>2
<1>2. CASE StartAttempt
  BY <1>2 DEF StartAttempt
<1>3. CASE GiveUpBeforeAttempt
  <2>1. pc' = "done" /\ outcome'.may = maybe
    BY <1>0, <1>3 DEF GiveUpBeforeAttempt, Finish
  <2>2. QED
    BY <1>0, <1>3, <2>1 DEF GiveUpBeforeAttempt
<1>4. ASSUME NEW d \in Durations, NEW notSent \in BOOLEAN, NetworkError(d, notSent)
      PROVE  /\ maybe' = (maybe \/ ~notSent)
             /\ \/ pc' = "ready"
                \/ pc' = "done" /\ (outcome'.may <=> maybe')
                \/ pc' = "done" /\ outcome'.kind = "ValueError"
             /\ seen'.left = seen.left /\ seen'.refused = seen.refused
             /\ call' = call
  <2>1. seen' = [seen EXCEPT !.net = @ + 1]
    BY <1>4, NetworkErrorEffect
  <2>2. seen'.left = seen.left /\ seen'.refused = seen.refused
    BY <2>1 DEF TypeOK, Histories
  <2>3. maybe' \in BOOLEAN /\ maybe' = (maybe \/ ~notSent) /\ call' = call
    BY <1>4, NetworkErrorEffect
  <2>4. \/ pc' = "ready"
        \/ pc' = "done" /\ outcome' = Result("ApiDeadline", maybe')
        \/ pc' = "done" /\ outcome' = Result("ValueError", TRUE)
        \/ pc' = "done" /\ outcome' = Result("ApiTransportError", maybe')
    BY <1>4, NetworkErrorEffect, Zenon
  <2>5. QED
    BY <1>0, <2>2, <2>3, <2>4
<1>5. ASSUME NEW d \in Durations, ConnectFails(d)
      PROVE  ExactInv'
  <2>1. NetworkError(d, TRUE) /\ pc = "connect"
    BY <1>5 DEF ConnectFails
  <2>2. QED
    BY <1>0, <1>4, <2>1
<1>6. ASSUME NEW d \in Durations, LoseRequest(d) \/ LoseBody(d)
      PROVE  ExactInv'
  <2>1. NetworkError(d, FALSE) /\ pc \in {"exchange", "body"}
    BY <1>6 DEF LoseRequest, LoseBody
  <2>2. /\ maybe'
        /\ \/ pc' = "ready"
           \/ pc' = "done" /\ outcome'.may
           \/ pc' = "done" /\ outcome'.kind = "ValueError"
        /\ seen'.left = seen.left /\ seen'.refused = seen.refused
    BY <1>4, <2>1
  <2>3. QED
    BY <1>0, <2>1, <2>2
<1>7. ASSUME NEW d \in Durations, Connects(d)
      PROVE  ExactInv'
  <2>1. seen'.left = seen.left + 1 /\ seen'.refused = seen.refused
    BY <1>7 DEF Connects, TypeOK, Histories
  <2>2. /\ pc = "connect" /\ pc' = "exchange"
        /\ UNCHANGED <<call, maybe, resp>>
    BY <1>7 DEF Connects
  <2>3. QED
    BY <1>0, <2>1, <2>2
<1>8. ASSUME NEW d \in Durations, NEW s \in Status, NEW acts \in BOOLEAN,
             NEW size \in 0..MaxChunks, Responds(d, s, acts, size)
      PROVE  ExactInv'
  BY <1>8 DEF Responds
<1>9. ASSUME NEW d \in Durations, ReadChunk(d)
      PROVE  ExactInv'
  <2>1. CASE Finish("ApiDeadline", TRUE)
    <3>1. pc' = "done" /\ outcome'.may
      BY <1>0, <2>1 DEF Finish
    <3>2. QED
      BY <1>0, <1>9, <3>1 DEF ReadChunk
  <2>2. CASE UNCHANGED <<pc, outcome>>
    BY <1>9, <2>2 DEF ReadChunk
  <2>3. QED
    BY <1>9, <2>1, <2>2 DEF ReadChunk
<1>10. ASSUME NEW d \in Durations, EndOfBody(d)
       PROVE  ExactInv'
  <2>1. /\ seen'.left = seen.left
        /\ seen'.refused = IF resp \in Refusals THEN seen.refused + 1 ELSE seen.refused
    BY <1>10 DEF EndOfBody, TypeOK, Histories
  <2>2. /\ pc = "body" /\ pc' = "answered"
        /\ UNCHANGED <<call, maybe, resp>>
    BY <1>10 DEF EndOfBody
  <2>3. QED
    BY <1>0, <2>1, <2>2
<1>11. ASSUME NEW seconds \in RetryAfters, RetryBusy(seconds)
       PROVE  ExactInv'
  <2>1. now \in Nat /\ seconds \in Int
    BY TimeAssumption DEF TypeOK
  <2>2. \/ pc' = "ready"
        \/ pc' = "done" /\ outcome'.may = maybe
        \/ pc' = "done" /\ outcome'.kind = "ValueError"
    BY <1>0, <1>11, <2>1, SleepEffect DEF RetryBusy
  <2>3. /\ pc = "answered" /\ resp \in Refusals
        /\ UNCHANGED <<call, maybe, seen, resp>>
    BY <1>11 DEF RetryBusy, RetriesBusy, Refusals
  <2>4. QED
    BY <1>0, <2>2, <2>3
<1>12. CASE RetryServerError
  <2>1. now \in Nat /\ Backoff(srvLeft) \in Int
    BY DEF TypeOK, Backoff
  <2>2. pc' = "ready" \/ (pc' = "done" /\ outcome'.may)
    BY <1>0, <1>12, <2>1, SleepEffect DEF RetryServerError
  <2>3. /\ pc = "answered" /\ resp \notin Refusals /\ maybe'
        /\ UNCHANGED <<call, seen, resp>>
    BY <1>12 DEF RetryServerError, RetriesServer, Refusals
  <2>4. QED
    BY <1>0, <2>2, <2>3
<1>13. CASE Answer
  <2>1. /\ ParseKind(resp) \in Kinds
        /\ AnswerMay(resp, maybe') \in BOOLEAN
        /\ resp \in Status
    BY <1>13 DEF Answer, ParseKind, AnswerMay, ParseMay, Status, Kinds, Values, TypeOK
  <2>2. /\ pc = "answered" /\ pc' = "done"
        /\ outcome'.kind = ParseKind(resp)
        /\ outcome'.may = AnswerMay(resp, maybe')
        /\ UNCHANGED <<call, seen>>
    BY <1>0, <1>13, <2>1 DEF Answer, Finish
  <2>3. CASE resp \in Refusals
    <3>1. maybe' = maybe
      BY <1>0, <1>13, <2>3 DEF Answer, Refusals
    <3>2. call # "get" => (outcome'.may <=> maybe)
      BY <2>2, <2>3, <3>1 DEF AnswerMay, ParseMay, Refusals
    <3>3. QED
      BY <1>0, <2>2, <2>3, <3>2
  <2>4. CASE resp \in Values
    BY <2>2, <2>4 DEF ParseKind
  <2>5. CASE resp \in {"nonjson", "5xx"}
    <3>1. outcome'.may /\ resp \notin Refusals
      BY <2>2, <2>5 DEF AnswerMay, ParseMay, Refusals
    <3>2. QED
      BY <1>0, <2>2, <3>1
  <2>6. QED
    BY <2>1, <2>3, <2>4, <2>5 DEF Status, Refusals, Values
<1>14. CASE LateArrival
  BY <1>14 DEF LateArrival
<1>15. CASE UNCHANGED vars
  BY <1>15 DEF vars
<1>16. ASSUME NEW d \in Durations, Waits(d)
       PROVE  ExactInv'
  BY <1>16 DEF Waits
<1>17. QED
  BY <1>1, <1>2, <1>3, <1>5, <1>6, <1>7, <1>8, <1>9, <1>10, <1>11, <1>12, <1>13, <1>14, <1>15, <1>16
     DEF Next, ClientNext, Done

\* Connections that failed and 4xx answers leave a write reported as not done; only an
\* attempt whose fate is open raises the flag.
THEOREM FlagIsTight == Spec => []FlagIsExact
<1>1. Init => FlagInv /\ ExactInv
  BY DEF Init, FlagInv, FalseFlagMeansNotDone, ExactInv, FlagIsExact, Failed
<1>2. ExactInv => FlagIsExact
  BY DEF ExactInv
<1>3. QED
  BY <1>1, <1>2, FlagStep, ExactStep, TypeCorrect, PTL DEF Spec

-----------------------------------------------------------------------------
(***************************************************************************)
(* What the API does to the attempts of a call.                            *)
(***************************************************************************)
\* The current request is unanswered, or was answered without an effect, and is not counted
\* as refused.
Spared ==
    \/ pc = "exchange"
    \/ pc = "body" /\ resp \in Refusals
    \/ pc \in {"body", "answered"} /\ resp = "declined"
    \/ pc = "done" /\ outcome.kind = "declined"

\* The API acts at most once on each request that left this host, and not on the ones it
\* refused or declined.
EffectInv ==
    /\ applied + travelling + seen.refused <= seen.left
    /\ Spared => applied + travelling + seen.refused < seen.left

LEMMA EffectStep == TypeOK /\ EffectInv /\ [Next]_vars => EffectInv'
<1> SUFFICES ASSUME TypeOK, EffectInv, [Next]_vars
             PROVE  EffectInv'
  OBVIOUS
<1> USE DEF EffectInv, Spared, argVars, clientVars, serverVars
<1>0. /\ \A k \in Kinds, b \in BOOLEAN : Result(k, b).kind = k
      /\ {"ok", "declined", "ApiAuthError", "ApiTransportError", "ApiDeadline",
          "ValueError"} \subseteq Kinds
      /\ maybe \in BOOLEAN /\ seen.left \in Nat /\ seen.refused \in Nat
      /\ applied \in Nat /\ travelling \in Nat
  BY ResultFields, HistoryFields DEF Kinds, TypeOK
<1>1. ASSUME NEW d \in TokenTimes, GetToken(d)
      PROVE  EffectInv'
  <2>1. pc' = "ready" \/ (pc' = "done" /\ outcome'.kind # "declined")
    BY <1>0, <1>1 DEF GetToken, Finish
  <2>2. UNCHANGED <<seen, applied, travelling>>
    BY <1>1 DEF GetToken
  <2>3. QED
    BY <2>1, <2>2
<1>2. CASE StartAttempt
  BY <1>2 DEF StartAttempt
<1>3. CASE GiveUpBeforeAttempt
  <2>1. pc' = "done" /\ outcome'.kind # "declined"
    BY <1>0, <1>3 DEF GiveUpBeforeAttempt, Finish
  <2>2. QED
    BY <1>3, <2>1 DEF GiveUpBeforeAttempt
<1>4. ASSUME NEW d \in Durations, NEW notSent \in BOOLEAN, NetworkError(d, notSent)
      PROVE  /\ pc' = "ready" \/ (pc' = "done" /\ outcome'.kind # "declined")
             /\ seen'.left = seen.left /\ seen'.refused = seen.refused
  <2>1. seen' = [seen EXCEPT !.net = @ + 1] /\ maybe' \in BOOLEAN
    BY <1>4, NetworkErrorEffect
  <2>2. \/ pc' = "ready"
        \/ pc' = "done" /\ outcome' = Result("ApiDeadline", maybe')
        \/ pc' = "done" /\ outcome' = Result("ValueError", TRUE)
        \/ pc' = "done" /\ outcome' = Result("ApiTransportError", maybe')
    BY <1>4, NetworkErrorEffect, Zenon
  <2>3. seen'.left = seen.left /\ seen'.refused = seen.refused
    BY <2>1 DEF TypeOK, Histories
  <2>4. QED
    BY <1>0, <2>1, <2>2, <2>3
<1>5. ASSUME NEW d \in Durations, ConnectFails(d) \/ LoseBody(d)
      PROVE  EffectInv'
  <2>1. (\E notSent \in BOOLEAN : NetworkError(d, notSent)) /\ UNCHANGED serverVars
    BY <1>5 DEF ConnectFails, LoseBody
  <2>2. /\ pc' = "ready" \/ (pc' = "done" /\ outcome'.kind # "declined")
        /\ seen'.left = seen.left /\ seen'.refused = seen.refused
    BY <1>4, <2>1
  <2>3. QED
    BY <2>1, <2>2
<1>6. ASSUME NEW d \in Durations, LoseRequest(d)
      PROVE  EffectInv'
  <2>1. /\ NetworkError(d, FALSE) /\ pc = "exchange" /\ travelling' = travelling + 1
        /\ applied' = applied
    BY <1>6 DEF LoseRequest
  <2>2. /\ pc' = "ready" \/ (pc' = "done" /\ outcome'.kind # "declined")
        /\ seen'.left = seen.left /\ seen'.refused = seen.refused
    BY <1>4, <2>1
  <2>3. QED
    BY <1>0, <2>1, <2>2
<1>7. ASSUME NEW d \in Durations, Connects(d)
      PROVE  EffectInv'
  <2>1. seen'.left = seen.left + 1 /\ seen'.refused = seen.refused
    BY <1>7 DEF Connects, TypeOK, Histories
  <2>2. QED
    BY <1>0, <1>7, <2>1 DEF Connects
<1>8. ASSUME NEW d \in Durations, NEW s \in Status, NEW acts \in BOOLEAN,
             NEW size \in 0..MaxChunks, Responds(d, s, acts, size)
      PROVE  EffectInv'
  <2>1. /\ pc = "exchange" /\ pc' = "body" /\ resp' = s /\ UNCHANGED <<seen, travelling>>
        /\ applied' = IF acts THEN applied + 1 ELSE applied
        /\ (s \in Refusals \/ s = "declined") => ~acts
    BY <1>8 DEF Responds, ActsOn, Refusals
  <2>2. QED
    BY <1>0, <2>1
<1>9. ASSUME NEW d \in Durations, ReadChunk(d)
      PROVE  EffectInv'
  <2>1. pc = "body" /\ UNCHANGED <<resp, seen, applied, travelling>>
    BY <1>9 DEF ReadChunk
  <2>2. \/ pc' = "body"
        \/ pc' = "done" /\ outcome'.kind # "declined"
    BY <1>0, <1>9 DEF ReadChunk, Finish
  <2>3. QED
    BY <2>1, <2>2
<1>10. ASSUME NEW d \in Durations, EndOfBody(d)
       PROVE  EffectInv'
  <2>1. /\ seen'.left = seen.left
        /\ seen'.refused = IF resp \in Refusals THEN seen.refused + 1 ELSE seen.refused
    BY <1>10 DEF EndOfBody, TypeOK, Histories
  <2>2. /\ pc = "body" /\ pc' = "answered"
        /\ UNCHANGED <<resp, applied, travelling>>
    BY <1>10 DEF EndOfBody
  <2>3. QED
    BY <1>0, <2>1, <2>2 DEF Refusals
<1>11. CASE RetryServerError \/ \E seconds \in RetryAfters : RetryBusy(seconds)
  <2>1. now \in Nat /\ RetryAfters \subseteq Int /\ Backoff(srvLeft) \in Int
    BY TimeAssumption DEF TypeOK, Backoff
  <2>2. pc' = "ready" \/ (pc' = "done" /\ outcome'.kind # "declined")
    BY <1>0, <1>11, <2>1, SleepEffect DEF RetryServerError, RetryBusy
  <2>3. UNCHANGED <<seen, applied, travelling>>
    BY <1>11 DEF RetryServerError, RetryBusy
  <2>4. QED
    BY <2>2, <2>3
<1>12. CASE Answer
  <2>1. /\ ParseKind(resp) \in Kinds
        /\ AnswerMay(resp, maybe') \in BOOLEAN
        /\ resp \in Status
    BY <1>12 DEF Answer, ParseKind, AnswerMay, ParseMay, Status, Kinds, Values, TypeOK
  <2>2. /\ pc = "answered" /\ pc' = "done" /\ outcome'.kind = ParseKind(resp)
        /\ UNCHANGED <<seen, applied, travelling>>
    BY <1>0, <1>12, <2>1 DEF Answer, Finish
  <2>3. ParseKind(resp) = "declined" => resp = "declined"
    BY <2>1 DEF ParseKind, Status
  <2>4. QED
    BY <2>2, <2>3
<1>13. CASE LateArrival
  BY <1>0, <1>13 DEF LateArrival
<1>14. CASE UNCHANGED vars
  BY <1>14 DEF vars
<1>15. ASSUME NEW d \in Durations, Waits(d)
       PROVE  EffectInv'
  BY <1>15 DEF Waits
<1>16. QED
  BY <1>1, <1>2, <1>3, <1>5, <1>6, <1>7, <1>8, <1>9, <1>10, <1>11, <1>12, <1>13, <1>14, <1>15
     DEF Next, ClientNext, Done

\* A retried write is acted on at most once per attempt that left this host and was not
\* refused, the requests that arrive after the call has ended counted.
THEOREM EffectsAreAttempts == Spec => [](applied + travelling + seen.refused <= seen.left)
<1>1. Init => EffectInv
  BY DEF Init, EffectInv, Spared
<1>2. EffectInv => applied + travelling + seen.refused <= seen.left
  BY DEF EffectInv
<1>3. QED
  BY <1>1, <1>2, EffectStep, TypeCorrect, PTL DEF Spec

-----------------------------------------------------------------------------
\* A retry wait ends where it began, or wakes up late from one that fits the deadline.
LEMMA SleepTime ==
    ASSUME TypeOK, NEW t \in Nat, NEW seconds \in Int, NEW may \in BOOLEAN,
           SleepWithin(t, seconds, may)
    PROVE  /\ pc' \in {"ready", "done"}
           /\ now' \in Nat
           /\ now' = t \/ (deadline # NoDeadline => now' < deadline + MaxOversleep)
<1>1. deadline # NoDeadline => deadline \in Nat
  BY TimeAssumption DEF TypeOK
<1>2. ASSUME ~Past(t + seconds), seconds >= 0, pc' = "ready",
             NEW late \in 0..MaxOversleep, now' = t + seconds + late
      PROVE  now' \in Nat /\ (deadline # NoDeadline => now' < deadline + MaxOversleep)
  BY <1>1, <1>2, TimeAssumption DEF Past
<1>3. QED
  BY <1>2, Zenon DEF SleepWithin, Finish

\* The same of the branch that retries a network error.
LEMMA NetworkErrorTime ==
    ASSUME TypeOK, NEW d \in Durations, NEW notSent \in BOOLEAN,
           NetworkError(d, notSent)
    PROVE  /\ pc' \in {"ready", "done"}
           /\ now' \in Nat
           /\ now' = now + d \/ (deadline # NoDeadline => now' < deadline + MaxOversleep)
           /\ UNCHANGED <<deadline, timeout, waits, attempts>>
<1>1. now + d \in Nat /\ (maybe \/ ~notSent) \in BOOLEAN /\ Backoff(netLeft) \in Int
  BY TimeAssumption DEF TypeOK, Backoff
<1>2. CASE netLeft > 0 /\ (Idempotent \/ notSent)
  <2>1. SleepWithin(now + d, Backoff(netLeft), maybe \/ ~notSent)
    BY <1>2 DEF NetworkError
  <2>2. QED
    BY <1>1, <2>1, SleepTime DEF NetworkError, argVars, attemptVars
<1>3. CASE ~(netLeft > 0 /\ (Idempotent \/ notSent))
  BY <1>1, <1>3 DEF NetworkError, Finish, argVars, attemptVars
<1>4. QED
  BY <1>2, <1>3

\* One more operation of the attempt is one more timeout.
LEMMA OneMore ==
    ASSUME NEW n \in Nat, NEW t \in Nat
    PROVE  /\ (n + 1) * t = n * t + t
           /\ (1 + n) * t = n * t + t
           /\ (2 + n) * t = n * t + t + t
           /\ (1 + (n + 1)) * t = (1 + n) * t + t
           /\ (2 + (n + 1)) * t = (2 + n) * t + t
           /\ n * t \in Nat
           /\ 0 * t = 0
  BY SMT

\* An operation starts no later than the waits before it allow.
LEMMA DeadlineStep == TypeOK /\ DeadlineInv /\ [Next]_vars => DeadlineInv'
<1> SUFFICES ASSUME TypeOK, DeadlineInv, [Next]_vars
             PROVE  DeadlineInv'
  OBVIOUS
<1> USE DEF DeadlineInv, OverrunIsOneAttempt, argVars, attemptVars, clientVars
<1>0. /\ deadline # NoDeadline => deadline \in Nat
      /\ now \in Nat /\ timeout \in Nat /\ waits \in Nat /\ OpTimeout \in Nat /\ attempts \in Nat
      /\ MaxOversleep \in Nat
      /\ \A d \in Durations : d \in Nat
  BY TimeAssumption DEF TypeOK
<1>1. ASSUME NEW d \in TokenTimes, GetToken(d)
      PROVE  DeadlineInv'
  <2>1. pc' \in {"ready", "done"} /\ attempts' = 0
    BY <1>1 DEF GetToken, Finish
  <2>2. QED
    BY <2>1
<1>2. CASE StartAttempt
  <2>1. /\ pc' = "connect" /\ now' = now /\ deadline' = deadline
        /\ deadline # NoDeadline =>
              /\ now < deadline
              /\ timeout' \in Nat
              /\ timeout' <= deadline - now
    BY <1>0, <1>2 DEF StartAttempt, Past, Smaller
  <2>2. deadline # NoDeadline =>
           waits' * timeout' = 0 /\ (2 + waits') * timeout' = timeout' + timeout'
    <3>1. waits' = 0
      BY <1>2 DEF StartAttempt
    <3>2. QED
      BY <2>1, <3>1, OneMore
  <2>3. QED
    BY <1>0, <2>1, <2>2
<1>3. CASE GiveUpBeforeAttempt
  BY <1>3 DEF GiveUpBeforeAttempt, Finish
<1>4. ASSUME NEW d \in Durations, ConnectFails(d) \/ LoseRequest(d) \/ LoseBody(d)
      PROVE  DeadlineInv'
  <2>1. d <= timeout /\ pc \in {"connect", "exchange", "body"}
    BY <1>4 DEF ConnectFails, LoseRequest, LoseBody
  <2>2. /\ pc' \in {"ready", "done"} /\ now' \in Nat
        /\ now' = now + d \/ (deadline # NoDeadline => now' < deadline + MaxOversleep)
        /\ UNCHANGED <<deadline, timeout, waits, attempts>>
    BY <1>4, NetworkErrorTime DEF ConnectFails, LoseRequest, LoseBody
  <2>3. QED
    BY <1>0, <2>1, <2>2
<1>5. ASSUME NEW d \in Durations, Connects(d)
      PROVE  DeadlineInv'
  BY <1>0, <1>5 DEF Connects
<1>6. ASSUME NEW d \in Durations, NEW s \in Status, NEW acts \in BOOLEAN,
             NEW size \in 0..MaxChunks, Responds(d, s, acts, size)
      PROVE  DeadlineInv'
  BY <1>0, <1>6 DEF Responds
<1>7. ASSUME NEW d \in Durations, ReadChunk(d)
      PROVE  DeadlineInv'
  <2>1. /\ pc = "body" /\ d <= timeout /\ now' = now + d
        /\ UNCHANGED <<deadline, timeout, waits, attempts>>
    BY <1>7 DEF ReadChunk
  <2>2. pc' = "done" \/ (~Past(now + d) /\ pc' = "body")
    BY <1>7 DEF ReadChunk, Finish
  <2>3. ~Past(now + d) /\ deadline # NoDeadline => now' < deadline
    BY <1>0, <2>1 DEF Past
  <2>4. QED
    BY <1>0, <2>1, <2>2, <2>3
<1>8. ASSUME NEW d \in Durations, EndOfBody(d)
      PROVE  DeadlineInv'
  BY <1>0, <1>8 DEF EndOfBody
<1>9. ASSUME NEW seconds \in RetryAfters, RetryBusy(seconds)
      PROVE  DeadlineInv'
  <2>1. seconds \in Int /\ maybe \in BOOLEAN
    BY TimeAssumption DEF TypeOK
  <2>2. /\ pc' \in {"ready", "done"} /\ now' \in Nat
        /\ now' = now \/ (deadline # NoDeadline => now' < deadline + MaxOversleep)
    BY <1>0, <1>9, <2>1, SleepTime DEF RetryBusy
  <2>3. UNCHANGED <<deadline, timeout, waits, attempts>>
    BY <1>9 DEF RetryBusy
  <2>4. QED
    BY <1>0, <2>2, <2>3
<1>10. CASE RetryServerError
  <2>1. Backoff(srvLeft) \in Int
    BY DEF Backoff
  <2>2. /\ pc' \in {"ready", "done"} /\ now' \in Nat
        /\ now' = now \/ (deadline # NoDeadline => now' < deadline + MaxOversleep)
    BY <1>0, <1>10, <2>1, SleepTime DEF RetryServerError
  <2>3. UNCHANGED <<deadline, timeout, waits, attempts>>
    BY <1>10 DEF RetryServerError
  <2>4. QED
    BY <1>0, <2>2, <2>3
<1>11. CASE Answer
  BY <1>11 DEF Answer, Finish
<1>12. CASE LateArrival
  BY <1>12 DEF LateArrival
<1>13. CASE UNCHANGED vars
  BY <1>13 DEF vars
<1>14. ASSUME NEW d \in Durations, Waits(d)
       PROVE  DeadlineInv'
  <2>1. /\ pc \in {"connect", "exchange", "body"} /\ pc' = pc
        /\ d <= timeout /\ now' = now + d /\ waits' = waits + 1
        /\ UNCHANGED <<deadline, timeout, attempts>>
    BY <1>14 DEF Waits
  <2>2. /\ waits' * timeout = waits * timeout + timeout
        /\ (1 + waits') * timeout = (1 + waits) * timeout + timeout
        /\ (2 + waits') * timeout = (2 + waits) * timeout + timeout
    BY <1>0, <2>1, OneMore
  <2>3. QED
    BY <1>0, <2>1, <2>2
<1>15. QED
  BY <1>1, <1>2, <1>3, <1>4, <1>5, <1>6, <1>7, <1>8, <1>9, <1>10, <1>11, <1>12, <1>13, <1>14
     DEF Next, ClientNext, Done

\* From its first attempt on, a call outlives its deadline by the operations of one attempt
\* at most, however many they are, or by the late wake-up of a wait that fitted.
THEOREM OverrunIsBounded == Spec => []OverrunIsOneAttempt
<1>1. Init => DeadlineInv
  BY DEF Init, DeadlineInv, OverrunIsOneAttempt
<1>2. DeadlineInv => OverrunIsOneAttempt
  BY DEF DeadlineInv
<1>3. QED
  BY <1>1, <1>2, DeadlineStep, TypeCorrect, PTL DEF Spec

-----------------------------------------------------------------------------
(***************************************************************************)
(* The retry loop implements the contract of OneWrite.                     *)
(***************************************************************************)

\* How one step of the loop moves what the contract sees: the API acts without the
\* caller being told, or the caller is told without the API acting.
LEMMA StepShape ==
    ASSUME TypeOK, [Next]_vars
    PROVE  /\ call' = call
           /\ \/ applied' = applied /\ pc # "done"
              \/ applied' = applied /\ UNCHANGED <<pc, outcome>>
              \/ applied' = applied + 1 /\ pc # "done" /\ pc' # "done"
              \/ applied' = applied + 1 /\ UNCHANGED <<pc, outcome>>
<1> USE DEF argVars, clientVars, serverVars
<1>1. ASSUME NEW d \in TokenTimes, GetToken(d)
      PROVE  call' = call /\ applied' = applied /\ pc # "done"
  BY <1>1 DEF GetToken
<1>2. ASSUME NEW d \in Durations,
             Waits(d) \/ ConnectFails(d) \/ Connects(d) \/ LoseRequest(d) \/ LoseBody(d)
                \/ ReadChunk(d) \/ EndOfBody(d)
      PROVE  call' = call /\ applied' = applied /\ pc # "done"
  BY <1>2 DEF Waits, ConnectFails, Connects, LoseRequest, LoseBody, ReadChunk, EndOfBody,
              NetworkError
<1>3. ASSUME NEW seconds \in RetryAfters, RetryBusy(seconds)
      PROVE  call' = call /\ applied' = applied /\ pc # "done"
  BY <1>3 DEF RetryBusy
<1>4. CASE StartAttempt \/ GiveUpBeforeAttempt \/ RetryServerError \/ Answer
  BY <1>4 DEF StartAttempt, GiveUpBeforeAttempt, RetryServerError, Answer
<1>5. ASSUME NEW d \in Durations, NEW s \in Status, NEW acts \in BOOLEAN,
             NEW size \in 0..MaxChunks, Responds(d, s, acts, size)
      PROVE  /\ call' = call /\ pc # "done" /\ pc' # "done"
             /\ applied' = applied \/ applied' = applied + 1
  BY <1>5 DEF Responds
<1>6. CASE LateArrival
  BY <1>6 DEF LateArrival
<1>7. CASE UNCHANGED vars
  BY <1>7 DEF vars
<1>8. QED
  BY <1>1, <1>2, <1>3, <1>4, <1>5, <1>6, <1>7 DEF Next, ClientNext, Done

\* The caller is told nothing before the end, and the flag and the value decide after.
LEMMA ToldCases ==
    /\ pc # "done" <=> Told = "pending"
    /\ Told \in {"pending", "done", "unknown", "not done"}
    /\ Told = "done" => pc = "done" /\ outcome.kind = "ok"
    /\ Told = "not done" => Failed /\ Write /\ ~outcome.may
  BY DEF Told, Failed

\* A count that is at most one after it grew was zero before.
LEMMA FirstOne ==
    ASSUME NEW before \in Nat, NEW after \in Nat, NEW rest \in Nat,
           after = before + 1, after + rest <= 1
    PROVE  before = 0
  OBVIOUS

\* Every step of the loop is a step of the contract or leaves it alone.
LEMMA ContractStep ==
    ASSUME TypeOK, FlagInv, ValueInv, CreateInv, [Next]_vars,
           FlagInv', ValueInv', CreateInv'
    PROVE  [Contract!Next]_<<call = "post_json", applied, Told>>
<1>1. /\ applied \in Nat /\ travelling \in Nat /\ call' = call
  BY StepShape DEF TypeOK
<1>2. CASE UNCHANGED <<pc, outcome>>
  <2>1. Told' = Told
    BY <1>1, <1>2 DEF Told, Failed, Write
  <2>2. CASE applied' = applied
    BY <1>1, <2>1, <2>2
  <2>3. CASE applied' = applied + 1
    <3>1. Told # "not done"
      <4>1. SUFFICES ASSUME Failed, Write, ~outcome.may
                     PROVE  FALSE
        BY ToldCases
      <4>2. Failed' /\ Write' /\ ~outcome'.may
        BY <1>1, <1>2, <4>1 DEF Failed, Write
      <4>3. applied' = 0
        BY <4>2 DEF FlagInv, FalseFlagMeansNotDone
      <4>4. QED
        BY <1>1, <2>3, <4>3
    <3>2. (call = "post_json") => applied = 0
      <4>1. travelling' \in Nat /\ applied' \in Nat
        BY TypeStep DEF TypeOK
      <4>2. (call' = "post_json") => applied' + travelling' <= 1
        BY DEF CreateInv
      <4>3. applied' + travelling' <= 1 => applied = 0
        BY <1>1, <2>3, <4>1, FirstOne
      <4>4. QED
        BY <1>1, <4>2, <4>3
    <3>3. Contract!Act
      BY <1>1, <2>1, <2>3, <3>1, <3>2 DEF Contract!Act
    <3>4. QED
      BY <3>3 DEF Contract!Next
  <2>4. QED
    BY <1>2, <2>2, <2>3, StepShape
<1>3. CASE pc # "done" /\ pc' # "done"
  <2>1. Told = "pending" /\ Told' = "pending"
    BY <1>3 DEF Told
  <2>2. CASE applied' = applied
    BY <1>1, <2>1, <2>2
  <2>3. CASE applied' = applied + 1
    <3>1. (call = "post_json") => applied = 0
      <4>1. travelling' \in Nat /\ applied' \in Nat
        BY TypeStep DEF TypeOK
      <4>2. (call' = "post_json") => applied' + travelling' <= 1
        BY DEF CreateInv
      <4>3. applied' + travelling' <= 1 => applied = 0
        BY <1>1, <2>3, <4>1, FirstOne
      <4>4. QED
        BY <1>1, <4>2, <4>3
    <3>2. Contract!Act
      BY <1>1, <2>1, <2>3, <3>1 DEF Contract!Act
    <3>3. QED
      BY <3>2 DEF Contract!Next
  <2>4. QED
    BY <1>3, <2>2, <2>3, StepShape
<1>4. CASE pc # "done" /\ pc' = "done" /\ applied' = applied
  <2>1. Told = "pending" /\ Told' \in {"done", "unknown", "not done"}
    BY <1>4 DEF Told
  <2>2. Told' = "done" => applied > 0
    BY <1>4 DEF Told, ValueInv, ValueMeansDone
  <2>3. Told' = "not done" => applied = 0
    BY <1>4 DEF Told, FlagInv, FalseFlagMeansNotDone, Failed
  <2>4. Contract!Tell(Told')
    BY <1>1, <1>4, <2>1, <2>2, <2>3 DEF Contract!Tell
  <2>5. QED
    BY <2>1, <2>4 DEF Contract!Next
<1>5. QED
  BY <1>2, <1>3, <1>4, StepShape

\* The client keeps its contract with every caller of post and post_json: "not done"
\* is final, a value means done, and a creation is not repeated.
THEOREM ContractIsKept == Spec => KeepsContract
<1>1. Init => Contract!Init
  BY DEF Init, Contract!Init, Told
<1>2. Init => FlagInv /\ ValueInv /\ CreateInv
  BY DEF Init, FlagInv, FalseFlagMeansNotDone, Failed, ValueInv, ValueMeansDone, CreateInv
<1>3. TypeOK /\ FlagInv /\ ValueInv /\ CreateInv /\ [Next]_vars
        => FlagInv' /\ ValueInv' /\ CreateInv'
  BY FlagStep, ValueStep, CreateStep
<1>4. TypeOK /\ FlagInv /\ ValueInv /\ CreateInv /\ [Next]_vars
        => [Contract!Next]_<<call = "post_json", applied, Told>>
  BY <1>3, ContractStep
<1>5. QED
  BY <1>1, <1>2, <1>3, <1>4, TypeCorrect, PTL DEF Spec, KeepsContract, Contract!Spec
=============================================================================
