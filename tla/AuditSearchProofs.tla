------------------------- MODULE AuditSearchProofs -------------------------
(***************************************************************************)
(* Proofs about the tools that change something and about polling an audit *)
(* search, for every deadline, timing, record and limit.                   *)
(***************************************************************************)
EXTENDS AuditSearch, RestClientProofs, FiniteSetTheorems

\* What is known of the client below the tools.
RestInv == TypeOK /\ FlagInv /\ ValueInv /\ CreateInv /\ ExactInv /\ SentInv

\* A value comes from an answer that was read to its end.
LEMMA SentStep == TypeOK /\ ExactInv /\ SentInv /\ [Next]_vars => SentInv'
<1> SUFFICES ASSUME TypeOK, ExactInv, SentInv, [Next]_vars
             PROVE  SentInv'
  OBVIOUS
<1> USE DEF SentInv, Values, argVars, clientVars
<1>0. /\ \A k \in Kinds, b \in BOOLEAN : Result(k, b).kind = k
      /\ {"ok", "declined", "ApiAuthError", "ApiTransportError", "ApiDeadline",
          "ValueError"} \subseteq Kinds
      /\ maybe \in BOOLEAN /\ seen.left \in Nat /\ seen.refused \in Nat
  BY ResultFields, HistoryFields DEF Kinds, TypeOK
<1>1. ASSUME NEW d \in TokenTimes, GetToken(d)
      PROVE  SentInv'
  <2>1. pc' = "ready" \/ (pc' = "done" /\ outcome'.kind \in {"ApiAuthError", "ApiDeadline"})
    BY <1>0, <1>1 DEF GetToken, Finish
  <2>2. QED
    BY <2>1
<1>2. CASE StartAttempt
  BY <1>2 DEF StartAttempt
<1>3. CASE GiveUpBeforeAttempt
  <2>1. outcome'.kind = "ApiDeadline"
    BY <1>0, <1>3 DEF GiveUpBeforeAttempt, Finish
  <2>2. QED
    BY <2>1
<1>4. ASSUME NEW d \in Durations, ConnectFails(d) \/ LoseRequest(d) \/ LoseBody(d)
      PROVE  SentInv'
  <2>1. PICK notSent \in BOOLEAN : NetworkError(d, notSent)
    BY <1>4 DEF ConnectFails, LoseRequest, LoseBody
  <2>2. maybe' \in BOOLEAN
    BY <2>1, NetworkErrorEffect
  <2>3. \/ pc' = "ready"
        \/ outcome' = Result("ApiDeadline", maybe')
        \/ outcome' = Result("ValueError", TRUE)
        \/ outcome' = Result("ApiTransportError", maybe')
    BY <2>1, NetworkErrorEffect, Zenon
  <2>4. QED
    BY <1>0, <2>2, <2>3
<1>5. ASSUME NEW d \in Durations, Connects(d)
      PROVE  SentInv'
  BY <1>5 DEF Connects
<1>6. ASSUME NEW d \in Durations, NEW s \in Status, NEW acts \in BOOLEAN,
             NEW size \in 0..MaxChunks, Responds(d, s, acts, size)
      PROVE  SentInv'
  BY <1>6 DEF Responds
<1>7. ASSUME NEW d \in Durations, ReadChunk(d)
      PROVE  SentInv'
  <2>1. pc' = "body" \/ outcome' = Result("ApiDeadline", TRUE)
    BY <1>7 DEF ReadChunk, Finish
  <2>2. QED
    BY <1>0, <2>1
<1>8. ASSUME NEW d \in Durations, EndOfBody(d)
      PROVE  SentInv'
  BY <1>8 DEF EndOfBody
<1>9. ASSUME NEW seconds \in RetryAfters, RetryBusy(seconds)
      PROVE  SentInv'
  <2>1. now \in Nat /\ seconds \in Int
    BY TimeAssumption DEF TypeOK
  <2>2. \/ pc' = "ready"
        \/ outcome' = Result("ApiDeadline", maybe)
        \/ outcome' = Result("ValueError", TRUE)
    BY <1>0, <1>9, <2>1, SleepEffect DEF RetryBusy
  <2>3. QED
    BY <1>0, <2>2
<1>10. CASE RetryServerError
  <2>1. now \in Nat /\ Backoff(srvLeft) \in Int
    BY DEF TypeOK, Backoff
  <2>2. \/ pc' = "ready"
        \/ outcome' = Result("ApiDeadline", TRUE)
        \/ outcome' = Result("ValueError", TRUE)
    BY <1>10, <2>1, SleepEffect DEF RetryServerError
  <2>3. QED
    BY <1>0, <2>2
<1>11. CASE Answer
  <2>1. /\ ParseKind(resp) \in Kinds
        /\ AnswerMay(resp, maybe') \in BOOLEAN
        /\ resp \in Status
    BY <1>11 DEF Answer, ParseKind, AnswerMay, ParseMay, Status, Kinds, TypeOK
  <2>2. /\ pc = "answered" /\ resp' = resp /\ seen' = seen
        /\ outcome'.kind = ParseKind(resp)
    BY <1>0, <1>11, <2>1 DEF Answer, Finish
  <2>3. ParseKind(resp) \in Values => resp = ParseKind(resp)
    BY <2>1 DEF ParseKind, Status
  <2>4. resp \in Values => seen.left > 0
    BY <1>0, <2>2 DEF ExactInv, Refusals
  <2>5. QED
    BY <2>2, <2>3, <2>4
<1>12. CASE LateArrival
  BY <1>12 DEF LateArrival
<1>13. CASE UNCHANGED vars
  BY <1>13 DEF vars
<1>14. ASSUME NEW d \in Durations, Waits(d)
       PROVE  SentInv'
  BY <1>14 DEF Waits
<1>15. QED
  BY <1>1, <1>2, <1>3, <1>4, <1>5, <1>6, <1>7, <1>8, <1>9, <1>10, <1>11, <1>12, <1>13, <1>14
     DEF Next, ClientNext, Done

\* The account lookup takes time and nothing else from the call that follows it.
LEMMA LookUpKeepsRest ==
    ASSUME RestInv, NEW d \in LookupTimes, NEW found \in {"member", "guest", "nobody", "error"},
           LookUp(d, found)
    PROVE  RestInv'
<1>1. d \in Nat
  BY ToolAssumption
<1>2. UNCHANGED <<call, deadline, pc, timeout, waits, netLeft, srvLeft, retried429, maybe,
                  resp, chunks, outcome, travelling, applied, attempts, seen>>
  BY DEF LookUp, argVars, attemptVars, clientVars, serverVars
<1>3. TypeOK'
  <2>1. now' \in Nat
    BY <1>1 DEF LookUp, RestInv, TypeOK
  <2>2. QED
    BY <1>2, <2>1 DEF RestInv, TypeOK
<1>4. FlagInv'
  BY <1>2 DEF RestInv, FlagInv, FalseFlagMeansNotDone, Failed, Write, BeforeResponse
<1>5. ValueInv' /\ CreateInv'
  BY <1>2 DEF RestInv, ValueInv, ValueMeansDone, CreateInv, BeforeResponse
<1>6. ExactInv' /\ SentInv'
  BY <1>2 DEF RestInv, ExactInv, FlagIsExact, Failed, Write, SentInv
<1>7. QED
  BY <1>3, <1>4, <1>5, <1>6 DEF RestInv

\* Every other step of a tool is one of the client, or none.
LEMMA RestStep == RestInv /\ [ToolNext]_allVars => RestInv'
<1> SUFFICES ASSUME RestInv, [ToolNext]_allVars
             PROVE  RestInv'
  OBVIOUS
<1>1. ASSUME [Next]_vars
      PROVE  RestInv'
  BY <1>1, TypeStep, FlagStep, ValueStep, CreateStep, ExactStep, SentStep DEF RestInv
<1>2. ASSUME NEW d \in LookupTimes, NEW found \in {"member", "guest", "nobody", "error"},
             LookUp(d, found)
      PROVE  RestInv'
  BY <1>2, LookUpKeepsRest
<1>3. QED
  BY <1>1, <1>2 DEF ToolNext, RefuseAtOnce, Submit, CallStep, ReportCall, LateStep, ToolDone,
                    Next, allVars

LEMMA RestHolds == SearchSpec => []RestInv
<1>1. SearchInit => RestInv
  <2> SUFFICES ASSUME SearchInit
               PROVE  RestInv
    OBVIOUS
  <2>1. Init
    BY DEF SearchInit, ToolInit
  <2>2. TypeOK
    BY <2>1, InitTyped
  <2>3. FlagInv /\ ValueInv /\ CreateInv
    BY <2>1 DEF Init, FlagInv, FalseFlagMeansNotDone, Failed, ValueInv, ValueMeansDone, CreateInv
  <2>4. ExactInv /\ SentInv
    BY <2>1 DEF Init, ExactInv, FlagIsExact, Failed, SentInv
  <2>5. QED
    BY <2>2, <2>3, <2>4 DEF RestInv
<1>2. [SearchNext]_searchVars => [ToolNext]_allVars
  BY DEF SearchNext, StartStep, Run, RunAgain, Collect, EndAtGraph, PollFails, ReadStatus,
         ReadRecords, RecordsFail, searchVars
<1>3. QED
  BY <1>1, <1>2, RestStep, PTL DEF SearchSpec

-----------------------------------------------------------------------------
\* A report is true of Graph when it is made, and nothing that happens later changes that.
LEMMA ReportStep == RestInv /\ ReportInv /\ [ToolNext]_allVars => ReportInv'
<1> SUFFICES ASSUME RestInv, ReportInv, [ToolNext]_allVars
             PROVE  ReportInv'
  OBVIOUS
<1> USE DEF ReportInv, Reports
<1>0. seen.left \in Nat /\ seen.refused \in Nat /\ travelling \in Nat /\ applied \in Nat
  BY HistoryFields DEF RestInv, TypeOK
<1>1. CASE RefuseAtOnce
  <2>1. UNCHANGED <<call, resp, applied, travelling, seen>>
    BY <1>1 DEF RefuseAtOnce, vars, argVars, serverVars
  <2>2. stage = "enter" /\ stage' = "reported" /\ report' = "false" /\ tool' = tool
    BY <1>1 DEF RefuseAtOnce, Say
  <2>3. QED
    BY <2>1, <2>2
<1>2. ASSUME NEW d \in LookupTimes, NEW found \in {"member", "guest", "nobody", "error"},
             LookUp(d, found)
      PROVE  ReportInv'
  <2>1. UNCHANGED <<call, resp, applied, travelling, seen>>
    BY <1>2 DEF LookUp, argVars, serverVars
  <2>2. /\ stage = "enter" /\ tool' = tool
        /\ \/ stage' = "call" /\ report' = report
           \/ stage' = "reported" /\ report' = "false"
    BY <1>2 DEF LookUp, Say
  <2>3. QED
    BY <2>1, <2>2
<1>3. CASE Submit
  BY <1>3 DEF Submit, vars, argVars, serverVars
<1>4. CASE CallStep
  <2>1. call' = call
    BY <1>4 DEF CallStep, ClientNext, GetToken, StartAttempt, GiveUpBeforeAttempt, Waits,
                ConnectFails, Connects, LoseRequest, LoseBody, NetworkError, Responds, ReadChunk, EndOfBody,
                RetryBusy, RetryServerError, Answer, argVars
  <2>2. stage = "call" /\ UNCHANGED <<tool, stage, report>>
    BY <1>4 DEF CallStep, toolVars
  <2>3. QED
    BY <2>1, <2>2
<1>5. ASSUME NEW readable \in BOOLEAN, ReportCall(readable)
      PROVE  ReportInv'
  <2> DEFINE value == ReportOf(outcome.kind, outcome.may, readable)
  <2>1. /\ pc = "done" /\ stage = "call" /\ stage' = "reported" /\ tool' = tool
        /\ report' = value
        /\ UNCHANGED <<call, resp, applied, travelling, seen>>
    BY <1>5 DEF ReportCall, Say, vars, argVars, serverVars
  <2>2. outcome.may \in BOOLEAN /\ Write
    BY ToolAssumption DEF RestInv, TypeOK, Results, Write
  <2>3. value \in {"true", "false", "null", "raised"}
    BY DEF ReportOf
  <2>4. value = "false" =>
          outcome.kind = "declined" \/ (outcome.kind \notin Values /\ ~outcome.may)
    BY <2>2 DEF ReportOf, Values
  <2>5. value = "null" =>
          outcome.kind \in Values
            \/ (outcome.kind \notin Values /\ outcome.kind # "ValueError" /\ outcome.may)
    BY <2>2 DEF ReportOf, Values
  <2>6. (value = "false" /\ resp # "declined") => applied = 0 /\ travelling = 0
    BY <2>1, <2>2, <2>4 DEF RestInv, SentInv, FlagInv, FalseFlagMeansNotDone, Failed
  <2>7. value = "null" => seen.left > 0
    <3>1. CASE outcome.kind \in Values
      BY <2>1, <3>1 DEF RestInv, SentInv
    <3>2. CASE outcome.kind \notin Values /\ outcome.kind # "ValueError" /\ outcome.may
      BY <1>0, <2>1, <2>2, <3>2 DEF RestInv, ExactInv, FlagIsExact, Failed
    <3>3. QED
      BY <2>5, <3>1, <3>2
  <2> HIDE DEF value
  <2>8. QED
    BY <2>1, <2>3, <2>6, <2>7
<1>6. CASE LateStep
  <2>1. /\ travelling > 0
        /\ UNCHANGED <<call, resp, seen, tool, stage, report>>
    BY <1>6 DEF LateStep, LateArrival, toolVars, argVars
  <2>2. ~(report = "false" /\ resp # "declined") /\ stage # "enter"
    BY <1>0, <2>1
  <2>3. QED
    BY <2>1, <2>2
<1>7. CASE UNCHANGED allVars
  BY <1>7 DEF allVars, vars, toolVars, argVars, serverVars
<1>8. QED
  BY <1>1, <1>2, <1>3, <1>4, <1>5, <1>6, <1>7 DEF ToolNext, ToolDone

LEMMA ReportHolds == SearchSpec => [](RestInv /\ ReportInv)
<1>1. SearchInit => ReportInv
  BY DEF SearchInit, ToolInit, Init, ReportInv, Reports
<1>2. [SearchNext]_searchVars => [ToolNext]_allVars
  BY DEF SearchNext, StartStep, Run, RunAgain, Collect, EndAtGraph, PollFails, ReadStatus,
         ReadRecords, RecordsFail, searchVars
<1>3. QED
  BY <1>1, <1>2, ReportStep, RestHolds, PTL DEF SearchSpec

\* `revoked` and `created` are null only when a request really left this host.
THEOREM NullAlwaysMeansSent == SearchSpec => []NullMeansSent
<1>1. ReportInv => NullMeansSent
  BY DEF ReportInv, NullMeansSent
<1>2. QED
  BY <1>1, ReportHolds, PTL

\* A false report is a definite failure, or Graph's own word in its last answer.
DeclinedInv ==
    report = "false" =>
        (applied = 0 /\ travelling = 0) \/ (pc = "done" /\ outcome.kind = "declined")

LEMMA DeclinedStep ==
    RestInv /\ ReportInv /\ DeclinedInv /\ [ToolNext]_allVars => DeclinedInv'
<1> SUFFICES ASSUME RestInv, ReportInv, DeclinedInv, [ToolNext]_allVars
             PROVE  DeclinedInv'
  OBVIOUS
<1> USE DEF DeclinedInv
<1>1. CASE RefuseAtOnce
  BY <1>1 DEF RefuseAtOnce, vars, serverVars, ReportInv
<1>2. ASSUME NEW d \in LookupTimes, NEW found \in {"member", "guest", "nobody", "error"},
             LookUp(d, found)
      PROVE  DeclinedInv'
  BY <1>2 DEF LookUp, serverVars, ReportInv
<1>3. CASE Submit \/ CallStep
  <2>1. stage \in {"enter", "call"} /\ report' = report
    BY <1>3 DEF Submit, CallStep, toolVars
  <2>2. QED
    BY <2>1 DEF ReportInv
<1>4. ASSUME NEW readable \in BOOLEAN, ReportCall(readable)
      PROVE  DeclinedInv'
  <2>1. /\ pc = "done" /\ report' = ReportOf(outcome.kind, outcome.may, readable)
        /\ UNCHANGED <<pc, outcome, applied, travelling>>
    BY <1>4 DEF ReportCall, Say, vars, serverVars
  <2>2. outcome.may \in BOOLEAN /\ Write
    BY ToolAssumption DEF RestInv, TypeOK, Results, Write, ReportInv
  <2>3. report' = "false" =>
          outcome.kind = "declined" \/ (outcome.kind \notin Values /\ ~outcome.may)
    BY <2>1, <2>2 DEF ReportOf, Values
  <2>4. QED
    BY <2>1, <2>2, <2>3 DEF RestInv, FlagInv, FalseFlagMeansNotDone, Failed
<1>5. CASE LateStep
  <2>1. travelling > 0 /\ UNCHANGED <<pc, outcome, report>>
    BY <1>5 DEF LateStep, LateArrival, toolVars
  <2>2. QED
    BY <2>1
<1>6. CASE UNCHANGED allVars
  BY <1>6 DEF allVars, vars, toolVars, serverVars
<1>7. QED
  BY <1>1, <1>2, <1>3, <1>4, <1>5, <1>6 DEF ToolNext, ToolDone

\* What `revoked`'s docstring says of FALSE is true of a call that left this host once.
FalseOfOneRequest ==
    (tool = "revoke" /\ report = "false" /\ seen.left <= 1) => applied = 0 /\ travelling = 0

\* A false `revoked` can be wrong only when the POST left this host more than once: when an
\* earlier attempt was lost or answered with a 5xx (compare RevokedFalseMeansNothingDone).
THEOREM OnlyARetryMisleads == SearchSpec => []FalseOfOneRequest
<1>1. SearchInit => EffectInv
  BY DEF SearchInit, ToolInit, Init, EffectInv, Spared
<1>2. RestInv /\ EffectInv /\ [ToolNext]_allVars => EffectInv'
  <2> SUFFICES ASSUME RestInv, EffectInv, [ToolNext]_allVars
               PROVE  EffectInv'
    OBVIOUS
  <2>1. ASSUME [Next]_vars
        PROVE  EffectInv'
    BY <2>1, EffectStep DEF RestInv
  <2>2. ASSUME NEW d \in LookupTimes, NEW found \in {"member", "guest", "nobody", "error"},
               LookUp(d, found)
        PROVE  EffectInv'
    BY <2>2 DEF LookUp, clientVars, serverVars, EffectInv, Spared
  <2>3. QED
    BY <2>1, <2>2 DEF ToolNext, RefuseAtOnce, Submit, CallStep, ReportCall, LateStep, ToolDone,
                      Next, allVars
<1>3. [SearchNext]_searchVars => [ToolNext]_allVars
  BY DEF SearchNext, StartStep, Run, RunAgain, Collect, EndAtGraph, PollFails, ReadStatus,
         ReadRecords, RecordsFail, searchVars
<1>4. SearchInit => DeclinedInv
  BY DEF SearchInit, ToolInit, DeclinedInv
<1>5. RestInv /\ DeclinedInv /\ EffectInv => FalseOfOneRequest
  <2> SUFFICES ASSUME RestInv, DeclinedInv, EffectInv, report = "false", seen.left <= 1
               PROVE  applied = 0 /\ travelling = 0
    BY DEF FalseOfOneRequest
  <2>1. /\ seen.left \in Nat /\ seen.refused \in Nat /\ travelling \in Nat /\ applied \in Nat
    BY HistoryFields DEF RestInv, TypeOK
  <2>2. QED
    BY <2>1 DEF DeclinedInv, EffectInv, Spared
<1>6. QED
  BY <1>1, <1>2, <1>3, <1>4, <1>5, DeclinedStep, ReportHolds, PTL DEF SearchSpec

-----------------------------------------------------------------------------
\* What OneWrite's caller has been told when the tool's has been told `value`.
ToolTold(value, last) ==
    CASE value = "true"    -> "done"
      [] value = "false"   -> IF last = "declined" THEN "unknown" ELSE "not done"
      [] value = "pending" -> "pending"
      [] OTHER             -> "unknown"

\* How one step of the client moves what the contract sees, before the report.
LEMMA CallStepShape ==
    ASSUME RestInv, CallStep
    PROVE  /\ call' = call
           /\ applied' = applied \/ applied' = applied + 1
           /\ UNCHANGED <<tool, stage, report>>
<1> USE DEF argVars, clientVars, serverVars, toolVars
<1>1. ASSUME NEW d \in TokenTimes, GetToken(d)
      PROVE  call' = call /\ applied' = applied
  BY <1>1 DEF GetToken
<1>2. ASSUME NEW d \in Durations,
             Waits(d) \/ ConnectFails(d) \/ Connects(d) \/ LoseRequest(d) \/ LoseBody(d)
                \/ ReadChunk(d) \/ EndOfBody(d)
      PROVE  call' = call /\ applied' = applied
  BY <1>2 DEF Waits, ConnectFails, Connects, LoseRequest, LoseBody, ReadChunk, EndOfBody,
              NetworkError
<1>3. ASSUME NEW seconds \in RetryAfters, RetryBusy(seconds)
      PROVE  call' = call /\ applied' = applied
  BY <1>3 DEF RetryBusy
<1>4. ASSUME StartAttempt \/ GiveUpBeforeAttempt \/ RetryServerError \/ Answer
      PROVE  call' = call /\ applied' = applied
  BY <1>4 DEF StartAttempt, GiveUpBeforeAttempt, RetryServerError, Answer
<1>5. ASSUME NEW d \in Durations, NEW s \in Status, NEW acts \in BOOLEAN,
             NEW size \in 0..MaxChunks, Responds(d, s, acts, size)
      PROVE  call' = call /\ (applied' = applied \/ applied' = applied + 1)
  BY <1>5 DEF Responds
<1>6. QED
  BY <1>1, <1>2, <1>3, <1>4, <1>5 DEF CallStep, ClientNext

\* An object that is created was not there before.
LEMMA CreatesFirst ==
    ASSUME RestInv, RestInv', ReportInv, call' = call, applied' = applied + 1
    PROVE  tool = "start" => applied = 0
<1>1. applied \in Nat /\ applied' \in Nat /\ travelling' \in Nat
  BY DEF RestInv, TypeOK
<1>2. (call = "post_json") => applied' + travelling' <= 1
  BY DEF RestInv, CreateInv
<1>3. applied' + travelling' <= 1 => applied = 0
  BY <1>1, FirstOne
<1>4. QED
  BY <1>2, <1>3 DEF ReportInv

\* Every step of a tool is a step of the contract or leaves it alone.
LEMMA ToolKeepsContract ==
    ASSUME RestInv, ReportInv, RestInv', ReportInv', [ToolNext]_allVars
    PROVE  [ReportContract!Next]_<<tool = "start", applied, ToolTold(report, resp)>>
<1> DEFINE told == ToolTold(report, resp)
           Step == [ReportContract!Next]_<<tool = "start", applied, told>>
<1>0. applied \in Nat /\ travelling \in Nat
  BY DEF RestInv, TypeOK
<1>1. ASSUME tool' = tool, applied' = applied + 1, told' = told, told # "not done",
             call' = call
      PROVE  Step
  <2>1. ReportContract!Act
    BY <1>1, CreatesFirst DEF ReportContract!Act, ToolTold
  <2>2. QED
    BY <2>1 DEF ReportContract!Next
<1>2. ASSUME tool' = tool, applied' = applied, told = "pending",
             told' \in {"done", "not done", "unknown"},
             told' = "not done" => applied = 0,
             told' = "done" => applied > 0
      PROVE  Step
  <2>1. ReportContract!Tell(told')
    BY <1>2 DEF ReportContract!Tell, ToolTold
  <2>2. QED
    BY <1>2, <2>1 DEF ReportContract!Next
<1>3. ASSUME tool' = tool, applied' = applied, told' = told
      PROVE  Step
  BY <1>3
<1>4. CASE RefuseAtOnce
  <2>1. /\ applied' = applied /\ applied = 0 /\ tool' = tool
        /\ report = "pending" /\ report' = "false"
    BY <1>4 DEF RefuseAtOnce, Say, ReportInv, vars, serverVars
  <2>2. QED
    BY <1>2, <2>1 DEF ToolTold
<1>5. ASSUME NEW d \in LookupTimes, NEW found \in {"member", "guest", "nobody", "error"},
             LookUp(d, found)
      PROVE  Step
  <2>1. /\ applied' = applied /\ applied = 0 /\ tool' = tool /\ resp' = resp
        /\ report = "pending" /\ report' \in {"pending", "false"}
    BY <1>5 DEF LookUp, Say, ReportInv, serverVars
  <2>2. CASE report' = "pending"
    BY <1>3, <2>1, <2>2 DEF ToolTold
  <2>3. CASE report' = "false"
    BY <1>2, <2>1, <2>3 DEF ToolTold
  <2>4. QED
    BY <2>1, <2>2, <2>3
<1>6. CASE Submit \/ UNCHANGED allVars
  <2>1. applied' = applied /\ tool' = tool /\ resp' = resp /\ report' = report
    BY <1>6 DEF Submit, allVars, vars, toolVars, serverVars
  <2>2. QED
    BY <1>3, <2>1 DEF ToolTold
<1>7. CASE CallStep
  <2>1. /\ call' = call /\ tool' = tool /\ report = "pending" /\ report' = "pending"
        /\ applied' = applied \/ applied' = applied + 1
    BY <1>7, CallStepShape DEF CallStep, ReportInv
  <2>2. told = "pending" /\ told' = "pending"
    BY <2>1 DEF ToolTold
  <2>3. QED
    BY <1>1, <1>3, <2>1, <2>2
<1>8. ASSUME NEW readable \in BOOLEAN, ReportCall(readable)
      PROVE  Step
  <2>1. /\ applied' = applied /\ tool' = tool /\ resp' = resp
        /\ report = "pending" /\ pc = "done"
        /\ report' = ReportOf(outcome.kind, outcome.may, readable)
    BY <1>8 DEF ReportCall, Say, ReportInv, vars, serverVars
  <2>2. report' \in {"true", "false", "null", "raised"}
    BY <2>1 DEF ReportOf
  <2>3. report' = "true" => applied > 0
    BY <2>1 DEF ReportOf, RestInv, ValueInv, ValueMeansDone
  <2>4. (report' = "false" /\ resp # "declined") => applied = 0
    BY <2>1 DEF ReportInv
  <2>5. /\ told = "pending"
        /\ told' \in {"done", "not done", "unknown"}
        /\ told' = "not done" => report' = "false" /\ resp # "declined"
        /\ told' = "done" => report' = "true"
    BY <2>1, <2>2 DEF ToolTold
  <2>6. QED
    BY <1>2, <2>1, <2>3, <2>4, <2>5
<1>9. CASE LateStep
  <2>1. /\ travelling > 0 /\ applied' = applied + 1
        /\ UNCHANGED <<call, resp, tool, report>>
    BY <1>9 DEF LateStep, LateArrival, toolVars, argVars
  <2>2. ~(report = "false" /\ resp # "declined")
    BY <1>0, <2>1 DEF ReportInv
  <2>3. told # "not done" /\ told' = told
    BY <2>1, <2>2 DEF ToolTold
  <2>4. QED
    BY <1>1, <2>1, <2>3
<1>10. QED
  BY <1>4, <1>5, <1>6, <1>7, <1>8, <1>9 DEF ToolNext, ToolDone

\* What the two tools report is an answer OneWrite allows, whatever is lost or late and
\* however the search goes on.
THEOREM ReportContractIsKept == SearchSpec => ReportKeepsContract
<1>1. SearchInit => ReportContract!Init
  BY DEF SearchInit, ToolInit, Init, ReportContract!Init
<1>2. [SearchNext]_searchVars => [ToolNext]_allVars
  BY DEF SearchNext, StartStep, Run, RunAgain, Collect, EndAtGraph, PollFails, ReadStatus,
         ReadRecords, RecordsFail, searchVars
<1>3. RestInv /\ ReportInv /\ RestInv' /\ ReportInv' /\ [ToolNext]_allVars
        => [ReportContract!Next]_<<tool = "start", applied,
               CASE report = "true"  -> "done"
                 [] report = "false" -> IF resp = "declined" THEN "unknown" ELSE "not done"
                 [] report = "pending" -> "pending"
                 [] OTHER            -> "unknown">>
  BY ToolKeepsContract DEF ToolTold
<1>4. QED
  BY <1>1, <1>2, <1>3, ReportHolds, PTL DEF SearchSpec, ReportKeepsContract, ReportContract!Spec

-----------------------------------------------------------------------------
\* A search that succeeded is never changed again, so what two requests of a poll read
\* of it belongs together.
LEMMA CountStep == CountInv /\ [SearchNext]_searchVars => CountInv'
<1> SUFFICES ASSUME CountInv, [SearchNext]_searchVars
             PROVE  CountInv'
  OBVIOUS
<1> USE DEF CountInv, CountsAreExact, AtLimit, Exceeded, graphVars, pollVars, NoAnswer
<1>1. CASE StartStep
  BY <1>1 DEF StartStep
<1>2. ASSUME NEW records \in SUBSET Records, NEW most \in RecordLimits, Run(records, most)
      PROVE  CountInv'
  BY <1>2 DEF Run
<1>3. CASE RunAgain
  BY <1>3 DEF RunAgain
<1>4. ASSUME NEW r \in Records, Collect(r)
      PROVE  CountInv'
  BY <1>4 DEF Collect
<1>5. ASSUME NEW how \in {"succeeded", "failed", "cancelled", "other"}, EndAtGraph(how)
      PROVE  CountInv'
  BY <1>5 DEF EndAtGraph, Pending
<1>6. ASSUME NEW kind \in {"error", "not found"}, PollFails(kind)
      PROVE  CountInv'
  BY <1>6 DEF PollFails, Answers
<1>7. CASE ReadStatus
  BY <1>7 DEF ReadStatus, Answers, Readable
<1>8. ASSUME NEW read \in SUBSET Records, NEW cut \in BOOLEAN, ReadRecords(read, cut)
      PROVE  CountInv'
  <2>1. /\ status = "succeeded" /\ (query.full <=> Exceeded)
        /\ UNCHANGED <<matching, limit, status, holds>> /\ poll' = "idle"
        /\ ~cut => read = holds
        /\ result'.kind = "summary" /\ result'.total = Cardinality(read)
        /\ result'.capped = IsPart(cut)
    BY <1>8 DEF ReadRecords
  <2>2. ~IsPart(cut) => holds = matching /\ read = holds
    BY <2>1 DEF IsPart
  <2>3. QED
    BY <2>1, <2>2
<1>9. CASE RecordsFail
  BY <1>9 DEF RecordsFail, Answers
<1>10. CASE UNCHANGED searchVars
  BY <1>10 DEF searchVars
<1>11. QED
  BY <1>1, <1>2, <1>3, <1>4, <1>5, <1>6, <1>7, <1>8, <1>9, <1>10 DEF SearchNext

\* An uncapped summary counts every matching record, for any record limit of Graph's.
THEOREM CountsAreAlwaysExact == SearchSpec => []CountsAreExact
<1>1. SearchInit => CountInv
  BY DEF SearchInit, CountInv, CountsAreExact, NoAnswer, None
<1>2. CountInv => CountsAreExact
  BY DEF CountInv
<1>3. QED
  BY <1>1, <1>2, CountStep, PTL DEF SearchSpec

-----------------------------------------------------------------------------
\* Counting a set of records gives a number.
LEMMA RecordCounts == \A s \in SUBSET Records : Cardinality(s) \in Nat
  BY SearchAssumption, FS_Subset, FS_CardinalityType

\* Every step keeps what Graph and a poll hold well formed.
LEMMA SearchTypeStep ==
    RestInv /\ ReportInv /\ RestInv' /\ ReportInv' /\ SearchTypeOK /\ [SearchNext]_searchVars
        => SearchTypeOK'
<1> SUFFICES ASSUME RestInv', ReportInv', SearchTypeOK, [SearchNext]_searchVars
             PROVE  SearchTypeOK'
  OBVIOUS
<1> USE DEF SearchTypeOK, graphVars, pollVars, NoAnswer, Statuses, Pending, None
<1>0. ToolTypeOK'
  BY DEF RestInv, ReportInv, ToolTypeOK
<1>1. CASE StartStep
  BY <1>0, <1>1 DEF StartStep
<1>2. ASSUME NEW records \in SUBSET Records, NEW most \in RecordLimits, Run(records, most)
      PROVE  SearchTypeOK'
  BY <1>0, <1>2 DEF Run
<1>3. CASE RunAgain
  BY <1>0, <1>3 DEF RunAgain
<1>4. ASSUME NEW r \in Records, Collect(r)
      PROVE  SearchTypeOK'
  BY <1>0, <1>4 DEF Collect
<1>5. ASSUME NEW how \in {"succeeded", "failed", "cancelled", "other"}, EndAtGraph(how)
      PROVE  SearchTypeOK'
  BY <1>0, <1>5 DEF EndAtGraph
<1>6. ASSUME NEW kind \in {"error", "not found"}, PollFails(kind)
      PROVE  SearchTypeOK'
  BY <1>0, <1>6 DEF PollFails, Answers
<1>7. CASE ReadStatus
  <2>1. Exceeded \in BOOLEAN
    BY DEF Exceeded
  <2>2. query' \in [status : Statuses, full : BOOLEAN]
    BY <1>7, <2>1 DEF ReadStatus
  <2>3. poll' \in {"idle", "records"}
    BY <1>7 DEF ReadStatus, Answers
  <2>4. /\ result'.kind \in {result.kind, "still running", "ended"}
        /\ result'.total \in {result.total, 0}
        /\ result'.capped \in {result.capped, FALSE}
    <3>1. CASE result' = result
      BY <3>1
    <3>2. ASSUME NEW kind \in {"still running", "ended"},
                 result' = [NoAnswer EXCEPT !.kind = kind]
          PROVE  result'.kind = kind /\ result'.total = 0 /\ result'.capped = FALSE
      BY <3>2
    <3>3. QED
      BY <1>7, <3>1, <3>2 DEF ReadStatus, Answers
  <2>5. UNCHANGED <<matching, limit, status, holds>>
    BY <1>7 DEF ReadStatus
  <2>6. /\ matching' \subseteq Records /\ holds' \subseteq matching'
        /\ status' = "notStarted" => holds' = {}
        /\ limit' \in RecordLimits \cup {0} /\ status' \in Statuses
    BY <2>5
  <2>7. result'.total \in Nat /\ result'.capped \in BOOLEAN
    <3>1. result.total \in Nat /\ result.capped \in BOOLEAN /\ 0 \in Nat
      OBVIOUS
    <3> HIDE DEF SearchTypeOK
    <3>2. result'.total \in Nat
      BY <2>4, <3>1, Zenon
    <3>3. result'.capped \in BOOLEAN
      BY <2>4, <3>1, Zenon
    <3>4. QED
      BY <3>2, <3>3
  <2>8. result'.kind \in {None, "error", "not found", "still running", "ended", "summary"}
    BY <2>4
  <2>9. QED
    BY <1>0, <2>2, <2>3, <2>6, <2>7, <2>8
<1>8. ASSUME NEW read \in SUBSET Records, NEW cut \in BOOLEAN, ReadRecords(read, cut)
      PROVE  SearchTypeOK'
  <2>1. Cardinality(read) \in Nat /\ IsPart(cut) \in BOOLEAN
    BY RecordCounts DEF IsPart
  <2>2. QED
    BY <1>0, <1>8, <2>1 DEF ReadRecords
<1>9. CASE RecordsFail
  BY <1>0, <1>9 DEF RecordsFail, Answers
<1>10. CASE UNCHANGED searchVars
  BY <1>0, <1>10 DEF searchVars
<1>11. QED
  BY <1>1, <1>2, <1>3, <1>4, <1>5, <1>6, <1>7, <1>8, <1>9, <1>10 DEF SearchNext

\* The search, its polls and the start call are well formed in every reachable state.
THEOREM SearchIsTyped == SearchSpec => []SearchTypeOK
<1>1. SearchInit /\ RestInv /\ ReportInv => SearchTypeOK
  BY DEF SearchInit, RestInv, ReportInv, ToolTypeOK, SearchTypeOK, NoAnswer, Statuses, Pending,
         None
<1>2. QED
  BY <1>1, SearchTypeStep, ReportHolds, PTL DEF SearchSpec
=============================================================================
