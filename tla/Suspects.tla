------------------------------ MODULE Suspects ------------------------------
(***************************************************************************)
(* signin_failure_stats, signin_success_stats and compromise_suspects      *)
(* (src/entraadm_mcp/server.py): one walk of the sign-in log that may be   *)
(* cut anywhere, what is found in the rows read, and Microsoft's risk      *)
(* lists merged in.  The table of internal ranges comes from SitesCache,   *)
(* the verdict on many countries from CountryWindow.                       *)
(*                                                                         *)
(* A loop over the rows that only collects is a set of rows here; lists    *)
(* are sets, and cutting the finished lists to 50 entries is left out.     *)
(***************************************************************************)
EXTENDS SitesCache, CountryWindow

CONSTANTS
    Users,          \* user names as written in the log
    AccountOf,      \* casefold: the account a spelling means
    Home,           \* home countries, or Unset
    Unset,
    Absent,         \* a field the row does not have, or a time that does not parse
    Logs,           \* the logs a behaviour may meet: sets of rows
    BusyLogs,       \* those for which other calls are interleaved with this one's load
    SprayMin,       \* _SPRAY_MIN_DISTINCT_USERS
    MinUsers,       \* min_spray_users, min_distinct_users
    RiskAnswers,    \* what _read_microsoft_risk may return
    Me              \* the thread of this call

Row == [id : Nat, user : Users \cup {Absent}, ip : Ips \cup {Absent},
        code : {"success", "credential", "interrupt", "none"}, country : Countries \cup {Absent},
        legacy : BOOLEAN, tool : BOOLEAN, time : Nat \cup {Absent}]

RiskAnswer == [available : BOOLEAN, high : SUBSET Users, medium : SUBSET Users]

ASSUME SuspectsAssumption ==
    /\ IsFiniteSet(Users) /\ IsFiniteSet(Ips)
    /\ Absent \notin Users \cup Ips \cup Countries \cup Nat
    /\ Home = Unset \/ Home \subseteq Countries
    /\ \A log \in Logs : log \subseteq Row /\ IsFiniteSet(log)
    /\ BusyLogs \subseteq Logs
    /\ SprayMin \in Nat /\ MinUsers \in Nat \ {0, 1}
    /\ RiskAnswers \subseteq RiskAnswer
    /\ Me \in Threads

VARIABLES
    tool,       \* the tool called
    pc,         \* where its call stands
    risk,       \* Microsoft's answer
    log,        \* the sign-ins of the window
    rows,       \* the rows the walk returned
    capped,     \* its capped flag
    subject,    \* the account _multi_country is looking at
    judged,     \* the accounts it has looked at
    multi,      \* those it found to be in many countries
    answer,     \* the findings
    counts      \* counts.high and counts.medium

callVars == <<tool, pc, risk, log, rows, capped>>
judgeVars == <<subject, judged, multi>>
answerVars == <<answer, counts>>
vars == <<siteVars, windowVars, callVars, judgeVars, answerVars>>

Tools == {"signin_failure_stats", "signin_success_stats", "compromise_suspects"}

NoRisk == [available |-> FALSE, high |-> {}, medium |-> {}]
NoCounts == [high |-> 0, medium |-> 0]

-----------------------------------------------------------------------------
(***************************************************************************)
(* What is found in a set R of rows, given the internal addresses T.       *)
(***************************************************************************)
\* signin_failure_stats: a row without an error code is no failure.
Failures(R) == {r \in R : r.code \notin {"success", "none"}}

FailingAt(R, ip) == {r.user : r \in {q \in Failures(R) : q.ip = ip /\ q.user # Absent}}

SpraySuspects(R) == {ip \in Ips : Cardinality(FailingAt(R, ip)) >= SprayMin}

\* spray_suspects and internal_spray_suspects are told apart by the site.
FailureFindings(R, T) ==
    {<<IF ip \in T THEN "internal" ELSE "external", ip>> : ip \in SpraySuspects(R)}

\* signin_success_stats.
Successes(R) == {r \in R : r.code = "success"}

SharedBy(R, ip) == {r.user : r \in {q \in Successes(R) : q.ip = ip /\ q.user # Absent}}

SuccessFindings(R) ==
    {<<"shared", ip>> : ip \in {i \in Ips : Cardinality(SharedBy(R, i)) >= MinUsers}}
    \cup {<<"legacy", r.user>> : r \in {q \in Successes(R) : q.legacy /\ q.user # Absent}}

\* compromise_suspects: rows without a user or an address are passed over.
Usable(R) == {r \in R : r.user # Absent /\ r.ip # Absent}

CredentialFailures(R, ip) ==
    {r.user : r \in {q \in Usable(R) : q.code = "credential" /\ q.ip = ip}}

Inside(R, T) == {r \in Usable(R) : r.code = "success" /\ r.ip \in T}

\* The successes behind `pair`.
Outside(R, T) == {r \in Usable(R) : r.code = "success" /\ r.ip \notin T}

FromHome(R, T) == {r \in Outside(R, T) : Home # Unset /\ r.country \in Home}

\* Mutant of Foreign: accounts that were also seen at home are travelling.
ForeignStayers(R, T) ==
    {r \in Outside(R, T) :
        /\ Home # Unset /\ r.country # Absent /\ r.country \notin Home
        /\ \A h \in FromHome(R, T) : h.user # r.user}

\* A success with no country is never called foreign.
Foreign(R, T) ==
    {r \in Outside(R, T) : Home # Unset /\ r.country # Absent /\ r.country \notin Home}

ForeignOf(R, T, u) == {r \in Foreign(R, T) : r.user = u}

ForeignUsers(R, T) == {r.user : r \in Foreign(R, T)}

HomeSuccess(R, T) == {r.user : r \in Inside(R, T) \cup FromHome(R, T)}

SprayIps(R, T) ==
    {r.ip : r \in {q \in Outside(R, T) : Cardinality(CredentialFailures(R, q.ip)) >= MinUsers}}

Breaches(R, T) == {<<r.user, r.ip>> : r \in {q \in Outside(R, T) : q.ip \in SprayIps(R, T)}}

Breached(R, T) == {b[1] : b \in Breaches(R, T)}

\* internal_ranges_known: without ranges the tenant's own egress looks like a spray.
HighBreached(R, T) == IF T # {} THEN Breached(R, T) ELSE {}

\* The pairs of f["seen"].
SeenPairs(R, T, u) == {r \in ForeignOf(R, T, u) : r.time # Absent}

\* The high accounts, when the accounts in `many` were in many countries.
High(R, T, many) ==
    HighBreached(R, T) \cup
    {u \in ForeignUsers(R, T) :
        u \in many \/ \E r \in ForeignOf(R, T, u) : r.legacy \/ r.tool}

Suspected(R, T) == Breached(R, T) \cup ForeignUsers(R, T)

CompromiseFindings(R, T, many) ==
    {<<"breach", b>> : b \in Breaches(R, T)}
    \cup {<<"foreign", u>> : u \in ForeignUsers(R, T)}
    \cup {<<"high", u>> : u \in High(R, T, many)}

-----------------------------------------------------------------------------
(***************************************************************************)
(* The call.                                                               *)
(***************************************************************************)
Ranges == table[Me].ranges

Init ==
    /\ SitesInit
    /\ WindowIdle
    /\ tool \in Tools
    /\ pc = IF tool = "compromise_suspects" THEN "risk" ELSE "walk"
    /\ risk = NoRisk
    /\ log = {} /\ rows = {} /\ capped = FALSE
    /\ subject = Absent /\ judged = {} /\ multi = {}
    /\ answer = {} /\ counts = NoCounts

\* Microsoft's lists are read before the sign-in log.
ReadRisk(r) ==
    /\ pc = "risk"
    /\ risk' = r
    /\ pc' = "walk"
    /\ UNCHANGED <<siteVars, windowVars, tool, log, rows, capped, judgeVars, answerVars>>

\* _fetch_signins: what the walk has read when it ends or is cut.
FetchSignins ==
    /\ pc = "walk"
    /\ \E all \in Logs : \E read \in SUBSET all, cut \in BOOLEAN :
          /\ ~cut => read = all
          /\ log' = all
          /\ rows' = read
          /\ capped' = cut
    /\ pc' = IF tool = "signin_success_stats" THEN "tally" ELSE "load"
    /\ UNCHANGED <<siteVars, windowVars, tool, risk, judgeVars, answerVars>>

FetchFails ==
    /\ pc = "walk"
    /\ pc' = "error"
    /\ UNCHANGED <<siteVars, windowVars, tool, risk, log, rows, capped, judgeVars, answerVars>>

\* A stat or a read that fails gives the table of an unreadable file, which Contents may
\* hold as well.
LoadRanges ==
    /\ pc = "load"
    /\ LoadStep(Me)
    /\ log \in BusyLogs \/ disturbed' = disturbed
    /\ pc' = IF loading'[Me] = "in" THEN "tally" ELSE "load"
    /\ UNCHANGED <<windowVars, tool, risk, log, rows, capped, judgeVars, answerVars>>

\* Other calls, and whoever edits the file.  They share nothing else with this one, so
\* only what falls into its load is interleaved; the load does not look at the rows,
\* so it is done for a few logs (BusyLogs).
OthersStep ==
    /\ pc = "load"
    /\ log \in BusyLogs
    /\ \/ \E new \in Contents : EditSites(new)
       \/ \E t \in Threads \ {Me} : LoadStep(t) \/ Leave(t)
    /\ UNCHANGED <<windowVars, callVars, judgeVars, answerVars>>

\* The statistics tools are done with one pass over the rows.
AnswerStats ==
    /\ pc = "tally"
    /\ tool # "compromise_suspects"
    /\ answer' = IF tool = "signin_failure_stats" THEN FailureFindings(rows, Ranges)
                                                  ELSE SuccessFindings(rows)
    /\ pc' = "done"
    /\ UNCHANGED <<siteVars, windowVars, tool, risk, log, rows, capped, judgeVars, counts>>

\* sorted(seen): any order by time.
Orders(S) == {s \in [1..Cardinality(S) -> S] : PairsOf(s) = S /\ Sorted(s)}

JudgeAccount(u) ==
    /\ pc = "tally"
    /\ tool = "compromise_suspects"
    /\ subject = Absent
    /\ u \in ForeignUsers(rows, Ranges) \ judged
    /\ subject' = u
    /\ \E s \in Orders(SeenPairs(rows, Ranges, u)) : BeginWindow(s)
    /\ UNCHANGED <<siteVars, callVars, judged, multi, answerVars>>

WindowStep ==
    /\ subject # Absent
    /\ WindowNext
    /\ UNCHANGED <<siteVars, callVars, judgeVars, answerVars>>

Judged ==
    /\ subject # Absent
    /\ step = "idle"
    /\ multi' = IF verdict THEN multi \cup {subject} ELSE multi
    /\ judged' = judged \cup {subject}
    /\ subject' = Absent
    /\ UNCHANGED <<siteVars, windowVars, callVars, answerVars>>

\* The lists of _compromise, with its own counts: names as they are written.
ListSuspects ==
    LET high == High(rows, Ranges, multi) IN
    /\ pc = "tally"
    /\ tool = "compromise_suspects"
    /\ subject = Absent
    /\ ForeignUsers(rows, Ranges) \subseteq judged
    /\ answer' = CompromiseFindings(rows, Ranges, multi)
    /\ counts' = [high |-> Cardinality(high),
                  medium |-> Cardinality(Suspected(rows, Ranges) \ high)]
    /\ pc' = "merge"
    /\ UNCHANGED <<siteVars, windowVars, tool, risk, log, rows, capped, judgeVars>>

Accounts(names) == {AccountOf[u] : u \in names}

\* Mutant of Recount: an account both high here and medium at Microsoft counts twice.
RecountApart(high, medium) ==
    [high |-> Cardinality(Accounts(high \cup risk.high)),
     medium |-> Cardinality(Accounts(medium \cup (risk.medium \ risk.high)))]

\* _apply_microsoft_risk: with Microsoft's lists, accounts are counted instead of names.
Recount(high, medium) ==
    LET all == Accounts(high \cup risk.high) IN
    [high |-> Cardinality(all),
     medium |-> Cardinality(Accounts(medium \cup risk.medium) \ all)]

MergeRisk ==
    LET high == High(rows, Ranges, multi) IN
    /\ pc = "merge"
    /\ counts' = IF risk.available THEN Recount(high, Suspected(rows, Ranges) \ high)
                                   ELSE counts
    /\ pc' = "done"
    /\ UNCHANGED <<siteVars, windowVars, tool, risk, log, rows, capped, judgeVars, answer>>

Finished == pc \in {"done", "error"} /\ UNCHANGED vars

Next ==
    \/ \E r \in RiskAnswers : ReadRisk(r)
    \/ FetchSignins \/ FetchFails
    \/ LoadRanges \/ OthersStep
    \/ AnswerStats
    \/ \E u \in Users : JudgeAccount(u)
    \/ WindowStep \/ Judged
    \/ ListSuspects \/ MergeRisk
    \/ Finished

Spec == Init /\ [][Next]_vars

-----------------------------------------------------------------------------
\* The shape of the state.
TypeOK ==
    /\ tool \in Tools
    /\ pc \in {"risk", "walk", "load", "tally", "merge", "done", "error"}
    /\ risk \in RiskAnswers \cup {NoRisk}
    /\ log \subseteq Row /\ rows \subseteq log
    /\ capped \in BOOLEAN /\ ~capped => rows = log
    /\ subject \in Users \cup {Absent} /\ judged \subseteq Users /\ multi \subseteq judged
    /\ counts \in [high : Nat, medium : Nat]

\* Accounts whose foreign sign-ins span many countries in a window, by definition.
Spread(R, T) == {u \in ForeignUsers(R, T) : SpreadOver(SeenPairs(R, T, u))}

\* The answer of _multi_country for an account is the definition of its docstring
\* (server.py:1453-1456), at exactly Span and with equal times too.
WindowIsExact ==
    (subject # Absent /\ step = "idle") =>
        (verdict <=> SpreadOver(SeenPairs(rows, Ranges, subject)))

\* What the tool reports of a set R of rows.
FindingsIn(R) ==
    CASE tool = "signin_failure_stats" -> FailureFindings(R, Ranges)
      [] tool = "signin_success_stats" -> SuccessFindings(R)
      [] tool = "compromise_suspects" -> CompromiseFindings(R, Ranges, Spread(R, Ranges))

\* capped=true (server.py:1938-1939): a walk cut anywhere reports a part of what is there;
\* no address, account or `high` of it would be taken back by the rows left unread.
FindingsAreLowerBound == pc = "done" => answer \subseteq FindingsIn(log)

Null == "null"

\* Mutant of AtHome: the rows left unread are forgotten.
AtHomeOfRows(u) == IF u \in HomeSuccess(rows, Ranges) THEN "true" ELSE "false"

\* The home_success_in_window of a foreign account.
AtHome(u) ==
    IF u \in HomeSuccess(rows, Ranges) THEN "true" ELSE IF capped THEN Null ELSE "false"

\* home_success_in_window (server.py:1608-1611): "false" is said of a user name only when
\* the whole window holds no sign-in under this very name from home or from an internal
\* address, also of a walk that was cut; "true" only when it holds one.
NotAtHomeIsProved ==
    pc = "done" =>
        \A u \in ForeignUsers(rows, Ranges) :
            /\ AtHome(u) = "false" => \A r \in Inside(log, Ranges) \cup FromHome(log, Ranges) : r.user # u
            /\ AtHome(u) = "true" => u \in HomeSuccess(log, Ranges)

\* counts when Microsoft's lists are available (server.py:1869-1875): every account in any
\* finding is counted once, however its name is written in the log and at Microsoft.
AccountsAreCountedOnce ==
    (pc = "done" /\ tool = "compromise_suspects" /\ risk.available) =>
        counts.high + counts.medium =
            Cardinality(Accounts(Suspected(rows, Ranges) \cup risk.high \cup risk.medium))

=============================================================================
