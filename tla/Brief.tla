-------------------------------- MODULE Brief --------------------------------
(***************************************************************************)
(* daily_brief (src/entraadm_mcp/server.py): the sections of every tenant, *)
(* one after another, under one wall-clock budget that is split evenly     *)
(* over the tenants still to come, and the Identity Protection probe with  *)
(* its cache, whose answer decides what is read and what a summary says.   *)
(*                                                                         *)
(* One read is one request or one walk of pages.  It starts only before    *)
(* its deadline and may end up to Overrun after it: RestClient shows that  *)
(* a request outlives its deadline by the operations of one attempt, whose *)
(* number the code does not bound, so that Overrun is an assumption.       *)
(***************************************************************************)
EXTENDS Naturals

CONSTANTS
    Count,          \* tenants of the file; 1 is the default, which comes first
    Budget,         \* ENTRAADM_DEADLINE; 0, which means no budget, is left out
    Durations,      \* how long a read may take
    Overrun,        \* how far the read under way may outlive its deadline
    TTL,            \* _IP_PROBE_TTL_SECONDS
    MaxBriefs,      \* calls of daily_brief
    Pauses,         \* time between two calls
    Licences,       \* what tenants have at first
    MaxChanges      \* licences and consents that come or go later

ASSUME BriefAssumption ==
    /\ Count \in Nat \ {0}
    /\ Budget \in Nat \ {0}
    /\ Durations \subseteq Nat /\ Pauses \subseteq Nat
    /\ \E d \in Durations : \A e \in Durations : e <= d
    /\ Overrun \in Nat /\ TTL \in Nat /\ MaxBriefs \in Nat
    /\ Licences \subseteq {"licensed", "not_licensed", "no_permission"}
    /\ MaxChanges \in Nat

VARIABLES
    now,        \* time.monotonic()
    whole,      \* the deadline of the call
    turn,       \* the tenant being read, 0 between calls
    share,      \* its share of the budget, as a deadline
    step,       \* the read that comes next, "summary" when all were made
    risk,       \* how Microsoft's risky users were read (_read_microsoft_risk)
    status,     \* probe["status"]
    cache,      \* _ip_cache: tenant -> time and status
    licence,    \* what Graph knows of each tenant's licence and consent
    changes,    \* changes of it so far
    briefs,     \* calls made
    allowance,  \* history: time the tenant's share had when its turn came
    overran,    \* history: by how much the earlier tenants outlived their shares
    askedAt,    \* history: when the probe of this turn began
    lastHeld    \* history: tenant, status -> last time it was true

budget == <<whole, turn, share, allowance, overran>>
probing == <<status, cache, askedAt>>
graph == <<licence, changes, lastHeld>>
vars == <<now, step, risk, briefs, budget, probing, graph>>

Tenants == 1..Count
None == "none"

\* The reads in the order _brief makes them.
Reads == {"overviews", "issues", "audits", "high", "medium", "signins"}
After(r) ==
    CASE r = "overviews" -> "issues"
      [] r = "issues"    -> "audits"
      [] r = "audits"    -> "probe"
      [] r = "high"      -> "medium"
      [] r = "medium"    -> "signins"
      [] r = "signins"   -> "summary"

\* Definite answers of the probe.
Statuses == {"licensed", "not_licensed", "no_permission"}

Idle == turn = 0

Max0(a, b) == IF a > b THEN a - b ELSE 0

Init ==
    /\ now = 0
    /\ whole = 0
    /\ turn = 0
    /\ share = 0
    /\ step = "summary"
    /\ risk = None
    /\ status = None
    /\ cache = [t \in Tenants |-> [at |-> 0, status |-> None]]
    /\ licence \in [Tenants -> Licences]
    /\ changes = 0
    /\ briefs = 0
    /\ allowance = 0
    /\ overran = 0
    /\ askedAt = 0
    /\ lastHeld = [t \in Tenants |-> [s \in Statuses |-> 0]]

-----------------------------------------------------------------------------
(***************************************************************************)
(* The budget.                                                             *)
(***************************************************************************)
\* Mutant of ShareOf: the parts already used are counted again.
ShareOfAll(w, t, at) == at + Max0(w, at) \div Count

\* Mutant of ShareOf: every tenant gets the same time, whatever is left.
ShareFixed(w, t, at) == at + Budget \div Count

\* _deadline_share: an even share of what is left; the last tenant gets all of it.
ShareOf(w, t, at) ==
    IF t = Count THEN w ELSE at + Max0(w, at) \div (Count - t + 1)

\* Tenant t's turn begins at time `at`, under the call's deadline w.
Turn(t, w, at) ==
    /\ turn' = t
    /\ share' = ShareOf(w, t, at)
    /\ allowance' = Max0(share', at)
    /\ step' = "overviews"
    /\ risk' = None
    /\ status' = None
    /\ askedAt' = 0

\* The next call, a pause of d after the last one.
StartBrief(d) ==
    /\ Idle
    /\ briefs < MaxBriefs
    /\ briefs' = briefs + 1
    /\ now' = now + d
    /\ whole' = now' + Budget
    /\ Turn(1, whole', now')
    /\ overran' = 0
    /\ UNCHANGED <<cache, graph>>

\* The summary of a tenant is done; _in_tenant and _deadline_share for the next one.
NextTenant ==
    /\ ~Idle
    /\ step = "summary"
    /\ turn < Count
    /\ Turn(turn + 1, whole, now)
    /\ overran' = overran + Max0(now, share)
    /\ UNCHANGED <<now, whole, briefs, cache, graph>>

\* The call returns; its deadlines are reset.
EndBrief ==
    /\ turn = Count
    /\ step = "summary"
    /\ turn' = 0
    /\ whole' = 0
    /\ share' = 0
    /\ risk' = None
    /\ status' = None
    /\ allowance' = 0
    /\ overran' = 0
    /\ UNCHANGED <<now, step, briefs, cache, askedAt, graph>>

Expired == now >= share

\* A read of d may end then.
Lasts(d) == now + d <= share + Overrun

-----------------------------------------------------------------------------
(***************************************************************************)
(* The sections.  How a log is read (full, cut by its page budget or by    *)
(* the deadline, or not at all) changes nothing in what follows.           *)
(***************************************************************************)
\* The requests of a read; one that begins with an expired budget sends none.
Elapse(d) ==
    /\ IF Expired THEN d = 0 ELSE Lasts(d)
    /\ now' = now + d

\* Read r of the turn lasts d; the next one follows however it ended.
Read(r, d) ==
    /\ ~Idle /\ step = r
    /\ Elapse(d)
    /\ step' = After(r)
    /\ UNCHANGED <<risk, briefs, budget, probing, graph>>

\* m365_service_health: the issues are read also when the overviews could not be.
ReadHealth(d) == \E r \in {"overviews", "issues"} : Read(r, d)

ReadAudits(d) == Read("audits", d)

\* _fetch_signins, the walk that feeds both the failure stats and the suspects.
ReadSignins(d) == Read("signins", d)

\* What comes of a walk of risky users that ends after d: the users (none, if no row
\* matches or the deadline ends the walk first), "not available", or an error.
RiskAnswers(t, d) ==
    {"failed"}
    \cup (IF licence[t] # "no_permission" \/ now + d >= share THEN {"read"} ELSE {})
    \cup (IF licence[t] # "licensed" /\ ~Expired THEN {"unavailable"} ELSE {})

\* _read_microsoft_risk: high, then medium unless high raised.  A combined filter that
\* Graph refuses is one more request of the same walk.
ReadRisk(r, d, how) ==
    /\ r \in {"high", "medium"}
    /\ ~Idle /\ step = r
    /\ how \in RiskAnswers(turn, d)
    /\ Elapse(d)
    /\ risk' = how
    /\ step' = IF how = "read" THEN After(r) ELSE "signins"
    /\ UNCHANGED <<briefs, budget, probing, graph>>

\* Mutant of Fresh: the time of the answer is not looked at.
FreshForever(t) == cache[t].status # None

Fresh(t) == cache[t].status # None /\ now - cache[t].at < TTL

\* A refused consent is asked for again every time.
Kept(s) == s \in {"licensed", "not_licensed"}

AfterProbe(s) == IF s = "licensed" THEN "high" ELSE "signins"

ProbeFromCache ==
    /\ ~Idle /\ step = "probe"
    /\ Fresh(turn)
    /\ status' = cache[turn].status
    /\ askedAt' = now
    /\ step' = AfterProbe(status')
    /\ UNCHANGED <<now, risk, briefs, budget, cache, graph>>

\* Graph answers riskyUsers?$top=1, or the probe fails at once or on its way.
AskProbe(s) ==
    /\ ~Idle /\ step = "probe"
    /\ ~Fresh(turn)
    /\ s = "error" \/ (~Expired /\ s = licence[turn])
    /\ status' = s
    /\ askedAt' = now
    /\ step' = IF Expired THEN AfterProbe(s) ELSE "answer"
    /\ UNCHANGED <<now, risk, briefs, budget, cache, graph>>

\* The answer is dated when it has arrived.
ProbeArrives(d) ==
    /\ ~Idle /\ step = "answer"
    /\ Lasts(d)
    /\ now' = now + d
    /\ cache' = IF Kept(status) THEN [cache EXCEPT ![turn] = [at |-> now', status |-> status]]
                ELSE cache
    /\ step' = AfterProbe(status)
    /\ UNCHANGED <<risk, briefs, budget, status, askedAt, graph>>

\* A licence is bought or expires, a consent is given or withdrawn.
Change(t, s) ==
    /\ changes < MaxChanges
    /\ licence[t] # s
    /\ changes' = changes + 1
    /\ licence' = [licence EXCEPT ![t] = s]
    /\ lastHeld' = [lastHeld EXCEPT ![t][licence[t]] = now]
    /\ UNCHANGED <<now, step, risk, briefs, budget, probing>>

Done == Idle /\ briefs = MaxBriefs /\ UNCHANGED vars

Next ==
    \/ \E d \in Pauses : StartBrief(d)
    \/ NextTenant \/ EndBrief
    \/ \E d \in Durations :
          \/ ReadHealth(d) \/ ReadAudits(d) \/ ReadSignins(d)
          \/ \E r \in Reads, how \in {"read", "unavailable", "failed"} : ReadRisk(r, d, how)
          \/ ProbeArrives(d)
    \/ \E s \in Statuses \cup {"error"} : AskProbe(s)
    \/ ProbeFromCache
    \/ \E t \in Tenants, s \in Statuses : Change(t, s)
    \/ Done

Spec == Init /\ [][Next]_vars

-----------------------------------------------------------------------------
Summed == ~Idle /\ step = "summary"

\* The shape of the state.
TypeOK ==
    /\ turn \in 0..Count
    /\ step \in Reads \cup {"probe", "answer", "summary"}
    /\ risk \in {None, "read", "unavailable", "failed"}
    /\ status \in Statuses \cup {None, "error"}
    /\ \A t \in Tenants : cache[t].status \in {None, "licensed", "not_licensed"}
    /\ Idle => whole = 0 /\ share = 0

\* daily_brief's docstring (server.py:3850-3854): a busy tenant cannot starve the next
\* one.  A tenant's share falls short of an even part of the budget only by the time the
\* earlier ones' last reads outlived theirs (rounded down to the unit of time).
EvenShare == ~Idle => Count * (allowance + overran + 1) > Budget

\* The overruns do not add up: however many tenants outlive their shares, the call
\* outlives its budget by one read.
BudgetIsKept == ~Idle => now <= whole + Overrun

Longest == CHOOSE d \in Durations : \A e \in Durations : e <= d

\* The status s of the tenant held at some time from `since` on.
HeldSince(t, s, since) == licence[t] = s \/ lastHeld[t][s] >= since

\* _identity_protection_status' docstring (server.py:1729-1741): the status of a summary
\* is at most an hour old, and the hour begins when the answer arrives; a consent that is
\* missing was missing when this call asked.
ProbeIsFresh ==
    (Summed /\ status \in Statuses) =>
        HeldSince(turn, status, IF status = "no_permission" THEN askedAt
                                ELSE Max0(askedAt, TTL + Longest))
=============================================================================
