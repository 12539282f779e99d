---------------------------- MODULE AuditSearch ----------------------------
(***************************************************************************)
(* A Purview audit search (src/entraadm_mcp/server.py): the object that    *)
(* audit_log_search_start creates lives on at Graph, collects its records  *)
(* and ends one way or another, while audit_log_search_result reads it in  *)
(* two requests, its status first and then its records.                    *)
(*                                                                         *)
(* The search begins to move with the report of the start call: what it    *)
(* did before can only be seen by a poll, and polls need that report's id. *)
(***************************************************************************)
EXTENDS WriteTools, FiniteSets

CONSTANTS
    Records,        \* audit records there may be
    RecordLimits    \* Graph's limits on the records of one search

ASSUME SearchAssumption ==
    /\ IsFiniteSet(Records)
    /\ RecordLimits \subseteq Nat

VARIABLES
    matching,   \* the records the filters match, known once the search runs
    limit,      \* the limit of this search
    status,     \* the search's status at Graph
    holds,      \* the records it has collected
    poll,       \* "idle", or "records" between the two requests of a poll
    query,      \* what the first request read
    result      \* what the last poll answered

graphVars == <<matching, limit, status, holds>>
pollVars == <<poll, query, result>>
searchVars == <<allVars, graphVars, pollVars>>

\* _AUDIT_PENDING_STATUSES
Pending == {"notStarted", "running"}

\* _AUDIT_DONE_STATUSES, and a status this server does not know, which may pass.
Statuses == Pending \cup {"succeeded", "failed", "cancelled", "other"}

NoAnswer == [kind |-> None, total |-> 0, capped |-> FALSE]

SearchInit ==
    /\ ToolInit
    /\ matching = {}
    /\ limit = 0
    /\ status = "notStarted"
    /\ holds = {}
    /\ poll = "idle"
    /\ query = [status |-> "notStarted", full |-> FALSE]
    /\ result = NoAnswer

\* The caller has a query_id.
HasId == stage = "reported" /\ tool = "start" /\ report = "true"

-----------------------------------------------------------------------------
(***************************************************************************)
(* The search at Graph.                                                    *)
(***************************************************************************)
AtLimit == Cardinality(holds) >= limit

\* isRecordCountLimitExceeded
Exceeded == AtLimit /\ holds # matching

Run(records, most) ==
    /\ HasId
    /\ status = "notStarted"
    /\ status' = "running"
    /\ matching' = records
    /\ limit' = most
    /\ UNCHANGED <<allVars, holds, pollVars>>

RunAgain ==
    /\ HasId
    /\ status = "other"
    /\ status' = "running"
    /\ UNCHANGED <<allVars, matching, limit, holds, pollVars>>

Collect(r) ==
    /\ HasId
    /\ status = "running"
    /\ ~AtLimit
    /\ r \in matching \ holds
    /\ holds' = holds \cup {r}
    /\ UNCHANGED <<allVars, matching, limit, status, pollVars>>

EndAtGraph(how) ==
    /\ HasId
    /\ status \in Pending
    /\ how = "succeeded" => status = "running" /\ (holds = matching \/ AtLimit)
    /\ how = "other" => status = "running"
    /\ status' = how
    /\ UNCHANGED <<allVars, matching, limit, holds, pollVars>>

-----------------------------------------------------------------------------
(***************************************************************************)
(* One poll.                                                               *)
(***************************************************************************)
Answers(kind) ==
    /\ poll' = "idle"
    /\ result' = [NoAnswer EXCEPT !.kind = kind]

\* A bad id, no configuration, another tenant's search (404), or any ApiError.
PollFails(kind) ==
    /\ HasId
    /\ poll = "idle"
    /\ kind \in {"error", "not found"}
    /\ Answers(kind)
    /\ UNCHANGED <<allVars, graphVars, query>>

\* Only a search that succeeded is read.
Readable(s) == s = "succeeded"

\* The status: a pending search is only reported, one that ended badly is an error.
ReadStatus ==
    /\ HasId
    /\ poll = "idle"
    /\ query' = [status |-> status, full |-> Exceeded]
    /\ IF Readable(status) THEN poll' = "records" /\ UNCHANGED result
       ELSE Answers(IF status \in Pending THEN "still running" ELSE "ended")
    /\ UNCHANGED <<allVars, graphVars>>

\* Mutant of IsPart: only the page budget makes the answer partial.
IsPartByPages(cut) == cut

\* capped: the walk was cut, or the search itself stopped collecting.
IsPart(cut) == cut \/ query.full

\* get_paged over /records, and the summary of what it read.
ReadRecords(read, cut) ==
    /\ poll = "records"
    /\ read \subseteq holds
    /\ ~cut => read = holds
    /\ poll' = "idle"
    /\ result' = [kind |-> "summary", total |-> Cardinality(read), capped |-> IsPart(cut)]
    /\ UNCHANGED <<allVars, graphVars, query>>

RecordsFail ==
    /\ poll = "records"
    /\ Answers("error")
    /\ UNCHANGED <<allVars, graphVars, query>>

StartStep == ToolNext /\ UNCHANGED <<graphVars, pollVars>>

SearchNext ==
    \/ StartStep
    \/ \E records \in SUBSET Records, most \in RecordLimits : Run(records, most)
    \/ RunAgain
    \/ \E r \in Records : Collect(r)
    \/ \E how \in {"succeeded", "failed", "cancelled", "other"} : EndAtGraph(how)
    \/ \E kind \in {"error", "not found"} : PollFails(kind)
    \/ ReadStatus
    \/ \E read \in SUBSET Records, cut \in BOOLEAN : ReadRecords(read, cut)
    \/ RecordsFail

SearchSpec == SearchInit /\ [][SearchNext]_searchVars

-----------------------------------------------------------------------------
\* The shape of the state, the start call's included.
SearchTypeOK ==
    /\ ToolTypeOK
    /\ matching \subseteq Records /\ holds \subseteq matching
    /\ status = "notStarted" => holds = {}
    /\ limit \in RecordLimits \cup {0}
    /\ status \in Statuses
    /\ poll \in {"idle", "records"}
    /\ query \in [status : Statuses, full : BOOLEAN]
    /\ result.kind \in {None, "error", "not found", "still running", "ended", "summary"}
    /\ result.total \in Nat /\ result.capped \in BOOLEAN

\* capped=false (server.py:3756-3762): the summary counts every record the filters match;
\* a search that is still collecting, failed, or hit Graph's own limit never passes for
\* one that found that few.
CountsAreExact ==
    (result.kind = "summary" /\ ~result.capped) => result.total = Cardinality(matching)

\* What a poll has read holds of the search until the next one: a search that succeeded
\* stays as it is.
CountInv ==
    /\ status = "succeeded" => holds = matching \/ AtLimit
    /\ poll = "records" => status = "succeeded" /\ (query.full <=> Exceeded)
    /\ result.kind = "summary" => status = "succeeded"
    /\ CountsAreExact
=============================================================================
