----------------------------- MODULE WriteTools -----------------------------
(***************************************************************************)
(* The two tools that change something, revoke_sign_in_sessions and        *)
(* audit_log_search_start (src/entraadm_mcp/server.py), on top of the REST *)
(* client's post and post_json: what their three-valued report (`revoked`, *)
(* `created`) says next to what happened at Graph.                         *)
(***************************************************************************)
EXTENDS RestClient

CONSTANTS
    Tools,          \* the tools a behaviour may start
    LookupTimes     \* how long the account lookup, a get of its own, may take

ASSUME ToolAssumption ==
    /\ Tools \subseteq {"revoke", "start"}
    /\ LookupTimes \subseteq Nat

VARIABLES
    tool,       \* the tool called
    stage,      \* "enter", "call" while its POST runs, "reported"
    report      \* revoked / created: "true", "false" or "null"

toolVars == <<tool, stage, report>>
allVars == <<vars, toolVars>>

Reports == {"pending", "true", "false", "null", "raised"}

\* One deadline covers the whole tool call: _with_call_deadline, before the lookup.
ToolInit ==
    /\ Init
    /\ tool \in Tools
    /\ call = IF tool = "revoke" THEN "post" ELSE "post_json"
    /\ stage = "enter"
    /\ report = "pending"

Say(value) ==
    /\ stage' = "reported"
    /\ report' = value
    /\ UNCHANGED tool

\* The switch is off, the arguments are bad, no tenant claims the domain, or the
\* configuration cannot be loaded.
RefuseAtOnce ==
    /\ stage = "enter"
    /\ Say("false")
    /\ UNCHANGED vars

\* _find_user_checked: the account, a guest, nobody, or an error.  The lookup is a
\* request of its own and may itself outlast the deadline.
LookUp(d, found) ==
    /\ stage = "enter"
    /\ tool = "revoke"
    /\ now' = now + d
    /\ \/ found = "member" /\ stage' = "call" /\ UNCHANGED <<tool, report>>
       \/ found \in {"guest", "nobody", "error"} /\ Say("false")
    /\ UNCHANGED <<argVars, pc, attemptVars, clientVars, resp, chunks, outcome, serverVars,
                   attempts, seen>>

Submit ==
    /\ stage = "enter"
    /\ tool = "start"
    /\ stage' = "call"
    /\ UNCHANGED <<vars, tool, report>>

CallStep ==
    /\ stage = "call"
    /\ ClientNext
    /\ UNCHANGED toolVars

\* Mutant of ReportOf: only the last answer counts, as for a read.
ReportOfLast(kind, may, readable) ==
    IF kind = "ok" /\ readable THEN "true" ELSE "false"

\* Mutant of ReportOf: every failure is an unknown outcome.
ReportOfTimid(kind, may, readable) ==
    CASE kind = "ok" /\ readable -> "true"
      [] kind = "declined"       -> "false"
      [] kind = "ValueError"     -> "raised"
      [] OTHER                   -> "null"

\* The report for what the client returned or raised; a body without a boolean value
\* (revoke) or a usable query id (start) is not readable.  A bare ValueError is none of
\* the exceptions either tool handles.
ReportOf(kind, may, readable) ==
    CASE kind = "ok"         -> IF readable THEN "true" ELSE "null"
      [] kind = "declined"   -> IF tool = "revoke" THEN "false" ELSE "null"
      [] kind = "ValueError" -> "raised"
      [] OTHER               -> IF may THEN "null" ELSE "false"

ReportCall(readable) ==
    /\ stage = "call"
    /\ pc = "done"
    /\ Say(ReportOf(outcome.kind, outcome.may, readable))
    /\ UNCHANGED vars

LateStep == LateArrival /\ UNCHANGED toolVars

ToolDone == stage = "reported" /\ travelling = 0 /\ UNCHANGED allVars

ToolNext ==
    \/ RefuseAtOnce
    \/ \E d \in LookupTimes, found \in {"member", "guest", "nobody", "error"} :
          LookUp(d, found)
    \/ Submit
    \/ CallStep
    \/ \E readable \in BOOLEAN : ReportCall(readable)
    \/ LateStep
    \/ ToolDone

ToolSpec == ToolInit /\ [][ToolNext]_allVars

-----------------------------------------------------------------------------
\* The shape of the state.
ToolTypeOK ==
    /\ TypeOK
    /\ tool \in Tools
    /\ stage \in {"enter", "call", "reported"}
    /\ report \in Reports

\* "null" is kept for requests that left this host: a refusal, a failed lookup, an
\* exhausted deadline or a refused connection is never reported as unknown.
NullMeansSent == report = "null" => seen.left > 0

\* A tool report is the answer of OneWrite to the tool's caller.  When Graph's last answer
\* declined the action, it says nothing about earlier attempts, nor does an exception.
ReportContract == INSTANCE OneWrite WITH
    creates <- tool = "start",
    effects <- applied,
    answer <- CASE report = "true"  -> "done"
                [] report = "false" -> IF resp = "declined" THEN "unknown" ELSE "not done"
                [] report = "pending" -> "pending"
                [] OTHER            -> "unknown"

\* Every behaviour of the tool is one OneWrite allows: also an answer lost after the
\* search was created, or a request that arrives after the report.
ReportKeepsContract == ReportContract!Spec

\* revoke_sign_in_sessions' docstring (server.py:4102-4107): `revoked` is "False when
\* nothing was done", null when the outcome is unknown.
RevokedFalseMeansNothingDone ==
    (tool = "revoke" /\ report = "false") => applied = 0
-----------------------------------------------------------------------------
(***************************************************************************)
(* The inductive invariant behind the reports, by part.                    *)
(***************************************************************************)
\* A value the client returns was the answer to a request that left this host.
SentInv ==
    /\ (pc = "done" /\ outcome.kind \in Values) => seen.left > 0
    /\ (pc = "done" /\ outcome.kind = "declined") => resp = "declined"

\* Nothing happens before the call, and what was reported stays true after it.
ReportInv ==
    /\ tool \in Tools
    /\ stage \in {"enter", "call", "reported"}
    /\ report \in Reports
    /\ call = IF tool = "revoke" THEN "post" ELSE "post_json"
    /\ stage = "reported" <=> report # "pending"
    /\ stage = "enter" => applied = 0 /\ travelling = 0
    /\ (report = "false" /\ resp # "declined") => applied = 0 /\ travelling = 0
    /\ report = "null" => seen.left > 0
=============================================================================
