---------------------------- MODULE TenantRouting ----------------------------
(***************************************************************************)
(* Which tenant a tool call works in: load_tenants, for_upn and resolve    *)
(* (src/entraadm_mcp/config.py), and the wrapper _tenant_scoped with the   *)
(* process-wide tenants and clients it uses (src/entraadm_mcp/server.py).  *)
(* The MCP server runs each synchronous tool call in a worker thread, and  *)
(* an operator may edit the tenant file meanwhile.                         *)
(*                                                                         *)
(* A contextvar belongs to one call; `_state` is shared by all of them.    *)
(***************************************************************************)
EXTENDS Naturals, SequencesExt

CONSTANTS
    Files,      \* what ENTRAADM_CONFIG may hold (or the env-only deployment)
    Requests,   \* the calls a client may make
    Calls,      \* calls under way at a time
    MaxEdits,   \* edits of the file
    RacingEdits \* whether an edit may fall into the moment a call takes to load the file

None == "none"

VARIABLES
    file,           \* the tenant file
    edits,          \* edits made to it
    tenants,        \* _state["tenants"]
    defaultClient,  \* _state["client"]: the section it was built from
    clients,        \* _state["clients"]: name -> section
    maker,          \* which client that is: tenant -> the call that made the one kept
    request,        \* per call: its arguments
    stage,          \* per call: where it stands
    local,          \* per call: the tenants its wrapper works with
    current,        \* per call: _CURRENT_TENANT
    tagged,         \* per call: the wrapper names the tenant in the answer
    note,           \* per call: user_domain_claimed is false
    used            \* per call: the section whose credential its request carried

state == <<tenants, defaultClient, clients, maker>>
vars == <<file, edits, state, request, stage, local, current, tagged, note, used>>

\* A configuration: from_file and its sections in order.
NotLoaded == [fromFile |-> FALSE, sections |-> <<>>]
NoSection == [name |-> None, id |-> None, domains |-> {}, default |-> FALSE]
Sections(c) == ToSet(c.sections)

ASSUME RoutingAssumption ==
    /\ RacingEdits \in BOOLEAN /\ MaxEdits \in Nat
    /\ \A f \in Files :
          /\ f = [fromFile |-> f.fromFile, sections |-> f.sections]
          /\ f.fromFile \in BOOLEAN
          /\ f.sections \in Seq(Sections(f))
          /\ \A s \in Sections(f) :
                /\ s = [name |-> s.name, id |-> s.id, domains |-> s.domains,
                         default |-> s.default]
                /\ s.name # None
                /\ s.default \in BOOLEAN

\* What load_tenants accepts (its checks of one section's syntax apart).
Valid(f) ==
    /\ f.sections # <<>>
    /\ \A i, j \in DOMAIN f.sections : i # j =>
          /\ f.sections[i].name # f.sections[j].name
          /\ f.sections[i].domains \cap f.sections[j].domains = {}
    /\ Cardinality({i \in DOMAIN f.sections : f.sections[i].default}) <= 1
    /\ Len(f.sections) > 1 => \E s \in Sections(f) : s.default

\* A single section is the default without saying so.
Loaded(f) ==
    IF Len(f.sections) = 1 THEN [f EXCEPT !.sections[1].default = TRUE] ELSE f

DefaultOf(c) == CHOOSE s \in Sections(c) : s.default

HasName(c, name) == \E s \in Sections(c) : s.name = name
Get(c, name) == CHOOSE s \in Sections(c) : s.name = name

\* The section a lookup finds, or NoSection.
At(c, i) == IF i = 0 THEN NoSection ELSE c.sections[i]

\* _by_domain: the last section listing the domain.
ByDomain(c, domain) == At(c, SelectLastInSeq(c.sections, LAMBDA s : domain \in s.domains))

\* for_upn.
ForUpn(c, domain) == IF c.fromFile THEN ByDomain(c, domain) ELSE DefaultOf(c)

\* Mutant of Resolve: an unknown reference is the default.
ResolveOrDefault(c, ref) ==
    LET i == SelectInSeq(c.sections, LAMBDA s : ref \in {s.name, s.id})
    IN  IF i # 0 THEN At(c, i)
        ELSE IF ByDomain(c, ref) # NoSection THEN ByDomain(c, ref) ELSE DefaultOf(c)

\* resolve: the first section of that name or tenant id, else the one claiming the domain.
Resolve(c, ref) ==
    LET i == SelectInSeq(c.sections, LAMBDA s : ref \in {s.name, s.id})
    IN  IF i # 0 THEN At(c, i) ELSE ByDomain(c, ref)

\* The tools by their decorators: "user" (user_arg, the tenant argument wins), "revoke"
\* (user_arg, no tenant argument), "audit" (conflict="refuse", unclaimed="fallback") and
\* "plain" (no user_arg).
HasUser(r) == r.tool # "plain" /\ r.user # None
ConflictRefused(r) == r.tool = "audit"
UnclaimedRefused(r) == r.tool # "audit"

\* The tenant claiming the user's domain.
Owner(c, r) == IF HasUser(r) THEN ForUpn(c, r.user) ELSE NoSection

-----------------------------------------------------------------------------
Init ==
    /\ file \in Files
    /\ edits = 0
    /\ tenants = NotLoaded
    /\ defaultClient = NoSection
    /\ clients = [n \in {} |-> NoSection]
    /\ maker = [n \in {} |-> None]
    /\ request \in [Calls -> {r \in Requests : r.brief = None}]
    /\ stage = [c \in Calls |-> "enter"]
    /\ local = [c \in Calls |-> NotLoaded]
    /\ current = [c \in Calls |-> None]
    /\ tagged = [c \in Calls |-> FALSE]
    /\ note = [c \in Calls |-> FALSE]
    /\ used = [c \in Calls |-> NoSection]

Edit(f) ==
    /\ edits < MaxEdits
    /\ RacingEdits \/ \A c \in Calls : stage[c] \notin {"load", "reload"}
    /\ f.fromFile = file.fromFile
    /\ file' = f
    /\ edits' = edits + 1
    /\ UNCHANGED <<state, request, stage, local, current, tagged, note, used>>

Goto(c, where) == stage' = [stage EXCEPT ![c] = where]

\* Mutant of MustLoad: every call loads the file again.
MustLoadAlways == TRUE

\* _tenants() has to load the file.
MustLoad == tenants = NotLoaded

\* _tenants(), first look: the wrapper takes the shared object.
Enter(c) ==
    /\ stage[c] = "enter"
    /\ IF MustLoad
       THEN Goto(c, "load") /\ UNCHANGED local
       ELSE local' = [local EXCEPT ![c] = tenants] /\ Goto(c, "route")
    /\ UNCHANGED <<file, edits, state, request, current, tagged, note, used>>

\* _tenants(): nobody had loaded the file.  On a ConfigError the tool runs unrouted, in
\* the tenant in effect, to report the error in its own shape.
Load(c) ==
    /\ stage[c] = "load"
    /\ IF Valid(file)
       THEN /\ tenants' = Loaded(file)
            /\ local' = [local EXCEPT ![c] = Loaded(file)]
            /\ Goto(c, "route")
       ELSE Goto(c, "client") /\ UNCHANGED <<tenants, local>>
    /\ UNCHANGED <<file, edits, defaultClient, clients, maker, request, current, tagged, note, used>>

\* Mutant of Unclaimed: only a call without a tenant argument says so.
UnclaimedUnlessRef(c, r) == HasUser(r) /\ r.ref = None /\ Owner(c, r) = NoSection

\* The user's domain is no tenant's.
Unclaimed(c, r) == HasUser(r) /\ Owner(c, r) = NoSection

\* The tool runs in this tenant.
RunIn(c, name) ==
    /\ current' = [current EXCEPT ![c] = name]
    /\ tagged' = [tagged EXCEPT ![c] = local[c].fromFile]
    /\ note' = [note EXCEPT ![c] = local[c].fromFile /\ Unclaimed(local[c], request[c])]
    /\ Goto(c, "client")

Refuse(c) == Goto(c, "refused") /\ UNCHANGED <<current, tagged, note>>

\* _current_tenant() of the shared tenants, by name: the tenant in effect or the default.
InEffect(c) == IF current[c] = None THEN DefaultOf(tenants).name ELSE current[c]

RouteByRef(c) ==
    LET r == request[c]
        given == Resolve(local[c], r.ref)
        owner == Owner(local[c], r)
    IN  /\ stage[c] = "route"
        /\ r.ref # None
        /\ IF given = NoSection \/ (ConflictRefused(r) /\ owner # NoSection /\ owner.name # given.name)
           THEN Refuse(c)
           ELSE RunIn(c, given.name)
        /\ UNCHANGED <<file, edits, state, request, local, used>>

RouteByUser(c) ==
    LET r == request[c]
        owner == Owner(local[c], r)
    IN  /\ stage[c] = "route"
        /\ r.ref = None
        /\ IF owner # NoSection THEN RunIn(c, owner.name)
           ELSE IF HasUser(r) /\ UnclaimedRefused(r) THEN Refuse(c)
           ELSE RunIn(c, InEffect(c))
        /\ UNCHANGED <<file, edits, state, request, local, used>>

\* Mutant of HasSlot: every tenant's client is kept in _state["client"].
HasSlotAlways(name) == TRUE

\* The tenant whose client is kept in _state["client"].
HasSlot(name) == name = DefaultOf(tenants).name

Cached(name) ==
    IF HasSlot(name) THEN defaultClient
    ELSE IF name \in DOMAIN clients THEN clients[name] ELSE NoSection

\* _client(): the tenants are loaded by now, or once more if they could not be before;
\* a tenant of that name may be gone, and its client may have to be made.
FindClient(c) ==
    /\ stage[c] = "client"
    /\ IF tenants = NotLoaded THEN Goto(c, "reload") /\ UNCHANGED used
       ELSE IF ~HasName(tenants, InEffect(c)) THEN Goto(c, "raised") /\ UNCHANGED used
       ELSE IF Cached(InEffect(c)) = NoSection THEN Goto(c, "create") /\ UNCHANGED used
       ELSE Goto(c, "done") /\ used' = [used EXCEPT ![c] = Cached(InEffect(c))]
    /\ UNCHANGED <<file, edits, state, request, local, current, tagged, note>>

Reload(c) ==
    /\ stage[c] = "reload"
    /\ IF Valid(file) THEN tenants' = Loaded(file) /\ Goto(c, "client")
                      ELSE Goto(c, "error") /\ UNCHANGED tenants
    /\ UNCHANGED <<file, edits, defaultClient, clients, maker, request, local, current, tagged, note,
                   used>>

\* The client is made from the section and stored, over one that another thread made
\* meanwhile too; FindClient then reads it back.
CreateClient(c) ==
    LET name == InEffect(c)
        section == Get(tenants, name)
    IN  /\ stage[c] = "create"
        /\ HasName(tenants, name)
        /\ IF HasSlot(name)
           THEN defaultClient' = section /\ UNCHANGED clients
           ELSE /\ clients' = [n \in DOMAIN clients \cup {name} |->
                                  IF n = name THEN section ELSE clients[n]]
                /\ UNCHANGED defaultClient
        /\ maker' = [n \in DOMAIN maker \cup {name} |-> IF n = name THEN c ELSE maker[n]]
        /\ Goto(c, "client")
        /\ UNCHANGED <<file, edits, tenants, request, local, current, tagged, note, used>>

Answered(c) == stage[c] \in {"done", "refused", "error", "raised"}

\* The client makes another call in the place of an answered one; daily_brief calls the
\* plain tools once per tenant, with that tenant in effect.
NextCall(c, r) ==
    /\ Answered(c)
    /\ r.brief # None => HasName(tenants, r.brief)
    /\ request' = [request EXCEPT ![c] = r]
    /\ stage' = [stage EXCEPT ![c] = "enter"]
    /\ local' = [local EXCEPT ![c] = NotLoaded]
    /\ current' = [current EXCEPT ![c] = r.brief]
    /\ tagged' = [tagged EXCEPT ![c] = FALSE]
    /\ note' = [note EXCEPT ![c] = FALSE]
    /\ used' = [used EXCEPT ![c] = NoSection]
    /\ UNCHANGED <<file, edits, state>>

Next ==
    \/ \E f \in Files : Edit(f)
    \/ \E c \in Calls :
          \/ Enter(c) \/ Load(c) \/ RouteByRef(c) \/ RouteByUser(c)
          \/ FindClient(c) \/ Reload(c) \/ CreateClient(c)
          \/ \E r \in Requests : NextCall(c, r)

Spec == Init /\ [][Next]_vars

-----------------------------------------------------------------------------
Done(c) == stage[c] = "done"

\* The shape of the state; what was loaded has exactly one default.
TypeOK ==
    /\ file \in Files /\ edits \in 0..MaxEdits
    /\ tenants # NotLoaded => Valid(tenants) /\ \E s \in Sections(tenants) : s.default
    /\ request \in [Calls -> Requests]
    /\ \A c \in Calls :
          /\ stage[c] \in {"enter", "load", "route", "client", "reload", "create",
                           "done", "refused", "error", "raised"}
          /\ Done(c) => used[c] # NoSection

\* Once routed, a call works in the tenant its arguments mean.  A user whose domain a tenant
\* claims is looked up there and nowhere else, unless the call names another tenant and its
\* tool lets it (server.py:322-341); a tenant argument leads to a tenant of that name, id or
\* domain, and an unknown one is refused and never means the default (config.py:224-229).
ReachesItsTenant ==
    \A c \in Calls : (Done(c) /\ tagged[c]) =>
        /\ (HasUser(request[c]) /\ (request[c].ref = None \/ ConflictRefused(request[c]))) =>
              \A s \in Sections(tenants) : request[c].user \in s.domains =>
                  used[c].name = s.name /\ used[c].id = s.id
        /\ request[c].ref # None =>
              request[c].ref \in {used[c].name, used[c].id} \cup used[c].domains

\* The `tenant` of an answer is the tenant whose credential was used, also while calls for
\* other tenants run and make their clients.
TagIsTrue ==
    \A c \in Calls : (Done(c) /\ tagged[c]) =>
        used[c].name = current[c] /\ used[c].id = Get(tenants, current[c]).id

\* An account no tenant claims is never searched without saying so, and nothing else is
\* said to be unclaimed (server.py:335-336).
UnclaimedIsSaid ==
    \A c \in Calls : (Done(c) /\ tagged[c] /\ HasUser(request[c])) =>
        (note[c] <=> \A s \in Sections(tenants) : request[c].user \notin s.domains)

\* A call has found no client for the tenant and has yet to store the one it makes.
Making(n) == \E c \in Calls : stage[c] = "create" /\ InEffect(c) = n

\* A tenant's client is "created on first use and kept" (server.py:252), but for the threads
\* that find none at the same moment and store theirs one after the other (server.py:256-262):
\* once none of them is left it is kept for good, and one stored over it until then carries
\* the same credential.
ClientsAreKept ==
    [][/\ defaultClient # NoSection => defaultClient' = defaultClient
       /\ \A n \in DOMAIN clients : n \in DOMAIN clients' /\ clients'[n] = clients[n]
       /\ \A n \in DOMAIN maker : ~Making(n) =>
             n \in DOMAIN maker' /\ maker'[n] = maker[n] /\ ~Making(n)']_vars
=============================================================================
