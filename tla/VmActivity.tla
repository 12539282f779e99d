----------------------------- MODULE VmActivity -----------------------------
(***************************************************************************)
(* vm_activity (src/entraadm_mcp/server.py) beside vm_backup_status: the   *)
(* search for the one VM of a name, over the same subscriptions and while  *)
(* ARM changes in the same way, then the two reads of the activity log.    *)
(* Sorting, truncation and the fields of a row are left out.               *)
(***************************************************************************)
EXTENDS VmBackup

CONSTANTS
    Wanted,     \* the VMs that have the name asked for
    Groups,     \* resource groups
    GroupOf,    \* the resource group of each VM
    Events,     \* what the activity log may come to hold of the window
    EventAt     \* event -> its subscription, resource group, category, and VM or None

Categories == {"ResourceHealth", "Administrative", "ServiceHealth", "other"}

\* An event on a VM or on one of its sub-resources is logged where the VM is.
ASSUME ActivityAssumption ==
    /\ Wanted \subseteq Vms
    /\ None \notin Vms
    /\ GroupOf \in [Vms -> Groups]
    /\ EventAt \in [Events -> [sub : Subs, group : Groups, category : Categories,
                               on : Vms \cup {None}]]
    /\ \A e \in Events : EventAt[e].on # None =>
          EventAt[e].sub = HomeOf[EventAt[e].on] /\ EventAt[e].group = GroupOf[EventAt[e].on]

VARIABLES
    tool,       \* the tool called
    asked,      \* the VMs of the name, in the resource group if one was given
    half,       \* the search's half of the budget has run out
    found,      \* _find_vm's VMs
    whole,      \* _find_vm's `complete`
    stage,      \* "search", "group", "subscription", or "unresolved", "error", "found"
    logged,     \* the activity log
    atFirst,    \* history: what it held at the first read
    vmEvents,   \* health, vm_operations
    others,     \* other_operations, service_health, other_categories
    groupCut,   \* capped_reads.resource_group
    subCut      \* capped_reads.subscription

search == <<half, found, whole>>
readings == <<atFirst, vmEvents, others, groupCut, subCut>>
activityVars == <<tool, asked, search, stage, logged, readings>>
armVars == <<vars, activityVars>>

\* The log is first read after the search: what came before that is logged at stage "group".
ToolsInit ==
    /\ Init
    /\ tool \in {"vm_backup_status", "vm_activity"}
    /\ tool = "vm_activity" => items = [p \in Vaults \X Vms |-> None]
    /\ asked \in IF tool = "vm_activity"
                 THEN {Wanted} \cup {{m \in Wanted : GroupOf[m] = g} : g \in Groups}
                 ELSE {{}}
    /\ half = FALSE
    /\ found = {}
    /\ whole = TRUE
    /\ stage = "search"
    /\ logged = {} /\ atFirst = {}
    /\ vmEvents = {} /\ others = {}
    /\ groupCut = FALSE /\ subCut = FALSE

-----------------------------------------------------------------------------
(***************************************************************************)
(* _find_vm.                                                               *)
(***************************************************************************)
Searching == pc = "vms" /\ stage = "search"
SearchOver == half \/ late

HalfTime ==
    /\ Running /\ stage = "search"
    /\ ~half
    /\ half' = TRUE
    /\ UNCHANGED <<vars, tool, asked, found, whole, stage, logged, readings>>

FindIn(s, seen, capped) ==
    /\ Searching
    /\ ~SearchOver
    /\ s \in targets
    /\ Listing(VmsOf(s) \cap vms, seen, capped)
    /\ found' = found \cup (seen \cap asked)
    /\ whole' = (whole /\ ~capped)
    /\ targets' = targets \ {s}
    /\ UNCHANGED <<arm, late, named, pc, subsCapped, cur, entry, listed, vmsCapped, complete, vaultsLeft,
                   matches, history, tool, asked, half, stage, logged, readings>>

\* Mutant of WholeWithout: a subscription that failed is taken for one without the VM.
WholeWithoutIt == whole

\* Whether the search is still complete after a subscription that could not be listed.
WholeWithout == FALSE

FindFails(s) ==
    /\ Searching
    /\ ~SearchOver
    /\ s \in targets
    /\ whole' = WholeWithout
    /\ targets' = targets \ {s}
    /\ UNCHANGED <<arm, late, named, pc, subsCapped, cur, entry, listed, vmsCapped, complete, vaultsLeft,
                   matches, history, tool, asked, half, found, stage, logged, readings>>

SearchExpires ==
    /\ Searching
    /\ SearchOver
    /\ targets # {}
    /\ whole' = FALSE
    /\ targets' = {}
    /\ UNCHANGED <<arm, late, named, pc, subsCapped, cur, entry, listed, vmsCapped, complete, vaultsLeft,
                   matches, history, tool, asked, half, found, stage, logged, readings>>

SearchComplete == whole /\ ~subsCapped

\* One match in a complete search makes the name unique.
Resolved == Cardinality(found) = 1 /\ SearchComplete

\* No match, several, or one that a partial listing leaves unconfirmed: `unresolved`.
EndSearch ==
    /\ Searching
    /\ targets = {}
    /\ stage' = IF Resolved THEN "group" ELSE "unresolved"
    /\ pc' = IF Resolved THEN pc ELSE "answered"
    /\ UNCHANGED <<arm, late, named, scan, history, tool, asked, search, logged, readings>>

-----------------------------------------------------------------------------
(***************************************************************************)
(* The two reads of the activity log.                                      *)
(***************************************************************************)
target == CHOOSE m \in found : TRUE

LogEvent(e) ==
    /\ stage \in {"group", "subscription"}
    /\ e \notin logged
    /\ logged' = logged \cup {e}
    /\ UNCHANGED <<vars, tool, asked, search, stage, readings>>

InSubscription == {e \in logged : EventAt[e].sub = HomeOf[target]}
InGroup == {e \in InSubscription : EventAt[e].group = GroupOf[target]}

\* What the first read keeps: events on the VM of two categories.
OnVm(events) ==
    {e \in events : EventAt[e].on = target /\ EventAt[e].category \in {"ResourceHealth", "Administrative"}}

\* Mutant of OffVm: the second read passes over the whole resource group.
OffGroup(events) == {e \in events : EventAt[e].group # GroupOf[target]}

\* What the second read keeps: events on anything else.
OffVm(events) == {e \in events : EventAt[e].on # target}

ReadGroup(seen, capped) ==
    /\ stage = "group"
    /\ Listing(InGroup, seen, capped)
    /\ atFirst' = InSubscription
    /\ vmEvents' = OnVm(seen)
    /\ groupCut' = capped
    /\ stage' = "subscription"
    /\ UNCHANGED <<vars, tool, asked, search, logged, others, subCut>>

\* The answer is an error, with the VM and the window.
GroupFails ==
    /\ stage = "group"
    /\ stage' = "error"
    /\ pc' = "answered"
    /\ UNCHANGED <<arm, late, named, scan, history, tool, asked, search, logged, readings>>

ReadSubscription(seen, capped) ==
    /\ stage = "subscription"
    /\ Listing(InSubscription, seen, capped)
    /\ others' = OffVm(seen)
    /\ subCut' = capped
    /\ stage' = "found"
    /\ pc' = "answered"
    /\ UNCHANGED <<arm, late, named, scan, history, tool, asked, search, logged, atFirst, vmEvents, groupCut>>

\* The error of the second read marks its sections as cut and keeps the first read's.
SubscriptionFails ==
    /\ stage = "subscription"
    /\ subCut' = TRUE
    /\ stage' = "found"
    /\ pc' = "answered"
    /\ UNCHANGED <<arm, late, named, scan, history, tool, asked, search, logged, atFirst, vmEvents, others,
                   groupCut>>

-----------------------------------------------------------------------------
BackupCall == tool = "vm_backup_status" /\ Next /\ UNCHANGED activityVars

ActivityCall ==
    /\ tool = "vm_activity"
    /\ \/ (Begin \/ Done) /\ UNCHANGED activityVars
       \/ HalfTime
       \/ \E s \in Subs :
             \/ FindFails(s)
             \/ \E seen \in SUBSET Vms, capped \in BOOLEAN : FindIn(s, seen, capped)
       \/ SearchExpires
       \/ EndSearch
       \/ \E e \in Events : LogEvent(e)
       \/ \E seen \in SUBSET Events, capped \in BOOLEAN :
             ReadGroup(seen, capped) \/ ReadSubscription(seen, capped)
       \/ GroupFails
       \/ SubscriptionFails

ToolsNext == BackupCall \/ ActivityCall

ToolsSpec == ToolsInit /\ [][ToolsNext]_armVars

-----------------------------------------------------------------------------
AskedIn == {m \in asked : named => HomeOf[m] = cur}

\* A VM is taken for the one of its name only when every other VM of that name, in the
\* subscriptions and the group asked for, was missing at some moment of the call; and "not
\* found" with search_complete says that of all of them (the docstring of vm_activity,
\* server.py:3045-3049), whatever listing failed, was capped or ran out of time.
SearchIsProved ==
    /\ stage \in {"group", "subscription", "found", "error"} => AskedIn \ {target} \subseteq everAbsent
    /\ (stage = "unresolved" /\ SearchComplete /\ found = {}) => AskedIn \subseteq everAbsent

\* With capped=false, whatever the log held at the first read on the VM's subscription is in
\* exactly one section, unless it is on the VM and of a category its sections do not have.
EventsAreShown ==
    (stage = "found" /\ ~groupCut /\ ~subCut) =>
        \A e \in atFirst :
            \/ (e \in vmEvents) # (e \in others)
            \/ EventAt[e].on = target /\ EventAt[e].category \in {"ServiceHealth", "other"}
=============================================================================
