------------------------------ MODULE VmBackup ------------------------------
(***************************************************************************)
(* vm_backup_status (src/entraadm_mcp/server.py): the join of the VMs of   *)
(* the visible subscriptions with the protected items of their Recovery    *)
(* Services vaults.  ARM is read subscription by subscription and vault by *)
(* vault while VMs and backup items come and go; any read may fail, be     *)
(* cut by the page budget or be skipped at the deadline.                   *)
(*                                                                         *)
(* One listing (get_paged) is one step; Paging models what goes on in it.  *)
(***************************************************************************)
EXTENDS Naturals, FiniteSets

CONSTANTS
    Subs,       \* subscriptions this credential can see
    Vaults,
    Vms,        \* VM ids, of existing and of deleted machines
    HomeOf,     \* the subscription of each vault and VM
    ItemStates, \* for each VM, the states its items may have besides "none"
    MaxChanges  \* changes made at ARM during one call

ASSUME BackupAssumption ==
    /\ IsFiniteSet(Subs) /\ IsFiniteSet(Vaults) /\ IsFiniteSet(Vms)
    /\ HomeOf \in [Vaults \cup Vms -> Subs]
    /\ ItemStates \in [Vms -> SUBSET {"on", "off", "unclear"}]
    /\ MaxChanges \in Nat

VARIABLES
    vms,        \* the VMs that exist
    items,      \* vault, VM -> "none", "on" (backing up), "off" (stopped, paused, in
                \* error) or "unclear" (no protectionState)
    changes,    \* changes made so far
    late,       \* the wall-clock budget of the call has run out
    named,      \* the `subscription` argument was given
    pc,         \* "list", "vms", "vaults", "items", "done", "refused", or "answered" when
                \* it is vm_activity that ended
    targets,    \* subscriptions still to visit
    subsCapped, \* listing_capped
    cur,        \* the subscription being visited
    entry,      \* subscription -> how its visit ended
    listed,     \* VMs listed
    vmsCapped,  \* subscriptions whose VM listing was capped
    complete,   \* subscriptions whose vault scan was complete
    vaultsLeft, \* vaults of `cur` still to read
    matches,    \* VM -> the state of the item matched to it, or "none"
    alwaysOn,   \* history: <<vault, vm>> backing up ever since the call began
    everAbsent, \* history: VMs that did not exist at some moment of the call
    readFully   \* history: vaults read to the end

arm == <<vms, items, changes>>
history == <<alwaysOn, everAbsent, readFully>>
scan == <<targets, subsCapped, cur, entry, listed, vmsCapped, complete, vaultsLeft, matches>>
vars == <<arm, late, named, pc, scan, history>>

None == "none"
VmsOf(s) == {m \in Vms : HomeOf[m] = s}
VaultsOf(s) == {v \in Vaults : HomeOf[v] = s}
Holding(v) == {m \in Vms : items[<<v, m>>] # None}

\* The vaults the answer may speak of: `coverage`.
Scope == IF named THEN {v \in Vaults : HomeOf[v] = cur} ELSE Vaults

Init ==
    /\ vms \in SUBSET Vms
    /\ items \in {f \in [Vaults \X Vms -> {"on", "off", "unclear", None}] :
                    \A v \in Vaults, m \in Vms : f[<<v, m>>] \in ItemStates[m] \cup {None}}
    /\ changes = 0
    /\ late = FALSE
    /\ named \in BOOLEAN
    /\ pc = "list"
    /\ targets = {}
    /\ subsCapped = FALSE
    /\ cur \in Subs
    /\ entry = [s \in Subs |-> None]
    /\ listed = {}
    /\ vmsCapped = {}
    /\ complete = {}
    /\ vaultsLeft = {}
    /\ matches = [m \in Vms |-> None]
    /\ alwaysOn = {p \in Vaults \X Vms : items[p] = "on"}
    /\ everAbsent = Vms \ vms
    /\ readFully = {}

-----------------------------------------------------------------------------
(***************************************************************************)
(* ARM changes under the scan.                                             *)
(***************************************************************************)
Running == pc \notin {"done", "refused", "answered"}

Change ==
    /\ Running
    /\ changes < MaxChanges
    /\ changes' = changes + 1
    /\ UNCHANGED <<late, named, pc, scan, readFully>>

CreateVm(m) ==
    /\ Change
    /\ m \notin vms
    /\ vms' = vms \cup {m}
    /\ UNCHANGED <<items, alwaysOn, everAbsent>>

DeleteVm(m) ==
    /\ Change
    /\ m \in vms
    /\ vms' = vms \ {m}
    /\ everAbsent' = everAbsent \cup {m}
    /\ UNCHANGED <<items, alwaysOn>>

SetItem(v, m, state) ==
    /\ Change
    /\ state \in ItemStates[m] \cup {None}
    /\ items[<<v, m>>] # state
    /\ items' = [items EXCEPT ![<<v, m>>] = state]
    /\ alwaysOn' = alwaysOn \ {<<v, m>>}
    /\ UNCHANGED <<vms, everAbsent>>

-----------------------------------------------------------------------------
Expire ==
    /\ Running
    /\ ~late
    /\ late' = TRUE
    /\ UNCHANGED <<arm, named, pc, scan, history>>

-----------------------------------------------------------------------------
(***************************************************************************)
(* The scan.  A capped listing returns some of its rows, and one that      *)
(* starts late returns none and is capped (get_paged).                     *)
(***************************************************************************)
Listing(all, seen, capped) ==
    /\ seen \subseteq all
    /\ ~capped => seen = all
    /\ late => capped /\ seen = {}

\* _resolve_subscriptions: every listed subscription, or the named one, found by its id.
ListSubscriptions(seen, capped) ==
    /\ pc = "list"
    /\ Listing(Subs, seen, capped)
    /\ named => cur \in seen
    /\ targets' = IF named THEN {cur} ELSE seen
    /\ subsCapped' = capped
    /\ pc' = "vms"
    /\ UNCHANGED <<arm, late, named, cur, entry, listed, vmsCapped, complete, vaultsLeft, matches,
                   history>>

\* The listing failed, or does not hold the named subscription: `found: false` or `error`.
Refuse ==
    /\ pc = "list"
    /\ pc' = "refused"
    /\ UNCHANGED <<arm, late, named, scan, history>>

\* The subscription leaves the loop with the entry `how`.
Leave(s, how) ==
    /\ entry' = [entry EXCEPT ![s] = how]
    /\ targets' = targets \ {s}
    /\ pc' = "vms"

\* The deadline has passed before the subscription's turn.
SkipSubscription(s) ==
    /\ pc = "vms"
    /\ late
    /\ s \in targets
    /\ Leave(s, "skipped")
    /\ UNCHANGED <<arm, late, named, subsCapped, cur, listed, vmsCapped, complete, vaultsLeft,
                   matches, history>>

ListVms(s, seen, capped) ==
    /\ pc = "vms"
    /\ ~late
    /\ s \in targets
    /\ Listing(VmsOf(s) \cap vms, seen, capped)
    /\ cur' = s
    /\ listed' = listed \cup seen
    /\ vmsCapped' = IF capped THEN vmsCapped \cup {s} ELSE vmsCapped
    /\ pc' = "vaults"
    /\ UNCHANGED <<arm, late, named, targets, subsCapped, entry, complete, vaultsLeft, matches, history>>

\* The VMs listed, without those of a subscription that failed after listing them.
Dropped(s) == listed \ VmsOf(s)

\* An ApiError of the VM listing or of the vault listing drops the whole subscription.
FailSubscription(s) ==
    /\ \/ pc = "vms" /\ ~late /\ s \in targets
       \/ pc = "vaults" /\ s = cur
    /\ Leave(s, "error")
    /\ listed' = Dropped(s)
    /\ UNCHANGED <<arm, late, named, subsCapped, cur, vmsCapped, complete, vaultsLeft, matches, history>>

\* _scan_vaults: the listing; `complete` starts as "not capped".
ListVaults(seen, capped) ==
    /\ pc = "vaults"
    /\ Listing(VaultsOf(cur), seen, capped)
    /\ vaultsLeft' = seen
    /\ complete' = IF capped THEN complete ELSE complete \cup {cur}
    /\ pc' = "items"
    /\ UNCHANGED <<arm, late, named, targets, subsCapped, cur, entry, listed, vmsCapped, matches, history>>

\* Mutant of Merge: the item read last is kept.
MergeLast(old, new) == new

\* The item still backing up wins over one found before or after it.
Merge(old, new) == IF old = "on" THEN old ELSE new

\* The protected items of one vault, joined on the VM's id.
ReadVault(v, seen, capped) ==
    /\ pc = "items"
    /\ ~late
    /\ v \in vaultsLeft
    /\ Listing(Holding(v), seen, capped)
    /\ vaultsLeft' = vaultsLeft \ {v}
    /\ matches' = [m \in Vms |-> IF m \in seen THEN Merge(matches[m], items[<<v, m>>]) ELSE matches[m]]
    /\ complete' = IF capped THEN complete \ {cur} ELSE complete
    /\ readFully' = IF capped THEN readFully ELSE readFully \cup {v}
    /\ UNCHANGED <<arm, late, named, pc, targets, subsCapped, cur, entry, listed, vmsCapped, alwaysOn,
                   everAbsent>>

\* The complete scans once a vault of `cur` was skipped.
AfterSkip == complete \ {cur}

\* The deadline has passed, the vault cannot be read, or its id is not a vault id.
SkipVault(v) ==
    /\ pc = "items"
    /\ v \in vaultsLeft
    /\ vaultsLeft' = vaultsLeft \ {v}
    /\ complete' = AfterSkip
    /\ UNCHANGED <<arm, late, named, pc, targets, subsCapped, cur, entry, listed, vmsCapped, matches,
                   history>>

EndSubscription ==
    /\ pc = "items"
    /\ vaultsLeft = {}
    /\ Leave(cur, "read")
    /\ UNCHANGED <<arm, late, named, subsCapped, cur, listed, vmsCapped, complete, vaultsLeft, matches,
                   history>>

EndOfScan ==
    /\ pc = "vms"
    /\ targets = {}
    /\ pc' = "done"
    /\ UNCHANGED <<arm, late, named, scan, history>>

Done == ~Running /\ UNCHANGED vars

ChangeItem ==
    \E v \in Vaults, m \in Vms, state \in {"on", "off", "unclear", None} : SetItem(v, m, state)

\* What both ARM tools begin with, and what may happen to either.
Begin ==
    \/ Expire
    \/ \E m \in Vms : CreateVm(m) \/ DeleteVm(m)
    \/ \E seen \in SUBSET Subs, capped \in BOOLEAN : ListSubscriptions(seen, capped)
    \/ Refuse

Next ==
    \/ Begin
    \/ ChangeItem
    \/ \E s \in Subs :
          \/ SkipSubscription(s)
          \/ FailSubscription(s)
          \/ \E seen \in SUBSET Vms, capped \in BOOLEAN : ListVms(s, seen, capped)
    \/ \E seen \in SUBSET Vaults, capped \in BOOLEAN : ListVaults(seen, capped)
    \/ \E v \in Vaults :
          \/ SkipVault(v)
          \/ \E seen \in SUBSET Vms, capped \in BOOLEAN : ReadVault(v, seen, capped)
    \/ EndSubscription
    \/ EndOfScan
    \/ Done

Spec == Init /\ [][Next]_vars

-----------------------------------------------------------------------------
(***************************************************************************)
(* The answer.                                                             *)
(***************************************************************************)
ReadSubs == {s \in Subs : entry[s] = "read"}

\* A subscription that failed or was never reached is missing from the inventory.
Incomplete == subsCapped \/ \E s \in Subs : entry[s] \in {"skipped", "error"}

\* Mutant of ItemsComplete: the join looks only at the VM's own subscription.
ItemsCompleteHere(s) == s \in complete

\* Whether "no item found" proves that there is none.
ItemsComplete(s) ==
    IF named THEN s \in complete ELSE ~Incomplete /\ ReadSubs \subseteq complete

Rows == listed

\* The `protected` of a VM's row.
Protected(m) ==
    CASE matches[m] = "on"      -> "true"
      [] matches[m] = "off"     -> "false"
      [] matches[m] = "unclear" -> "null"
      [] OTHER                  -> IF ItemsComplete(HomeOf[m]) THEN "false" ELSE "null"

\* Mutant of Orphans: a capped VM listing is taken for a complete one.
OrphansOfAnyListing == {m \in Vms : matches[m] # None /\ m \notin listed /\ HomeOf[m] \in ReadSubs}

\* Items whose VM is not in a complete listing of its subscription.
Orphans ==
    {m \in Vms : matches[m] # None /\ m \notin listed /\ HomeOf[m] \in ReadSubs \ vmsCapped}

\* Mutant of Capped: a subscription that failed does not count.
CappedByPages == subsCapped \/ \E s \in ReadSubs : s \in vmsCapped \/ s \notin complete

Capped == Incomplete \/ \E s \in ReadSubs : s \in vmsCapped \/ s \notin complete

-----------------------------------------------------------------------------
\* The shape of the state; matches come only from vaults, rows from visited subscriptions.
TypeOK ==
    /\ vms \subseteq Vms
    /\ items \in [Vaults \X Vms -> {"on", "off", "unclear", None}]
    /\ changes \in 0..MaxChanges
    /\ late \in BOOLEAN /\ named \in BOOLEAN
    /\ pc \in {"list", "vms", "vaults", "items", "done", "refused", "answered"}
    /\ targets \subseteq Subs /\ cur \in Subs
    /\ entry \in [Subs -> {None, "read", "skipped", "error"}]
    /\ \A m \in listed : entry[HomeOf[m]] = "read" \/ HomeOf[m] = cur
    /\ vaultsLeft \subseteq VaultsOf(cur)
    /\ matches \in [Vms -> {"on", "off", "unclear", None}]

\* A VM reported unprotected because no item was found (vm_backup_status' docstring: a
\* partial scan never produces a false "unprotected") has no item in the scanned scope
\* that was backing it up all along, also when ARM changed during the scan.
AbsenceIsProved ==
    pc = "done" =>
        \A m \in Rows : (matches[m] = None /\ Protected(m) = "false") =>
            \A v \in Scope : <<v, m>> \notin alwaysOn

\* When two vaults hold an item for one VM, the one still backing up wins, whatever the
\* order the vaults are listed and read in (server.py:2563-2566).
LiveItemWins ==
    pc = "done" =>
        \A m \in Rows, v \in readFully : <<v, m>> \in alwaysOn => Protected(m) = "true"

\* An orphan's VM was missing at some moment of the call: a capped, failed or skipped VM
\* listing never makes an orphan of a machine that was there all the time.
OrphansWereAbsent == pc = "done" => Orphans \subseteq everAbsent

\* capped=false: every VM that existed throughout, in the subscriptions asked for, has a
\* row, and every item that was backing up throughout is joined to its VM or an orphan.
UncappedIsComplete ==
    (pc = "done" /\ ~Capped) =>
        /\ \A m \in Vms \ everAbsent : HomeOf[m] \in (IF named THEN {cur} ELSE Subs) => m \in Rows
        /\ \A p \in alwaysOn : p[1] \in Scope => matches[p[2]] = "on"

\* The docstring's sentence for every row (server.py:2498-2499): a partial scan never
\* produces a false "unprotected".
PartialScanNeverSaysUnprotected ==
    pc = "done" =>
        \A m \in Rows : Protected(m) = "false" => \A v \in Scope : <<v, m>> \notin alwaysOn
=============================================================================
