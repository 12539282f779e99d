--------------------------- MODULE VmBackupProofs ---------------------------
(***************************************************************************)
(* What the two ARM tools prove by reading: the safety properties of       *)
(* VmBackup and VmActivity for every set of subscriptions, vaults, VMs and *)
(* events, every bound on the changes, and every failure of a listing.     *)
(***************************************************************************)
EXTENDS VmActivity, FiniteSetTheorems, TLAPS

-----------------------------------------------------------------------------
(***************************************************************************)
(* vm_backup_status.                                                       *)
(***************************************************************************)
\* The subscription being visited.
Visiting(s) == s = cur /\ pc \in {"vaults", "items"}

\* What the histories say of ARM.
ArmInv ==
    /\ Vms \ vms \subseteq everAbsent
    /\ alwaysOn \subseteq Vaults \X Vms
    /\ \A p \in alwaysOn : items[p] = "on"

\* Where the scan stands.  A subscription leaves `targets` with its entry; one that was
\* asked for and has neither was not listed.
ScanInv ==
    /\ pc \in {"vaults", "items"} => cur \in targets
    /\ pc = "done" => targets = {}
    /\ named => targets \subseteq {cur}
    /\ \A s \in targets : entry[s] = None
    /\ (pc \notin {"list", "refused"} /\ ~subsCapped) =>
          \A s \in Subs : (named => s = cur) => s \in targets \/ entry[s] # None
    /\ named => \A s \in Subs : entry[s] # None => s = cur
    /\ pc # "items" => vaultsLeft = {}
    /\ pc = "list" => targets = {} /\ \A s \in Subs : entry[s] = None

\* A VM's row comes from a subscription that was read; a full listing misses only VMs that
\* were missing at some moment.
VmInv ==
    /\ listed \subseteq Vms
    /\ \A m \in listed : entry[HomeOf[m]] = "read" \/ Visiting(HomeOf[m])
    /\ \A s \in Subs : (entry[s] = "read" \/ Visiting(s)) /\ s \notin vmsCapped =>
          \A m \in VmsOf(s) : m \in listed \cup everAbsent

\* In a complete scan every vault was read to the end, or is still to be read.
VaultInv ==
    /\ \A s \in complete : entry[s] = "read" \/ (s = cur /\ pc = "items")
    /\ \A s \in complete : \A v \in VaultsOf(s) :
          v \in readFully \/ (s = cur /\ pc = "items" /\ v \in vaultsLeft)

\* The item that was backing up throughout is joined once its vault was read.
MatchInv ==
    \A v \in readFully, m \in Vms : <<v, m>> \in alwaysOn => matches[m] = "on"

BackupInv == TypeOK /\ ArmInv /\ ScanInv /\ VmInv /\ VaultInv /\ MatchInv

LEMMA BackupInit == Init => BackupInv
<1> SUFFICES ASSUME Init PROVE BackupInv
  OBVIOUS
<1>0. HomeOf \in [Vaults \cup Vms -> Subs] /\ MaxChanges \in Nat
      /\ ItemStates \in [Vms -> SUBSET {"on", "off", "unclear"}]
  BY BackupAssumption DEF BackupAssumption
<1>1. TypeOK
  <2>1. items \in [Vaults \X Vms -> {"on", "off", "unclear", None}]
    BY DEF Init
  <2>2. matches \in [Vms -> {"on", "off", "unclear", None}]
        /\ entry \in [Subs -> {None, "read", "skipped", "error"}]
    BY DEF Init
  <2>3. /\ vms \subseteq Vms /\ changes = 0 /\ pc = "list"
        /\ late \in BOOLEAN /\ named \in BOOLEAN /\ targets = {} /\ cur \in Subs
        /\ listed = {} /\ vaultsLeft = {}
    BY Zenon DEF Init
  <2>4. QED
    BY <1>0, <2>1, <2>2, <2>3 DEF TypeOK
<1>2. ArmInv
  BY DEF Init, ArmInv
<1>3. ScanInv
  BY DEF Init, ScanInv
<1>4. VmInv /\ VaultInv /\ MatchInv
  BY DEF Init, VmInv, Visiting, VaultInv, MatchInv, None
<1>5. QED
  BY <1>1, <1>2, <1>3, <1>4 DEF BackupInv

LEMMA BackupStep == BackupInv /\ [Next]_vars => BackupInv'
<1> SUFFICES ASSUME BackupInv, [Next]_vars PROVE BackupInv'
  OBVIOUS
<1> USE DEF BackupInv, arm, history, scan, vars
<1>0. /\ HomeOf \in [Vaults \cup Vms -> Subs] /\ MaxChanges \in Nat
      /\ ItemStates \in [Vms -> SUBSET {"on", "off", "unclear"}]
  BY BackupAssumption DEF BackupAssumption
<1>1. ASSUME NEW m \in Vms, CreateVm(m) PROVE BackupInv'
  BY <1>0, <1>1 DEF CreateVm, Change, Running, TypeOK, ArmInv, ScanInv, VmInv, Visiting, VaultInv, MatchInv
<1>2. ASSUME NEW m \in Vms, DeleteVm(m) PROVE BackupInv'
  BY <1>0, <1>2 DEF DeleteVm, Change, Running, TypeOK, ArmInv, ScanInv, VmInv, Visiting, VaultInv, MatchInv
<1>3. ASSUME NEW v \in Vaults, NEW m \in Vms, NEW state, SetItem(v, m, state) PROVE BackupInv'
  BY <1>0, <1>3 DEF SetItem, Change, Running, TypeOK, ArmInv, ScanInv, VmInv, Visiting, VaultInv, MatchInv, None
<1>4. CASE Expire
  BY <1>4 DEF Expire, TypeOK, ArmInv, ScanInv, VmInv, Visiting, VaultInv, MatchInv
<1>5. ASSUME NEW seen \in SUBSET Subs, NEW capped \in BOOLEAN, ListSubscriptions(seen, capped)
      PROVE  BackupInv'
  BY <1>5 DEF ListSubscriptions, Listing, TypeOK, ArmInv, ScanInv, VmInv, Visiting, VaultInv, MatchInv
<1>6. CASE Refuse
  BY <1>6 DEF Refuse, TypeOK, ArmInv, ScanInv, VmInv, Visiting, VaultInv, MatchInv
<1>7. ASSUME NEW s \in Subs, SkipSubscription(s) PROVE BackupInv'
  BY <1>7 DEF SkipSubscription, Leave, TypeOK, ArmInv, ScanInv, VmInv, Visiting, VaultInv, MatchInv, None
<1>8. ASSUME NEW s \in Subs, FailSubscription(s) PROVE BackupInv'
  BY <1>0, <1>8 DEF FailSubscription, Leave, Dropped, VmsOf, TypeOK, ArmInv, ScanInv, VmInv, Visiting,
     VaultInv, MatchInv, None
<1>9. ASSUME NEW s \in Subs, NEW seen \in SUBSET Vms, NEW capped \in BOOLEAN, ListVms(s, seen, capped)
      PROVE  BackupInv'
  BY <1>0, <1>9 DEF ListVms, Listing, VmsOf, TypeOK, ArmInv, ScanInv, VmInv, Visiting, VaultInv, MatchInv,
     VaultsOf, None
<1>10. ASSUME NEW seen \in SUBSET Vaults, NEW capped \in BOOLEAN, ListVaults(seen, capped)
       PROVE  BackupInv'
  BY <1>0, <1>10 DEF ListVaults, Listing, VaultsOf, TypeOK, ArmInv, ScanInv, VmInv, Visiting, VaultInv,
     MatchInv, None
<1>11. ASSUME NEW v \in Vaults, SkipVault(v) PROVE BackupInv'
  BY <1>11 DEF SkipVault, AfterSkip, TypeOK, ArmInv, ScanInv, VmInv, Visiting, VaultInv, MatchInv, None
<1>12. ASSUME NEW v \in Vaults, NEW seen \in SUBSET Vms, NEW capped \in BOOLEAN, ReadVault(v, seen, capped)
       PROVE  BackupInv'
  BY <1>0, <1>12 DEF ReadVault, Listing, Holding, Merge, VaultsOf, TypeOK, ArmInv, ScanInv, VmInv, Visiting,
     VaultInv, MatchInv, None
<1>13. CASE EndSubscription
  BY <1>13 DEF EndSubscription, Leave, TypeOK, ArmInv, ScanInv, VmInv, Visiting, VaultInv, MatchInv, None
<1>14. CASE EndOfScan
  BY <1>14 DEF EndOfScan, TypeOK, ArmInv, ScanInv, VmInv, Visiting, VaultInv, MatchInv
<1>15. CASE Done \/ UNCHANGED vars
  BY <1>15 DEF Done, TypeOK, ArmInv, ScanInv, VmInv, Visiting, VaultInv, MatchInv
<1>16. QED
  BY <1>1, <1>2, <1>3, <1>4, <1>5, <1>6, <1>7, <1>8, <1>9, <1>10, <1>11, <1>12, <1>13, <1>14, <1>15
     DEF Next, Begin, ChangeItem

\* When the scan is done and it is complete for the machine's join, every vault in scope
\* was read to the end.
LEMMA CompleteMeansRead ==
    ASSUME BackupInv, pc = "done", NEW m \in listed, ItemsComplete(HomeOf[m])
    PROVE  Scope \subseteq readFully
<1>0. HomeOf \in [Vaults \cup Vms -> Subs]
  BY BackupAssumption DEF BackupAssumption
<1>1. m \in Vms /\ entry[HomeOf[m]] = "read" /\ HomeOf[m] \in Subs
  BY <1>0 DEF BackupInv, VmInv, Visiting
<1>2. CASE named
  <2>1. HomeOf[m] = cur
    BY <1>1, <1>2 DEF BackupInv, ScanInv, None
  <2>2. QED
    BY <1>0, <1>2, <2>1 DEF ItemsComplete, Scope, VaultsOf, BackupInv, VaultInv
<1>3. CASE ~named
  <2>1. \A s \in Subs : entry[s] = "read"
    BY <1>3 DEF ItemsComplete, Incomplete, BackupInv, ScanInv, TypeOK
  <2>2. Subs \subseteq complete
    BY <1>3, <2>1 DEF ItemsComplete, ReadSubs
  <2>3. QED
    BY <1>0, <1>3, <2>2 DEF Scope, VaultsOf, BackupInv, VaultInv
<1>4. QED
  BY <1>2, <1>3

LEMMA AbsenceFollows == BackupInv => AbsenceIsProved
<1> SUFFICES ASSUME BackupInv, pc = "done", NEW m \in Rows, matches[m] = None, Protected(m) = "false",
                    NEW v \in Scope
             PROVE  <<v, m>> \notin alwaysOn
  BY DEF AbsenceIsProved
<1>1. ItemsComplete(HomeOf[m])
  BY DEF Protected, None
<1>2. v \in readFully /\ m \in Vms
  BY <1>1, CompleteMeansRead DEF Rows, BackupInv, VmInv
<1>3. QED
  BY <1>2 DEF BackupInv, MatchInv, None

LEMMA LiveItemFollows == BackupInv => LiveItemWins
  BY DEF BackupInv, MatchInv, VmInv, LiveItemWins, Rows, Protected

LEMMA OrphansFollow == BackupInv => OrphansWereAbsent
<1> SUFFICES ASSUME BackupInv, NEW m \in Orphans PROVE m \in everAbsent
  BY DEF OrphansWereAbsent
<1>1. m \in Vms /\ m \notin listed /\ entry[HomeOf[m]] = "read" /\ HomeOf[m] \in Subs \ vmsCapped
  BY DEF Orphans, ReadSubs
<1>2. QED
  BY <1>1 DEF BackupInv, VmInv, VmsOf

LEMMA UncappedFollows == BackupInv => UncappedIsComplete
<1> SUFFICES ASSUME BackupInv, pc = "done", ~Capped
             PROVE  /\ \A m \in Vms \ everAbsent :
                          HomeOf[m] \in (IF named THEN {cur} ELSE Subs) => m \in Rows
                    /\ \A p \in alwaysOn : p[1] \in Scope => matches[p[2]] = "on"
  BY DEF UncappedIsComplete
<1>0. HomeOf \in [Vaults \cup Vms -> Subs]
  BY BackupAssumption DEF BackupAssumption
<1>1. \A s \in Subs : (named => s = cur) => entry[s] = "read"
  BY DEF BackupInv, ScanInv, Capped, Incomplete, TypeOK
<1>2. \A s \in Subs : (named => s = cur) => s \notin vmsCapped /\ s \in complete
  BY <1>1 DEF Capped, ReadSubs
<1>3. ASSUME NEW m \in Vms \ everAbsent, HomeOf[m] \in (IF named THEN {cur} ELSE Subs)
      PROVE  m \in Rows
  <2>1. HomeOf[m] \in Subs /\ (named => HomeOf[m] = cur)
    BY <1>0, <1>3
  <2>2. QED
    BY <1>1, <1>2, <2>1 DEF BackupInv, VmInv, VmsOf, Rows
<1>4. ASSUME NEW p \in alwaysOn, p[1] \in Scope PROVE matches[p[2]] = "on"
  <2>1. p = <<p[1], p[2]>> /\ p[1] \in Vaults /\ p[2] \in Vms
    BY DEF BackupInv, ArmInv
  <2>2. HomeOf[p[1]] \in Subs /\ (named => HomeOf[p[1]] = cur)
    BY <1>0, <1>4, <2>1 DEF Scope
  <2>3. p[1] \in readFully
    BY <1>2, <2>1, <2>2 DEF BackupInv, VaultInv, VaultsOf
  <2>4. QED
    BY <2>1, <2>3 DEF BackupInv, MatchInv
<1>5. QED
  BY <1>3, <1>4

-----------------------------------------------------------------------------
(***************************************************************************)
(* vm_activity.                                                            *)
(***************************************************************************)
Reading == stage \in {"group", "subscription"}

\* Where the call stands.
StageInv ==
    /\ pc \in {"list", "vms", "refused", "answered"}
    /\ stage \in {"search", "group", "subscription", "unresolved", "error", "found"}
    /\ pc \in {"list", "refused"} => stage = "search"
    /\ Reading => pc = "vms"
    /\ stage # "search" => targets = {}
    /\ stage \in {"group", "subscription", "error", "found"} => Resolved
    /\ named => targets \subseteq {cur}

\* A complete search has found every VM of the name that was there all the time, in the
\* subscriptions it is done with.
SearchInv ==
    /\ asked \subseteq Vms
    /\ found \subseteq asked
    /\ (pc \in {"vms", "answered"} /\ SearchComplete) =>
          \A m \in AskedIn : HomeOf[m] \in targets \/ m \in found \cup everAbsent

\* The first section holds the VM's events of the first read, the second those beside it.
LogInv ==
    /\ logged \subseteq Events
    /\ stage \in {"subscription", "found"} => atFirst \subseteq InSubscription
    /\ (stage \in {"subscription", "found"} /\ ~groupCut) => vmEvents = OnVm(atFirst)
    /\ (stage = "found" /\ ~subCut) => OffVm(atFirst) \subseteq others /\ others \subseteq OffVm(Events)

ActivityInv == TypeOK /\ ArmInv /\ StageInv /\ SearchInv /\ LogInv

ToolsInv ==
    /\ tool \in {"vm_backup_status", "vm_activity"}
    /\ tool = "vm_backup_status" => BackupInv /\ stage = "search"
    /\ tool = "vm_activity" => ActivityInv

LEMMA ToolsStart == ToolsInit => ToolsInv
<1> SUFFICES ASSUME ToolsInit PROVE ToolsInv
  OBVIOUS
<1>1. Init /\ pc = "list" /\ targets = {}
  BY Zenon DEF ToolsInit, Init
<1>2. BackupInv
  BY <1>1, BackupInit
<1>3. asked \subseteq Vms
  BY ActivityAssumption DEF ToolsInit, ActivityAssumption
<1>4. stage = "search" /\ found = {} /\ logged = {}
      /\ tool \in {"vm_backup_status", "vm_activity"}
  BY Zenon DEF ToolsInit
<1>5. QED
  BY <1>1, <1>2, <1>3, <1>4 DEF ToolsInv, ActivityInv, BackupInv, StageInv, SearchInv, LogInv, Reading

\* ARM changes, the deadline and the listing of the subscriptions.
LEMMA BeginStep ==
    ASSUME ActivityInv, (Begin \/ Done) /\ UNCHANGED activityVars
    PROVE  ActivityInv'
<1> USE DEF ActivityInv, arm, history, scan, activityVars, search, readings
<1>0. HomeOf \in [Vaults \cup Vms -> Subs] /\ MaxChanges \in Nat
  BY BackupAssumption DEF BackupAssumption
<1>1. UNCHANGED <<stage, asked, found, whole, logged, atFirst, vmEvents, others, groupCut, subCut>>
  OBVIOUS
<1>2. LogInv'
  BY <1>1 DEF LogInv, InSubscription, OnVm, OffVm, target
<1>3. ASSUME NEW m \in Vms, CreateVm(m) \/ DeleteVm(m) PROVE ActivityInv'
  <2>1. everAbsent \subseteq everAbsent' /\ UNCHANGED <<late, named, pc, scan, alwaysOn, items>>
    BY <1>3 DEF CreateVm, DeleteVm, Change
  <2>2. TypeOK' /\ ArmInv'
    BY <1>0, <1>3 DEF CreateVm, DeleteVm, Change, TypeOK, ArmInv
  <2>3. StageInv' /\ SearchInv'
    BY <1>1, <2>1 DEF StageInv, Reading, Resolved, SearchInv, SearchComplete, AskedIn
  <2>4. QED
    BY <1>2, <2>2, <2>3
<1>4. CASE Expire
  BY <1>1, <1>2, <1>4 DEF Expire, TypeOK, ArmInv, StageInv, Reading, Resolved, SearchInv, SearchComplete,
     AskedIn
<1>5. ASSUME NEW seen \in SUBSET Subs, NEW capped \in BOOLEAN, ListSubscriptions(seen, capped)
      PROVE  ActivityInv'
  <2>1. pc = "list" /\ pc' = "vms" /\ subsCapped' = capped /\ stage = "search"
        /\ UNCHANGED <<arm, late, named, cur, history>>
        /\ targets' = (IF named THEN {cur} ELSE seen) /\ (~capped => seen = Subs)
    BY <1>5 DEF ListSubscriptions, Listing, StageInv
  <2>2. TypeOK' /\ ArmInv'
    BY <1>5, <2>1 DEF ListSubscriptions, TypeOK, ArmInv
  <2>3. StageInv'
    BY <1>1, <2>1 DEF StageInv, Reading
  <2>4. SearchInv'
    BY <1>0, <1>1, <2>1 DEF SearchInv, SearchComplete, AskedIn
  <2>5. QED
    BY <1>2, <2>2, <2>3, <2>4
<1>6. CASE Refuse
  BY <1>1, <1>2, <1>6 DEF Refuse, TypeOK, ArmInv, StageInv, Reading, SearchInv
<1>7. CASE Done
  BY <1>1, <1>2, <1>7 DEF Done, vars, TypeOK, ArmInv, StageInv, Reading, Resolved, SearchInv,
     SearchComplete, AskedIn
<1>8. QED
  BY <1>3, <1>4, <1>5, <1>6, <1>7 DEF Begin

\* The search.
LEMMA FindStep ==
    ASSUME ActivityInv, NEW s \in Subs, NEW seen \in SUBSET Vms, NEW capped \in BOOLEAN,
           FindIn(s, seen, capped) \/ FindFails(s) \/ SearchExpires \/ HalfTime
    PROVE  ActivityInv'
<1> USE DEF ActivityInv, arm, history, scan, vars, readings
<1>0. HomeOf \in [Vaults \cup Vms -> Subs]
  BY BackupAssumption DEF BackupAssumption
<1>1. stage = "search" /\ UNCHANGED <<arm, late, named, pc, subsCapped, cur, entry, listed, vmsCapped,
                                      complete, vaultsLeft, matches, history, asked, stage, logged, readings>>
      /\ targets' \subseteq targets
  BY DEF FindIn, FindFails, SearchExpires, HalfTime, Searching
<1>2. TypeOK' /\ ArmInv' /\ LogInv'
  BY <1>1 DEF TypeOK, ArmInv, LogInv
<1>3. StageInv'
  BY <1>1 DEF StageInv, Reading
<1>4. SearchInv'
  <2>1. CASE FindIn(s, seen, capped)
    <3>1. /\ found' = found \cup (seen \cap asked) /\ targets' = targets \ {s}
          /\ whole' = (whole /\ ~capped) /\ (~capped => seen = VmsOf(s) \cap vms)
          /\ pc = "vms" /\ seen \in SUBSET Vms
      BY <2>1 DEF FindIn, Listing, Searching
    <3>2. asked' \subseteq Vms /\ found' \subseteq asked'
      BY <1>1, <3>1 DEF SearchInv
    <3>3. ASSUME SearchComplete', NEW m \in AskedIn, HomeOf[m] \notin targets'
          PROVE  m \in found' \cup everAbsent
      <4>1. ~capped /\ SearchComplete
        BY Zenon, <1>1, <3>1, <3>3 DEF SearchComplete
      <4>2. m \in asked /\ m \in Vms
        BY DEF AskedIn, SearchInv
      <4>3. CASE HomeOf[m] = s
        BY <3>1, <4>1, <4>2, <4>3 DEF VmsOf, ArmInv
      <4>4. CASE HomeOf[m] # s
        BY <3>1, <3>3, <4>1, <4>4 DEF SearchInv
      <4>5. QED
        BY <4>3, <4>4
    <3>4. AskedIn' = AskedIn
      BY <1>1 DEF AskedIn
    <3>5. QED
      BY <1>1, <3>2, <3>3, <3>4 DEF SearchInv
  <2>2. CASE FindFails(s)
    BY <1>1, <2>2 DEF FindFails, WholeWithout, SearchInv, SearchComplete, AskedIn
  <2>3. CASE SearchExpires
    BY <1>1, <2>3 DEF SearchExpires, SearchInv, SearchComplete, AskedIn
  <2>4. CASE HalfTime
    BY <1>1, <2>4 DEF HalfTime, SearchInv, SearchComplete, AskedIn
  <2>5. QED
    BY <2>1, <2>2, <2>3, <2>4
<1>5. QED
  BY <1>2, <1>3, <1>4

LEMMA EndSearchStep ==
    ASSUME ActivityInv, EndSearch
    PROVE  ActivityInv'
<1> USE DEF ActivityInv, arm, history, scan, search, readings
<1>1. /\ stage' = IF Resolved THEN "group" ELSE "unresolved"
      /\ pc = "vms" /\ pc' = IF Resolved THEN pc ELSE "answered"
      /\ targets = {}
      /\ UNCHANGED <<arm, late, named, scan, history, tool, asked, search, logged, readings>>
  BY DEF EndSearch, Searching
<1>2. TypeOK' /\ ArmInv' /\ LogInv'
  BY <1>1 DEF TypeOK, ArmInv, LogInv
<1>3. StageInv'
  BY <1>1 DEF StageInv, Reading, Resolved, SearchComplete
<1>4. SearchInv'
  BY <1>1 DEF SearchInv, SearchComplete, AskedIn
<1>5. QED
  BY <1>2, <1>3, <1>4

\* The two reads of the log.
LEMMA LogStep ==
    ASSUME ActivityInv, NEW seen \in SUBSET Events, NEW capped \in BOOLEAN,
           \/ (\E e \in Events : LogEvent(e)) \/ ReadGroup(seen, capped) \/ GroupFails
           \/ ReadSubscription(seen, capped) \/ SubscriptionFails
    PROVE  ActivityInv'
<1> USE DEF ActivityInv, arm, history, scan, search, vars, readings
<1>0. /\ \A d \in Events : EventAt[d].on # None =>
            EventAt[d].sub = HomeOf[EventAt[d].on] /\ EventAt[d].group = GroupOf[EventAt[d].on]
      /\ None \notin Vms
  BY ActivityAssumption DEF ActivityAssumption
<1>1. Reading /\ UNCHANGED <<arm, late, named, scan, history, tool, asked, search>>
      /\ pc' \in {pc, "answered"}
      /\ target' = target /\ target \in Vms
  <2>1. Reading /\ UNCHANGED <<arm, late, named, scan, history, tool, asked, search>>
        /\ pc' \in {pc, "answered"}
    BY DEF Reading, LogEvent, ReadGroup, GroupFails, ReadSubscription, SubscriptionFails
  <2>2. found # {}
    <3>1. Cardinality(found) = 1
      BY <2>1 DEF Reading, StageInv, Resolved
    <3>2. QED
      BY <3>1, FS_EmptySet
  <2>3. QED
    BY <2>1, <2>2 DEF target, SearchInv
<1>2. TypeOK' /\ ArmInv'
  BY <1>1 DEF Reading, StageInv, TypeOK, ArmInv
<1>3. SearchInv'
  BY <1>1 DEF Reading, StageInv, SearchInv, SearchComplete, AskedIn
<1>4. StageInv'
  BY <1>1 DEF StageInv, Reading, Resolved, SearchComplete, LogEvent, ReadGroup, GroupFails, ReadSubscription,
     SubscriptionFails
<1>5. LogInv'
  <2>1. ASSUME NEW e \in Events, LogEvent(e) PROVE LogInv'
    BY <1>1, <2>1 DEF LogEvent, LogInv, InSubscription, OnVm, OffVm
  <2>2. CASE ReadGroup(seen, capped)
    <3>1. /\ atFirst' = InSubscription /\ logged' = logged /\ stage' = "subscription"
          /\ vmEvents' = OnVm(seen) /\ groupCut' = capped /\ (~capped => seen = InGroup)
      BY <2>2 DEF ReadGroup, Listing
    <3>2. OnVm(InGroup) = OnVm(InSubscription)
      BY <1>0, <1>1 DEF OnVm, InGroup, InSubscription, LogInv
    <3>3. QED
      BY <1>1, <3>1, <3>2 DEF LogInv, InSubscription, OnVm
  <2>3. CASE GroupFails
    BY <2>3 DEF GroupFails, LogInv
  <2>4. CASE ReadSubscription(seen, capped)
    <3>1. /\ stage = "subscription" /\ others' = OffVm(seen) /\ subCut' = capped
          /\ UNCHANGED <<logged, atFirst, vmEvents, groupCut>>
          /\ (~capped => seen = InSubscription)
      BY <2>4 DEF ReadSubscription, Listing
    <3>2. QED
      BY <1>1, <3>1 DEF LogInv, InSubscription, OnVm, OffVm
  <2>5. CASE SubscriptionFails
    BY <1>1, <2>5 DEF SubscriptionFails, LogInv, InSubscription, OnVm, OffVm
  <2>6. QED
    BY <2>1, <2>2, <2>3, <2>4, <2>5
<1>6. QED
  BY <1>2, <1>3, <1>4, <1>5

LEMMA ToolsStep == ToolsInv /\ [ToolsNext]_armVars => ToolsInv'
<1> SUFFICES ASSUME ToolsInv, [ToolsNext]_armVars PROVE ToolsInv'
  OBVIOUS
<1>1. CASE BackupCall
  <2>1. BackupInv /\ Next /\ UNCHANGED <<tool, stage>>
    BY <1>1 DEF BackupCall, ToolsInv, activityVars
  <2>2. QED
    BY <1>1, <2>1, BackupStep DEF BackupCall, ToolsInv
<1>2. CASE ActivityCall
  <2>1. tool = "vm_activity" /\ tool' = tool /\ ActivityInv
    BY <1>2 DEF ActivityCall, ToolsInv, activityVars, HalfTime, FindIn, FindFails, SearchExpires, EndSearch,
       LogEvent, ReadGroup, GroupFails, ReadSubscription, SubscriptionFails
  <2>2. ActivityInv'
    <3>1. CASE (Begin \/ Done) /\ UNCHANGED activityVars
      BY <2>1, <3>1, BeginStep
    <3>2. CASE HalfTime \/ SearchExpires
      <4>1. \E s \in Subs : TRUE
        BY <2>1 DEF ActivityInv, TypeOK
      <4>2. {} \in SUBSET Vms /\ TRUE \in BOOLEAN
        OBVIOUS
      <4>3. QED
        BY <2>1, <3>2, <4>1, <4>2, FindStep
    <3>3. ASSUME NEW s \in Subs, FindFails(s) PROVE ActivityInv'
      <4>1. {} \in SUBSET Vms /\ TRUE \in BOOLEAN
        OBVIOUS
      <4>2. QED
        BY <2>1, <3>3, <4>1, FindStep
    <3>4. ASSUME NEW s \in Subs, NEW seen \in SUBSET Vms, NEW capped \in BOOLEAN, FindIn(s, seen, capped)
          PROVE  ActivityInv'
      BY <2>1, <3>4, FindStep
    <3>5. CASE EndSearch
      BY <2>1, <3>5, EndSearchStep
    <3>6. ASSUME NEW e \in Events, LogEvent(e) PROVE ActivityInv'
      <4>1. {} \in SUBSET Events /\ TRUE \in BOOLEAN
        OBVIOUS
      <4>2. QED
        BY <2>1, <3>6, <4>1, LogStep
    <3>7. ASSUME NEW seen \in SUBSET Events, NEW capped \in BOOLEAN,
                 ReadGroup(seen, capped) \/ ReadSubscription(seen, capped)
          PROVE  ActivityInv'
      BY <2>1, <3>7, LogStep
    <3>8. CASE GroupFails \/ SubscriptionFails
      <4>1. {} \in SUBSET Events /\ TRUE \in BOOLEAN
        OBVIOUS
      <4>2. QED
        BY <2>1, <3>8, <4>1, LogStep
    <3>9. QED
      BY <1>2, <3>1, <3>2, <3>3, <3>4, <3>5, <3>6, <3>7, <3>8 DEF ActivityCall
  <2>3. QED
    BY <2>1, <2>2 DEF ToolsInv
<1>3. CASE UNCHANGED armVars
  BY <1>3 DEF armVars, activityVars, search, readings, vars, arm, scan, history, ToolsInv, ActivityInv,
     BackupInv, TypeOK, ArmInv, ScanInv, VmInv, Visiting, VaultInv, MatchInv, StageInv, Reading, Resolved,
     SearchInv, SearchComplete, AskedIn, LogInv, InSubscription, OnVm, OffVm, target
<1>4. QED
  BY <1>1, <1>2, <1>3 DEF ToolsNext

LEMMA ToolsAlways == ToolsSpec => []ToolsInv
  BY ToolsStart, ToolsStep, PTL DEF ToolsSpec

\* The answer of the scan exists only in a call of vm_backup_status.
LEMMA DoneIsBackup == ToolsInv /\ pc = "done" => BackupInv
  BY DEF ToolsInv, ActivityInv, StageInv

-----------------------------------------------------------------------------
\* Every state of the two ARM tools is well formed.
THEOREM ArmToolsAreTyped == ToolsSpec => []TypeOK
<1>1. ToolsInv => TypeOK
  BY DEF ToolsInv, BackupInv, ActivityInv
<1>2. QED
  BY ToolsAlways, <1>1, PTL

\* vm_backup_status: "no item found" is never said of a VM that some vault in scope was
\* backing up all the time, whatever was capped, skipped or unreadable.
THEOREM AbsenceIsAlwaysProved == ToolsSpec => []AbsenceIsProved
<1>1. ToolsInv => AbsenceIsProved
  BY DoneIsBackup, AbsenceFollows DEF AbsenceIsProved
<1>2. QED
  BY ToolsAlways, <1>1, PTL

\* vm_backup_status: the item still backing up wins over any other, in every order of reads.
THEOREM LiveItemAlwaysWins == ToolsSpec => []LiveItemWins
<1>1. ToolsInv => LiveItemWins
  BY DoneIsBackup, LiveItemFollows DEF LiveItemWins
<1>2. QED
  BY ToolsAlways, <1>1, PTL

\* vm_backup_status: an orphan's VM was missing at some moment of the call.
THEOREM OrphansWereAlwaysAbsent == ToolsSpec => []OrphansWereAbsent
<1>1. ToolsInv => OrphansWereAbsent
  BY DoneIsBackup, OrphansFollow DEF OrphansWereAbsent
<1>2. QED
  BY ToolsAlways, <1>1, PTL

\* vm_backup_status: capped=false means that nothing that was there throughout is missing.
THEOREM UncappedIsAlwaysComplete == ToolsSpec => []UncappedIsComplete
<1>1. ToolsInv => UncappedIsComplete
  BY DoneIsBackup, UncappedFollows DEF UncappedIsComplete
<1>2. QED
  BY ToolsAlways, <1>1, PTL

\* The sentence the docstring says of every row fails in one way only: an item that is
\* stopped was read, and the vault with the live one was not, in an answer that is capped.
OnlyAStopMisleads ==
    pc = "done" =>
        \A m \in Rows, v \in Scope : (Protected(m) = "false" /\ <<v, m>> \in alwaysOn) =>
            Capped /\ matches[m] = "off" /\ v \notin readFully

\* vm_backup_status: a false "unprotected" is always that of a stopped item beside an unread
\* vault; an answer without capped has none (compare PartialScanNeverSaysUnprotected).
THEOREM OnlyAStopEverMisleads == ToolsSpec => []OnlyAStopMisleads
<1>1. BackupInv => OnlyAStopMisleads
  <2> SUFFICES ASSUME BackupInv, pc = "done", NEW m \in Rows, NEW v \in Scope,
                      Protected(m) = "false", <<v, m>> \in alwaysOn
               PROVE  Capped /\ matches[m] = "off" /\ v \notin readFully
    BY DEF OnlyAStopMisleads
  <2>1. m \in Vms /\ matches[m] \in {"on", "off", "unclear", None}
    BY DEF BackupInv, VmInv, TypeOK, Rows
  <2>2. matches[m] # None
    BY AbsenceFollows DEF AbsenceIsProved
  <2>3. matches[m] = "off"
    BY <2>1, <2>2 DEF Protected
  <2>4. Capped
    <3>1. SUFFICES ASSUME ~Capped
                   PROVE  FALSE
      OBVIOUS
    <3>2. <<v, m>>[1] = v /\ <<v, m>>[2] = m
      OBVIOUS
    <3>3. matches[m] = "on"
      BY <3>1, <3>2, UncappedFollows DEF UncappedIsComplete
    <3>4. QED
      BY <2>3, <3>3
  <2>5. v \notin readFully
    BY LiveItemFollows DEF LiveItemWins
  <2>6. QED
    BY <2>3, <2>4, <2>5
<1>2. ToolsInv => OnlyAStopMisleads
  BY <1>1, DoneIsBackup DEF OnlyAStopMisleads
<1>3. QED
  BY ToolsAlways, <1>2, PTL

\* vm_activity: a VM is taken for the only one of its name, and "not found" is said of a
\* complete search, only when no other was there throughout.
THEOREM SearchIsAlwaysProved == ToolsSpec => []SearchIsProved
<1>1. ASSUME ToolsInv PROVE SearchIsProved
  <2>1. CASE tool = "vm_backup_status"
    BY <1>1, <2>1 DEF ToolsInv, SearchIsProved
  <2>2. CASE tool = "vm_activity"
    <3>1. stage \in {"group", "subscription", "found", "error"} => AskedIn \ {target} \subseteq everAbsent
      <4> SUFFICES ASSUME stage \in {"group", "subscription", "found", "error"},
                          NEW m \in AskedIn, m # target
                   PROVE  m \in everAbsent
        OBVIOUS
      <4>1. Cardinality(found) = 1 /\ SearchComplete /\ targets = {} /\ pc \in {"vms", "answered"}
        BY <1>1, <2>2 DEF ToolsInv, ActivityInv, StageInv, Reading, Resolved
      <4>2. m \in found \cup everAbsent
        BY <1>1, <2>2, <4>1 DEF ToolsInv, ActivityInv, SearchInv
      <4>3. found = {target}
        <5>1. PICK x : found = {x}
          <6>1. IsFiniteSet(found)
            <7>1. IsFiniteSet(Vms) /\ found \subseteq Vms
              BY <1>1, <2>2, BackupAssumption DEF BackupAssumption, ToolsInv, ActivityInv, SearchInv
            <7>2. QED
              BY <7>1, FS_Subset
          <6>2. QED
            BY <4>1, <6>1, FS_Singleton
        <5>2. QED
          BY <5>1 DEF target
      <4>4. QED
        BY <4>2, <4>3
    <3>2. stage = "unresolved" /\ SearchComplete /\ found = {} => AskedIn \subseteq everAbsent
      BY <1>1, <2>2 DEF ToolsInv, ActivityInv, StageInv, SearchInv
    <3>3. QED
      BY <3>1, <3>2 DEF SearchIsProved
  <2>3. QED
    BY <1>1, <2>1, <2>2 DEF ToolsInv
<1>2. QED
  BY ToolsAlways, <1>1, PTL

\* vm_activity: with nothing capped, what the log held at the first read is shown in exactly
\* one of the two sections.
THEOREM EventsAreAlwaysShown == ToolsSpec => []EventsAreShown
<1>1. ASSUME ToolsInv PROVE EventsAreShown
  <2> SUFFICES ASSUME stage = "found", ~groupCut, ~subCut, NEW e \in atFirst
               PROVE  \/ (e \in vmEvents) # (e \in others)
                      \/ EventAt[e].on = target /\ EventAt[e].category \in {"ServiceHealth", "other"}
    BY DEF EventsAreShown
  <2>1. vmEvents = OnVm(atFirst) /\ OffVm(atFirst) \subseteq others /\ others \subseteq OffVm(Events)
        /\ e \in Events
    BY <1>1 DEF ToolsInv, ActivityInv, LogInv, InSubscription
  <2>2. EventAt[e].category \in Categories
    BY <2>1, ActivityAssumption DEF ActivityAssumption
  <2>3. QED
    BY <2>1, <2>2 DEF OnVm, OffVm, Categories
<1>2. QED
  BY ToolsAlways, <1>1, PTL
=============================================================================
