------------------------------- MODULE Archive -------------------------------
(***************************************************************************)
(* One tenant's sign-in archive over many runs of archive_tenant           *)
(* (src/entraadm_mcp/archive.py), called by _archive_signins               *)
(* (src/entraadm_mcp/__main__.py): the files on disk, the markers beside   *)
(* them, the runs with their failures and crashes, and the sign-in log at  *)
(* Graph, which delivers some rows late and drops old ones.                *)
(*                                                                         *)
(* Time is in hours.  There is one sign-in row per hour, known by its hour; *)
(* a slot is known by its start, which is all its file name carries.       *)
(***************************************************************************)
EXTENDS Naturals, FiniteSets

CONSTANTS
    SlotLens,       \* the slot lengths a run may be started with (--slot-hours)
    Days,           \* --days, in hours: how far back a run looks
    Refetch,        \* --refetch-hours
    Keep,           \* --keep-days in hours, 0 to keep everything
    Retention,      \* Graph shows a row for that long
    LateRows,       \* the rows Graph may deliver late
    RunTime,        \* a run takes at most this long
    StartLag,       \* `now` may be that old when a tenant's turn comes
    Gap,            \* a run is started at least this often
    Crashes,        \* runs that may be killed
    AuthErrors,     \* whether Graph may refuse the credential
    LocalErrors,    \* whether the disk may fail (OSError)
    MaxClock        \* horizon

Times == 0..MaxClock

ASSUME ArchiveAssumption ==
    /\ SlotLens \subseteq Nat \ {0}
    /\ Days \in Nat \ {0} /\ Refetch \in Nat /\ Retention \in Nat
    /\ Keep \in Nat /\ (Keep = 0 \/ Keep > Days)
    /\ RunTime \in Nat /\ StartLag \in Nat /\ Gap \in Nat \ {0}
    /\ Crashes \in Nat
    /\ AuthErrors \in BOOLEAN /\ LocalErrors \in BOOLEAN
    /\ MaxClock \in Nat
    /\ LateRows \subseteq Times

Attempts == 3

VARIABLES
    clock,          \* the wall clock
    delivered,      \* late row -> the hour Graph delivered it, or MaxClock + 1
    files,          \* slots that have a file -> its rows
    stale,          \* the slots with a .stale marker
    marker,         \* SLOT_HOURS exists
    recorded,       \* the length it holds, 0 while it is empty
    pc,             \* where the run stands
    runNow,         \* its `now`
    len,            \* its slot_hours
    slot,           \* the slot being visited, or pruned
    attempt,        \* attempt of _fetch
    rows,           \* what the walk returned
    failed,         \* result["failed"]
    error,          \* result["error"]
    crashes,        \* runs killed so far
    lastStart,      \* history: clock at the start of the last run
    lastEnd,        \* history: how the last run ended
    walkAt,         \* history: clock of the last complete walk
    readAt,         \* history: slot -> clock of the walk its file holds
    fileLen         \* history: slot -> slot length its file was written with

disk == <<files, stale, marker, recorded>>
run == <<runNow, len, slot, attempt, rows, failed, error>>
history == <<lastStart, lastEnd, walkAt, readAt, fileLen>>
env == <<clock, delivered, crashes>>
vars == <<env, disk, pc, run, history>>

-----------------------------------------------------------------------------
(***************************************************************************)
(* Graph's sign-in log.                                                    *)
(***************************************************************************)
DeliveredAt(r) == IF r \in LateRows THEN delivered[r] ELSE r

\* Graph shows the row at time t.
Shown(r, t) == DeliveredAt(r) < t /\ r < t /\ t <= r + Retention

\* The rows of a slot of length n.
RowsOf(s, n) == {r \in Times : s <= r /\ r < s + n}

\* createdDateTime ge start and lt end, asked at time t.
Walk(s, n, t) == {r \in RowsOf(s, n) : Shown(r, t)}

Deliver(r) ==
    /\ r < clock
    /\ delivered[r] > MaxClock
    /\ delivered' = [delivered EXCEPT ![r] = clock]
    /\ UNCHANGED <<clock, crashes, disk, pc, run, history>>

\* Time passes; a run lasts at most RunTime and the timer starts one every Gap.
Tick ==
    /\ clock < MaxClock
    /\ pc # "idle" => clock < lastStart + RunTime
    /\ pc = "idle" => clock < lastStart + Gap
    /\ clock' = clock + 1
    /\ UNCHANGED <<delivered, crashes, disk, pc, run, history>>

-----------------------------------------------------------------------------
(***************************************************************************)
(* A run of archive_tenant.                                                *)
(***************************************************************************)
\* Mutant of FirstSlot: the oldest slot straddles the edge of the window.
FirstSlotStraddling(now, n) == IF now <= Days THEN 0 ELSE ((now - Days) \div n) * n

\* slot_starts: the first slot that starts at or after now - days, aligned up.
FirstSlot(now, n) == IF now <= Days THEN 0 ELSE ((now - Days + n - 1) \div n) * n

\* The slot has ended by the run's `now`.
Ended(s) == s + len <= runNow

\* Mutant of UpToDate: a slot that has a file is never read again.
UpToDateIfThere(s) == s \in DOMAIN files /\ s \notin stale

\* Mutant of UpToDate: a slot that settles at this hour is read once more.
UpToDateLater(s) == s \in DOMAIN files /\ s + len + Refetch < runNow /\ s \notin stale

\* A settled slot with a good file is left alone.
UpToDate(s) ==
    /\ s \in DOMAIN files
    /\ s + len + Refetch <= runNow
    /\ s \notin stale

Init ==
    /\ clock = 0
    /\ delivered = [r \in LateRows |-> MaxClock + 1]
    /\ files = [s \in {} |-> {}]
    /\ stale = {}
    /\ marker = FALSE
    /\ recorded = 0
    /\ pc = "idle"
    /\ runNow = 0
    /\ len \in SlotLens
    /\ slot = 0
    /\ attempt = 0
    /\ rows = {}
    /\ failed = {}
    /\ error = FALSE
    /\ crashes = 0
    /\ lastStart = 0
    /\ lastEnd = "none"
    /\ walkAt = 0
    /\ readAt = [s \in Times |-> 0]
    /\ fileLen = [s \in Times |-> 0]

\* The run ends with what the CLI reports of it; its locals are gone.
End(how) ==
    /\ pc' = "idle"
    /\ lastEnd' = how
    /\ slot' = 0
    /\ attempt' = 0
    /\ rows' = {}

\* Mutant of Accepts: a SLOT_HOURS that a crash left empty is read as this run's length.
AcceptsEmpty(n) == recorded \in {0, n}

\* The recorded slot length is this run's.
Accepts(n) == recorded = n

\* _archive_signins takes `now` once, before the first tenant's turn and after the run
\* before has ended; the marker of another slot length, or an unreadable one, refuses the
\* run, and so does a directory or marker that cannot be used.
StartRun(now, n) ==
    /\ pc = "idle"
    /\ runNow <= now
    /\ runNow' = now
    /\ len' = n
    /\ lastStart' = clock
    /\ failed' = {}
    /\ error' = FALSE
    /\ \/ /\ ~marker
          /\ marker' = TRUE
          /\ pc' = "record"
          /\ slot' = FirstSlot(now, n)
          /\ UNCHANGED <<attempt, rows, lastEnd>>
       \/ /\ marker /\ Accepts(n)
          /\ pc' = "visit"
          /\ slot' = FirstSlot(now, n)
          /\ UNCHANGED <<marker, attempt, rows, lastEnd>>
       \/ /\ marker /\ ~Accepts(n)
          /\ End("refused")
          /\ UNCHANGED marker
       \/ /\ LocalErrors
          /\ End("broken")
          /\ UNCHANGED marker
    /\ UNCHANGED <<env, files, stale, recorded, walkAt, readAt, fileLen>>

\* The new SLOT_HOURS, created empty, gets its content.
RecordLength ==
    /\ pc = "record"
    /\ recorded' = len
    /\ pc' = "visit"
    /\ UNCHANGED <<env, files, stale, marker, run, history>>

SkipSlot ==
    /\ pc = "visit"
    /\ Ended(slot)
    /\ UpToDate(slot)
    /\ slot' = slot + len
    /\ UNCHANGED <<env, disk, pc, runNow, len, attempt, rows, failed, error, history>>

BeginFetch ==
    /\ pc = "visit"
    /\ Ended(slot)
    /\ ~UpToDate(slot)
    /\ pc' = "fetch"
    /\ attempt' = 1
    /\ UNCHANGED <<env, disk, runNow, len, slot, rows, failed, error, history>>

\* One complete walk.
FetchOk ==
    /\ pc = "fetch"
    /\ rows' = Walk(slot, len, clock)
    /\ walkAt' = clock
    /\ pc' = "write"
    /\ UNCHANGED <<env, disk, runNow, len, slot, attempt, failed, error, lastStart, lastEnd,
                   readAt, fileLen>>

RetryFetch ==
    /\ pc = "fetch"
    /\ attempt < Attempts
    /\ attempt' = attempt + 1
    /\ UNCHANGED <<env, disk, pc, runNow, len, slot, rows, failed, error, history>>

\* Mutant of StaleAfterFailure: a failed re-read leaves no marker.
StaleNever(s) == stale

\* The markers after the walk of s failed for good.
StaleAfterFailure(s) == IF s \in DOMAIN files THEN stale \cup {s} ELSE stale

\* A transient error or a spent page budget, at the last attempt.
FailFetch ==
    /\ pc = "fetch"
    /\ attempt = Attempts
    /\ failed' = failed \cup {slot}
    /\ stale' = StaleAfterFailure(slot)
    /\ slot' = slot + len
    /\ pc' = "visit"
    /\ UNCHANGED <<env, files, marker, recorded, runNow, len, attempt, rows, error, history>>

\* The same, but stale.touch raises: the failure is not remembered.
MarkFails ==
    /\ LocalErrors
    /\ pc = "fetch"
    /\ attempt = Attempts
    /\ slot \in DOMAIN files
    /\ failed' = failed \cup {slot}
    /\ End("broken")
    /\ UNCHANGED <<env, disk, runNow, len, error, lastStart, walkAt, readAt, fileLen>>

\* A refused credential stops the tenant; pruning still runs.
AuthFailure ==
    /\ AuthErrors
    /\ pc = "fetch"
    /\ error' = TRUE
    /\ failed' = failed \cup {slot}
    /\ pc' = "prune"
    /\ UNCHANGED <<env, disk, runNow, len, slot, attempt, rows, history>>

\* _write: the temporary file is renamed into place.
ReplaceFile ==
    /\ pc = "write"
    /\ files' = [s \in DOMAIN files \cup {slot} |-> IF s = slot THEN rows ELSE files[s]]
    /\ fileLen' = [fileLen EXCEPT ![slot] = len]
    /\ readAt' = [readAt EXCEPT ![slot] = walkAt]
    /\ pc' = "unstale"
    /\ UNCHANGED <<env, stale, marker, recorded, run, lastStart, lastEnd, walkAt>>

ClearStale ==
    /\ pc = "unstale"
    /\ stale' = stale \ {slot}
    /\ slot' = slot + len
    /\ pc' = "visit"
    /\ UNCHANGED <<env, files, marker, recorded, runNow, len, attempt, rows, failed, error, history>>

EndOfSlots ==
    /\ pc = "visit"
    /\ ~Ended(slot)
    /\ pc' = "prune"
    /\ UNCHANGED <<env, disk, run, history>>

\* Mutant of Prunable: the window is kept, not the days asked for.
PrunableEarly(s) == s \in DOMAIN files /\ s + Refetch < runNow /\ s \notin failed

\* A file older than keep_days.
Prunable(s) ==
    /\ Keep > 0
    /\ s \in DOMAIN files
    /\ s + Keep < runNow
    /\ s \notin failed

PruneFile(s) ==
    /\ pc = "prune"
    /\ Prunable(s)
    /\ files' = [t \in DOMAIN files \ {s} |-> files[t]]
    /\ slot' = s
    /\ pc' = "prunestale"
    /\ UNCHANGED <<env, stale, marker, recorded, runNow, len, attempt, rows, failed, error, history>>

PruneStale ==
    /\ pc = "prunestale"
    /\ stale' = stale \ {slot}
    /\ pc' = "prune"
    /\ UNCHANGED <<env, files, marker, recorded, run, history>>

EndRun ==
    /\ pc = "prune"
    /\ \A s \in DOMAIN files : ~Prunable(s)
    /\ End(IF error THEN "error" ELSE IF failed # {} THEN "failed" ELSE "clean")
    /\ UNCHANGED <<env, disk, runNow, len, failed, error, lastStart, walkAt, readAt, fileLen>>

\* A disk operation of the step raises: nothing is changed (_write removes its temporary
\* file) and the tenant gives up, whatever it had still to visit or to prune.
DiskFails ==
    /\ LocalErrors
    /\ pc \in {"record", "write", "unstale", "prune", "prunestale"}
    /\ pc = "prune" => \E s \in DOMAIN files : Prunable(s)
    /\ End("broken")
    /\ UNCHANGED <<env, disk, runNow, len, failed, error, lastStart, walkAt, readAt, fileLen>>

\* The process is killed between two of its steps.
Crash ==
    /\ pc # "idle"
    /\ crashes < Crashes
    /\ crashes' = crashes + 1
    /\ End("crashed")
    /\ UNCHANGED <<clock, delivered, disk, runNow, len, failed, error, lastStart, walkAt, readAt, fileLen>>

RunNext ==
    \/ RecordLength
    \/ SkipSlot \/ BeginFetch \/ FetchOk \/ RetryFetch \/ FailFetch \/ MarkFails \/ AuthFailure
    \/ ReplaceFile \/ ClearStale \/ EndOfSlots
    \/ \E s \in DOMAIN files : PruneFile(s)
    \/ PruneStale \/ EndRun \/ DiskFails

Next ==
    \/ Tick
    \/ \E r \in LateRows : Deliver(r)
    \/ \E lag \in 0..StartLag, n \in SlotLens : lag <= clock /\ StartRun(clock - lag, n)
    \/ RunNext
    \/ Crash

Spec == Init /\ [][Next]_vars

-----------------------------------------------------------------------------
(***************************************************************************)
(* What the archive promises.                                              *)
(***************************************************************************)
\* The slots slot_starts lists for the last run.
Window == {s \in Times : s >= FirstSlot(runNow, len) /\ s % len = 0 /\ s + len <= runNow}

\* The row may be purged when its slot is read: a run reads its oldest slot up to StartLag
\* and RunTime after the `now` its window was cut at.  With --days equal to Graph's
\* retention, both defaults, these are the first rows of a slot; with --days beyond it
\* they are all of them.
AtEdge(r, s) == r + Retention < s + Days + StartLag + RunTime

\* The pace at which the archive is to be run (docs/reference.md): one slot length, a run
\* before the next one is due, and nothing that ends a run before its last slot.
Undisturbed ==
    /\ RunTime <= Gap
    /\ \E n \in SlotLens : SlotLens = {n}
    /\ Crashes = 0 /\ ~AuthErrors /\ ~LocalErrors

\* The state holds what the code could hold: the run's place, its counters and the disk.
TypeOK ==
    /\ clock \in Times /\ runNow \in 0..clock /\ crashes \in 0..Crashes
    /\ delivered \in [LateRows -> 0..(MaxClock + 1)]
    /\ DOMAIN files \subseteq Times /\ \A s \in DOMAIN files : files[s] \subseteq Times
    /\ stale \subseteq Times
    /\ marker \in BOOLEAN /\ recorded \in {0} \cup SlotLens
    /\ pc \in {"idle", "record", "visit", "fetch", "write", "unstale", "prune", "prunestale"}
    /\ pc \in {"fetch", "write", "unstale"} => slot \in Window /\ attempt \in 1..Attempts
    /\ rows \subseteq Times /\ failed \subseteq Window

\* A run that reports neither an error nor a failed slot leaves every slot of its window
\* with a file of its length that is not marked stale, and the ones Graph may still add
\* to were read by that run (archive_tenant's result, exit code 0).
CleanRunIsComplete ==
    (pc = "idle" /\ lastEnd = "clean") =>
        \A s \in Window :
            /\ s \in DOMAIN files /\ s \notin stale
            /\ s + len + Refetch > runNow => readAt[s] >= lastStart

\* Every row of a slot that Graph had delivered by time t.
Complete(s, n, t) == {r \in RowsOf(s, n) : DeliveredAt(r) < t}

\* What a walk of the slot at time t brings: all of them, but for those at the edge of the
\* retention that Graph had purged.
IsWhole(read, s, n, t) ==
    /\ read \subseteq Complete(s, n, t)
    /\ \A r \in Complete(s, n, t) \ read : AtEdge(r, s) /\ r + Retention < t

\* A file that exists is a complete walk of an ended slot: every row Graph had delivered
\* by its walk is in it, but for those purged at the edge of the retention.
FilesAreWhole ==
    \A s \in DOMAIN files :
        s + fileLen[s] <= readAt[s] /\ IsWhole(files[s], s, fileLen[s], readAt[s])

\* The documented half of it (archive.py:10-11, 21-22, docs/reference.md:502-510): no slot
\* straddles the retention edge, to be read only partly and then kept.
NoSlotIsReadPartly ==
    \A s \in DOMAIN files : files[s] = Complete(s, fileLen[s], readAt[s])

\* File names carry only the start of the slot: all files of the directory have one
\* length, whatever was killed and whatever length later runs ask for.
NoMixedLengths ==
    \A s, t \in DOMAIN files : fileLen[s] = fileLen[t]

\* A row once archived stays, through re-reads, failures and crashes, until its slot is
\* older than keep_days; only a re-read at the edge of the retention may lose one, which
\* Graph has purged.
ArchivedRowsStay ==
    [][\A s \in DOMAIN files :
          \/ /\ s \in DOMAIN files'
             /\ \A r \in files[s] \ files'[s] : AtEdge(r, s) /\ r + Retention < clock
          \/ Keep > 0 /\ s + Keep < clock]_vars

\* The file of a slot that has settled is left alone (archive.py:7-9): the only later walk
\* that replaces it is one that makes good a failed re-read.
SettledIsLeftAlone ==
    [][\A s \in DOMAIN files \cap DOMAIN files' :
          readAt'[s] # readAt[s] => s \in stale \/ runNow < s + fileLen[s] + Refetch]_vars

\* Slots whose earlier file stands unmarked though the last run failed to read them again.
Forgotten == (failed \cap DOMAIN files) \ stale

\* A re-read that fails leaves a marker beside the earlier file (archive.py:23-24), unless
\* the run ends with an error, a refused credential (149-153) or a disk that failed (158):
\* such a run forgets one slot at most.
OnlyErrorsForget ==
    (pc = "idle" /\ Forgotten # {}) =>
        /\ error \/ lastEnd = "broken"
        /\ \E s \in Times : Forgotten = {s}

\* When a run ends clean, a settled slot of its window holds every row Graph delivered up
\* to one Gap before the slot settled, though no run reads it any more (rows at the edge of
\* the retention apart).
LateRowsAreKept ==
    (pc = "idle" /\ lastEnd = "clean") =>
        \A s \in Window : s + len + Refetch <= runNow =>
            \A r \in RowsOf(s, len) :
                (DeliveredAt(r) + Gap < s + len + Refetch /\ ~AtEdge(r, s))
                    => s \in DOMAIN files /\ r \in files[s]

=============================================================================
