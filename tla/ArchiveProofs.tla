---------------------------- MODULE ArchiveProofs ----------------------------
(***************************************************************************)
(* What the archive promises, for every window, slot length, crash and     *)
(* failure (archive_tenant, src/entraadm_mcp/archive.py): its files have   *)
(* one length, they are whole walks that stay, a clean run has left        *)
(* nothing out, and late rows are read while the runs keep their pace.     *)
(***************************************************************************)
EXTENDS Archive, TLAPS

Working == {"visit", "fetch", "write", "unstale", "prune", "prunestale"}

\* The hours the program and the log count in; a slot that is read lies before the clock.
HoursInv ==
    /\ clock \in Times
    /\ runNow \in Nat /\ runNow <= clock
    /\ slot \in Nat
    /\ len \in SlotLens
    /\ pc \in {"fetch", "write", "unstale"} => slot + len <= runNow

\* The length in SLOT_HOURS is the one of every file and of the run at work; until there
\* is one there are no files, and only the run that created the marker is past the check.
LengthInv ==
    /\ pc \in Working \cup {"idle", "record"}
    /\ recorded \in Nat
    /\ pc \in Working => recorded = len
    /\ pc = "record" => marker /\ recorded = 0
    /\ ~marker => recorded = 0
    /\ recorded = 0 => DOMAIN files = {}
    /\ DOMAIN fileLen = Times
    /\ DOMAIN files \subseteq Times
    /\ \A s \in DOMAIN files : fileLen[s] = recorded

IInv == HoursInv /\ LengthInv

\* Rounding a count of hours to a slot boundary never goes below zero.
LEMMA RoundingIsNat ==
    ASSUME NEW a \in Nat, NEW n \in Nat \ {0}
    PROVE  (a \div n) * n \in Nat
<1>1. a \div n \in Nat
  BY Z3
<1>2. \A q \in Nat : q * n \in Nat
  BY SMT
<1> QED
  BY <1>1, <1>2

\* slot_starts begins at hour 0 or later.
LEMMA FirstSlotIsNat ==
    ASSUME NEW now \in Nat, NEW n \in SlotLens
    PROVE  FirstSlot(now, n) \in Nat
<1>1. n \in Nat \ {0} /\ Days \in Nat
  BY ArchiveAssumption DEF ArchiveAssumption
<1>2. CASE now <= Days
  BY <1>2 DEF FirstSlot
<1>3. CASE now > Days
  <2>1. now - Days + n - 1 \in Nat
    BY <1>1, <1>3
  <2>2. ((now - Days + n - 1) \div n) * n \in Nat
    BY <2>1, <1>1, RoundingIsNat
  <2> QED
    BY <2>2, <1>1, <1>3 DEF FirstSlot
<1> QED
  BY <1>1, <1>2, <1>3

\* A slot that is read or written ended before the run's `now` (slot_starts).
LEMMA HoursStep == HoursInv /\ LengthInv /\ [Next]_vars => HoursInv'
<1> SUFFICES ASSUME HoursInv, LengthInv, [Next]_vars PROVE HoursInv'
  OBVIOUS
<1> USE DEF HoursInv
<1>0. /\ \A n \in SlotLens : n \in Nat \ {0}
      /\ MaxClock \in Nat /\ StartLag \in Nat
  BY ArchiveAssumption DEF ArchiveAssumption
<1>1. CASE Tick
  BY <1>0, <1>1 DEF Tick, Times, run
<1>2. CASE \E r \in LateRows : Deliver(r)
  BY <1>0, <1>2 DEF Deliver, run
<1>3. ASSUME NEW lag \in 0..StartLag, NEW n \in SlotLens, lag <= clock,
             StartRun(clock - lag, n)
      PROVE  HoursInv'
  <2>1. clock - lag \in Nat /\ clock - lag <= clock
    BY <1>0, <1>3 DEF Times
  <2>2. FirstSlot(clock - lag, n) \in Nat
    BY <2>1, FirstSlotIsNat
  <2> QED
    BY <1>3, <2>1, <2>2 DEF StartRun, End, env
<1>4. CASE RunNext
  <2>1. CASE RecordLength
    BY <2>1 DEF RecordLength, env, run
  <2>2. CASE SkipSlot
    BY <1>0, <2>2 DEF SkipSlot, env
  <2>3. CASE BeginFetch
    BY <2>3 DEF BeginFetch, env, Ended
  <2>4. CASE FetchOk \/ RetryFetch
    BY <2>4 DEF FetchOk, RetryFetch, env
  <2>5. CASE FailFetch
    BY <1>0, <2>5 DEF FailFetch, env
  <2>6. CASE AuthFailure
    BY <2>6 DEF AuthFailure, env
  <2>7. CASE ReplaceFile
    BY <2>7 DEF ReplaceFile, env, run
  <2>8. CASE MarkFails \/ DiskFails \/ EndRun
    BY <2>8 DEF MarkFails, DiskFails, EndRun, End, env
  <2>9. CASE ClearStale
    BY <1>0, <2>9 DEF ClearStale, env
  <2>10. CASE EndOfSlots \/ PruneStale
    BY <2>10 DEF EndOfSlots, PruneStale, env, run
  <2>11. CASE \E s \in DOMAIN files : PruneFile(s)
    BY <2>11 DEF PruneFile, env, LengthInv, Times
  <2> QED
    BY <1>4, <2>1, <2>2, <2>3, <2>4, <2>5, <2>6, <2>7, <2>8, <2>9, <2>10, <2>11
    DEF RunNext
<1>5. CASE Crash
  BY <1>5 DEF Crash, End
<1>6. CASE UNCHANGED vars
  BY <1>6 DEF vars, env, run
<1> QED
  BY <1>1, <1>2, <1>3, <1>4, <1>5, <1>6 DEF Next

\* Every file operation of archive_tenant keeps SLOT_HOURS true of the files.
LEMMA LengthStep == HoursInv /\ LengthInv /\ [Next]_vars => LengthInv'
<1> SUFFICES ASSUME HoursInv, LengthInv, [Next]_vars PROVE LengthInv'
  OBVIOUS
<1> USE DEF LengthInv, Working
<1>0. len \in Nat \ {0} /\ MaxClock \in Nat /\ \A n \in SlotLens : n \in Nat \ {0}
  BY ArchiveAssumption DEF ArchiveAssumption, HoursInv
<1>1. CASE Tick
  BY <1>1 DEF Tick, disk, run, history
<1>2. CASE \E r \in LateRows : Deliver(r)
  BY <1>2 DEF Deliver, disk, run, history
<1>3. ASSUME NEW now, NEW n \in SlotLens, StartRun(now, n)
      PROVE  LengthInv'
  BY <1>0, <1>3 DEF StartRun, End, Accepts
<1>4. CASE RunNext
  <2>1. CASE RecordLength
    <3>1. recorded' = len /\ len' = len /\ pc' = "visit" /\ marker' = marker /\ marker
      BY <2>1 DEF RecordLength, run
    <3>2. files' = files /\ fileLen' = fileLen /\ DOMAIN files = {}
      BY <2>1 DEF RecordLength, history
    <3> QED
      BY <1>0, <3>1, <3>2
  <2>2. CASE SkipSlot \/ BeginFetch
    BY <2>2 DEF SkipSlot, BeginFetch, disk, history
  <2>3. CASE FetchOk \/ RetryFetch \/ AuthFailure
    BY <2>3 DEF FetchOk, RetryFetch, AuthFailure, disk, history
  <2>4. CASE FailFetch
    BY <2>4 DEF FailFetch, history
  <2>5. CASE ReplaceFile
    <3>1. slot \in Times /\ recorded # 0
      <4>1. slot \in Nat /\ slot + len <= runNow /\ runNow \in Nat /\ clock \in Nat
        BY <2>5 DEF ReplaceFile, HoursInv, Times
      <4>2. runNow <= clock /\ clock <= MaxClock
        BY <1>0 DEF HoursInv, Times
      <4>3. slot <= MaxClock
        BY <1>0, <4>1, <4>2
      <4>4. recorded = len
        BY <2>5 DEF ReplaceFile
      <4> QED
        BY <1>0, <4>1, <4>3, <4>4 DEF Times
    <3>2. DOMAIN files' = DOMAIN files \cup {slot}
      BY <2>5 DEF ReplaceFile
    <3>3. DOMAIN fileLen' = Times /\ fileLen'[slot] = recorded
      BY <2>5, <3>1 DEF ReplaceFile
    <3>4. \A s \in DOMAIN files : fileLen'[s] = recorded
      BY <2>5, <3>1 DEF ReplaceFile
    <3> QED
      BY <2>5, <3>1, <3>2, <3>3, <3>4 DEF ReplaceFile, run
  <2>6. CASE MarkFails \/ DiskFails \/ EndRun
    BY <2>6 DEF MarkFails, DiskFails, EndRun, End, disk
  <2>7. CASE ClearStale
    BY <2>7 DEF ClearStale, history
  <2>8. CASE EndOfSlots \/ PruneStale
    BY <2>8 DEF EndOfSlots, PruneStale, disk, run, history
  <2>9. ASSUME NEW s \in DOMAIN files, PruneFile(s) PROVE LengthInv'
    <3>1. DOMAIN files' \subseteq DOMAIN files
      BY <2>9 DEF PruneFile
    <3> QED
      BY <2>9, <3>1 DEF PruneFile, history
  <2> QED
    BY <1>4, <2>1, <2>2, <2>3, <2>4, <2>5, <2>6, <2>7, <2>8, <2>9 DEF RunNext
<1>5. CASE Crash
  BY <1>5 DEF Crash, End, disk
<1>6. CASE UNCHANGED vars
  BY <1>6 DEF vars, disk, run, history
<1> QED
  BY <1>1, <1>2, <1>3, <1>4, <1>5, <1>6 DEF Next

\* An empty directory has no length yet.
LEMMA InvInit == Init => IInv
BY ArchiveAssumption DEF ArchiveAssumption, Init, IInv, HoursInv, LengthInv, Working, Times

\* SLOT_HOURS does its work: whatever is killed, fails or is asked for, all files of an
\* archive have the same slot length (archive_tenant's marker, archive.py:128-136).
THEOREM LengthsNeverMix == Spec => []NoMixedLengths
<1>1. IInv /\ [Next]_vars => IInv'
  BY HoursStep, LengthStep DEF IInv
<1>2. IInv => NoMixedLengths
  BY DEF IInv, LengthInv, NoMixedLengths
<1> QED
  BY InvInit, <1>1, <1>2, PTL DEF Spec

-----------------------------------------------------------------------------
(***************************************************************************)
(* Files are whole, and nothing that was archived is lost.                 *)
(***************************************************************************)
\* What a walk brought, and what each file holds of one, is whole; a run began lately
\* and looks no further back than its window.
WholeInv ==
    /\ lastStart \in Nat /\ walkAt \in Nat /\ walkAt <= clock
    /\ delivered \in [LateRows -> Nat]
    /\ DOMAIN readAt = Times
    /\ \A s \in DOMAIN files : readAt[s] \in Nat /\ readAt[s] <= walkAt
    /\ pc # "idle" => lastStart <= runNow + StartLag /\ clock <= lastStart + RunTime
    /\ pc \in {"record", "visit", "fetch", "write", "unstale"} => runNow <= slot + Days
    /\ pc = "write" => slot + len <= walkAt /\ IsWhole(rows, slot, len, walkAt)
    /\ FilesAreWhole

\* slot_starts begins within the days asked for.
LEMMA WindowStarts ==
    ASSUME NEW now \in Nat, NEW n \in SlotLens
    PROVE  now <= FirstSlot(now, n) + Days
<1>1. n \in Nat \ {0} /\ Days \in Nat
  BY ArchiveAssumption DEF ArchiveAssumption
<1>2. CASE now <= Days
  BY <1>1, <1>2 DEF FirstSlot
<1>3. CASE now > Days
  <2> DEFINE x == now - Days + n - 1
             q == x \div n
  <2>1. x \in Nat
    BY <1>1, <1>3
  <2>2. \A y \in Nat, k \in Nat \ {0} : y \div k \in Nat /\ y < (y \div k) * k + k
    BY Z3
  <2>3. q \in Nat /\ x < q * n + n
    BY <1>1, <2>1, <2>2
  <2>4. q * n \in Nat
    BY <1>1, <2>1, RoundingIsNat
  <2>5. FirstSlot(now, n) = q * n
    BY <1>1, <1>3 DEF FirstSlot
  <2> HIDE DEF q
  <2>6. now - Days + n - 1 < q * n + n
    BY <2>3
  <2>7. QED
    BY <1>1, <2>4, <2>5, <2>6
<1> QED
  BY <1>1, <1>2, <1>3

\* The walk of a slot of the window misses nothing that was delivered and is not at the
\* edge of the retention.
LEMMA WalkIsComplete ==
    ASSUME HoursInv, LengthInv, WholeInv, pc = "fetch"
    PROVE  IsWhole(Walk(slot, len, clock), slot, len, clock)
<1>0. /\ len \in Nat /\ Days \in Nat /\ StartLag \in Nat /\ RunTime \in Nat /\ Retention \in Nat
      /\ clock \in Nat /\ runNow \in Nat /\ slot \in Nat /\ lastStart \in Nat
      /\ MaxClock \in Nat
  BY ArchiveAssumption DEF ArchiveAssumption, HoursInv, WholeInv, Times
<1>1. slot + len <= clock /\ clock <= slot + Days + StartLag + RunTime
  <2>1. /\ slot + len <= runNow /\ runNow <= clock /\ runNow <= slot + Days
        /\ lastStart <= runNow + StartLag /\ clock <= lastStart + RunTime
    BY DEF HoursInv, WholeInv
  <2>2. QED
    BY <1>0, <2>1
<1>2. Walk(slot, len, clock) \subseteq Complete(slot, len, clock)
  BY DEF Walk, Complete, Shown
<1>3. ASSUME NEW r \in Complete(slot, len, clock), r \notin Walk(slot, len, clock)
      PROVE  AtEdge(r, slot) /\ r + Retention < clock
  <2>1. r \in Nat /\ slot <= r /\ r < slot + len
    BY <1>0, <1>3 DEF Complete, RowsOf, Times
  <2>2. r < clock
    BY <1>0, <1>1, <2>1
  <2>3. ~(clock <= r + Retention)
    BY <1>3, <2>2 DEF Complete, Walk, Shown
  <2>4. QED
    BY <1>0, <1>1, <2>1, <2>3 DEF AtEdge
<1>4. QED
  BY <1>2, <1>3 DEF IsWhole

\* A row Graph delivers now was not delivered at any time a walk was made.
LEMMA LateDelivery ==
    ASSUME HoursInv, WholeInv, NEW r \in LateRows, Deliver(r), NEW t \in Nat, t <= clock,
           NEW s \in Nat, NEW n \in Nat
    PROVE  {q \in RowsOf(s, n) : DeliveredAt(q)' < t} = Complete(s, n, t)
<1>1. /\ clock \in Nat /\ MaxClock \in Nat /\ clock <= MaxClock
      /\ delivered \in [LateRows -> Nat]
      /\ delivered[r] > MaxClock
      /\ delivered' = [delivered EXCEPT ![r] = clock]
  BY ArchiveAssumption DEF ArchiveAssumption, HoursInv, WholeInv, Times, Deliver
<1>2. ASSUME NEW q
      PROVE  DeliveredAt(q)' < t <=> DeliveredAt(q) < t
  <2>1. CASE q = r
    <3>1. DeliveredAt(q)' = clock /\ DeliveredAt(q) = delivered[r]
      BY <1>1, <2>1 DEF DeliveredAt
    <3>2. delivered[r] \in Nat
      BY <1>1
    <3>3. QED
      BY <1>1, <3>1, <3>2
  <2>2. CASE q # r
    BY <1>1, <2>2 DEF DeliveredAt
  <2>3. QED
    BY <2>1, <2>2
<1>3. QED
  BY <1>2 DEF Complete

\* Every step keeps the files whole.
LEMMA WholeStep ==
    ASSUME HoursInv, LengthInv, WholeInv, HoursInv', LengthInv', [Next]_vars
    PROVE  WholeInv'
<1>0. /\ \A n \in SlotLens : n \in Nat \ {0}
      /\ len \in SlotLens /\ StartLag \in Nat /\ RunTime \in Nat /\ Days \in Nat /\ MaxClock \in Nat
      /\ clock \in Nat /\ clock' \in Nat /\ runNow \in Nat /\ slot \in Nat /\ slot' \in Nat
      /\ DOMAIN files \subseteq Times /\ Times \subseteq Nat
  BY ArchiveAssumption DEF ArchiveAssumption, HoursInv, LengthInv, Times
<1>1. ASSUME UNCHANGED <<clock, delivered, disk, lastStart, walkAt, readAt, fileLen, runNow, len>>,
             pc # "idle" \/ pc' = "idle",
             pc' # "write" \/ UNCHANGED <<pc, slot, rows>>,
             pc' \in {"record", "visit", "fetch", "write", "unstale"} => runNow <= slot' + Days
      PROVE  WholeInv'
  BY <1>1 DEF WholeInv, FilesAreWhole, IsWhole, Complete, RowsOf, DeliveredAt, disk
<1>2. CASE Tick
  BY <1>0, <1>2 DEF Tick, WholeInv, FilesAreWhole, IsWhole, Complete, RowsOf, DeliveredAt, disk, run, history
<1>3. ASSUME NEW r \in LateRows, Deliver(r) PROVE WholeInv'
  <2>1. UNCHANGED <<clock, disk, pc, run, history>>
    BY <1>3 DEF Deliver
  <2>2. delivered' \in [LateRows -> Nat]
    BY <1>0, <1>3 DEF Deliver, WholeInv
  <2>3. FilesAreWhole'
    <3>1. SUFFICES ASSUME NEW s \in DOMAIN files
                   PROVE  /\ s + fileLen[s] <= readAt[s]
                          /\ IsWhole(files[s], s, fileLen[s], readAt[s])'
      BY <2>1 DEF FilesAreWhole, disk, history
    <3>2. s \in Nat /\ fileLen[s] \in Nat /\ readAt[s] \in Nat /\ readAt[s] <= clock
      <4>1. s \in Nat /\ fileLen[s] \in Nat
        BY <1>0 DEF LengthInv
      <4>2. readAt[s] \in Nat /\ readAt[s] <= walkAt /\ walkAt \in Nat /\ walkAt <= clock
        BY DEF WholeInv
      <4>3. QED
        BY <1>0, <4>1, <4>2
    <3>3. Complete(s, fileLen[s], readAt[s])' = Complete(s, fileLen[s], readAt[s])
      <4>1. {q \in RowsOf(s, fileLen[s]) : DeliveredAt(q)' < readAt[s]}
               = Complete(s, fileLen[s], readAt[s])
        BY <1>3, <3>2, LateDelivery
      <4>2. QED
        BY <2>1, <4>1 DEF Complete, RowsOf, history
    <3>4. QED
      BY <2>1, <3>3 DEF WholeInv, FilesAreWhole, IsWhole, disk, history
  <2>4. pc = "write" => Complete(slot, len, walkAt)' = Complete(slot, len, walkAt)
    <3>1. walkAt \in Nat /\ walkAt <= clock /\ len \in Nat
      BY <1>0 DEF WholeInv
    <3>2. {q \in RowsOf(slot, len) : DeliveredAt(q)' < walkAt} = Complete(slot, len, walkAt)
      BY <1>0, <1>3, <3>1, LateDelivery
    <3>3. QED
      BY <2>1, <3>2 DEF Complete, RowsOf, run, history
  <2>5. pc' = "write" => IsWhole(rows, slot, len, walkAt)'
    BY <2>1, <2>4 DEF WholeInv, IsWhole, run, history
  <2>6. QED
    BY <2>1, <2>2, <2>3, <2>5 DEF WholeInv, disk, run, history
<1>4. ASSUME NEW lag \in 0..StartLag, NEW n \in SlotLens, lag <= clock,
             StartRun(clock - lag, n)
      PROVE  WholeInv'
  <2>1. clock - lag \in Nat
    BY <1>0, <1>4
  <2>2. clock - lag <= FirstSlot(clock - lag, n) + Days
    BY <2>1, WindowStarts
  <2>3. /\ UNCHANGED <<clock, delivered, files, walkAt, readAt, fileLen>>
        /\ runNow' = clock - lag /\ lastStart' = clock
        /\ pc' \in {"idle", "record", "visit"}
        /\ pc' # "idle" => slot' = FirstSlot(clock - lag, n)
    BY <1>4 DEF StartRun, End, env
  <2>4. clock <= (clock - lag) + StartLag /\ clock <= clock + RunTime
    BY <1>0, <1>4, <2>1
  <2>5. FilesAreWhole'
    BY <2>3 DEF WholeInv, FilesAreWhole, IsWhole, Complete, RowsOf, DeliveredAt
  <2>6. /\ pc' # "idle" => lastStart' <= runNow' + StartLag /\ clock' <= lastStart' + RunTime
        /\ pc' \in {"record", "visit", "fetch", "write", "unstale"} => runNow' <= slot' + Days
    BY <2>2, <2>3, <2>4
  <2>7. QED
    BY <1>0, <2>3, <2>5, <2>6 DEF WholeInv
<1>5. CASE RecordLength
  BY <1>5 DEF RecordLength, WholeInv, FilesAreWhole, IsWhole, Complete, RowsOf, DeliveredAt, env, run, history
<1>6. CASE SkipSlot
  <2>1. runNow <= slot + len + Days
    BY <1>0, <1>6 DEF SkipSlot, WholeInv
  <2>2. QED
    BY <1>1, <1>6, <2>1 DEF SkipSlot, env, history
<1>7. CASE BeginFetch
  BY <1>1, <1>7 DEF BeginFetch, env, history, WholeInv
<1>8. CASE FetchOk
  <2>1. /\ UNCHANGED <<clock, delivered, files, lastStart, readAt, fileLen, runNow, len, slot>>
        /\ pc = "fetch" /\ pc' = "write" /\ walkAt' = clock
        /\ IsWhole(rows', slot, len, clock)
    BY <1>8, WalkIsComplete DEF FetchOk, env, disk
  <2>2. slot + len <= clock
    BY <1>0, <2>1 DEF HoursInv
  <2>3. \A s \in DOMAIN files : readAt[s] \in Nat /\ readAt[s] <= clock
    BY <1>0 DEF WholeInv
  <2>4. IsWhole(rows, slot, len, walkAt)'
    BY <2>1 DEF IsWhole, Complete, RowsOf, DeliveredAt
  <2>5. FilesAreWhole'
    BY <2>1 DEF WholeInv, FilesAreWhole, IsWhole, Complete, RowsOf, DeliveredAt
  <2>6. QED
    BY <1>0, <2>1, <2>2, <2>3, <2>4, <2>5 DEF WholeInv
<1>9. CASE RetryFetch
  BY <1>1, <1>9 DEF RetryFetch, env, history, WholeInv
<1>10. CASE FailFetch
  <2>1. runNow <= slot + len + Days
    BY <1>0, <1>10 DEF FailFetch, WholeInv
  <2>2. QED
    BY <1>10, <2>1 DEF FailFetch, WholeInv, FilesAreWhole, IsWhole, Complete, RowsOf, DeliveredAt, env, history
<1>11. CASE AuthFailure
  BY <1>1, <1>11 DEF AuthFailure, env, history
<1>12. CASE ReplaceFile
  <2>1. /\ UNCHANGED <<clock, delivered, lastStart, walkAt, runNow, len, slot>>
        /\ pc = "write" /\ pc' = "unstale"
        /\ files' = [s \in DOMAIN files \cup {slot} |-> IF s = slot THEN rows ELSE files[s]]
        /\ fileLen' = [fileLen EXCEPT ![slot] = len]
        /\ readAt' = [readAt EXCEPT ![slot] = walkAt]
    BY <1>12 DEF ReplaceFile, env, run
  <2>2. slot \in Times
    <3>1. DOMAIN files' = DOMAIN files \cup {slot}
      BY <2>1
    <3>2. QED
      BY <3>1 DEF LengthInv
  <2>3. readAt'[slot] = walkAt /\ fileLen'[slot] = len /\ DOMAIN readAt' = Times
    BY <2>1, <2>2 DEF WholeInv, LengthInv
  <2>4. \A s \in DOMAIN files \ {slot} :
           readAt'[s] = readAt[s] /\ fileLen'[s] = fileLen[s] /\ files'[s] = files[s]
    BY <1>0, <2>1 DEF WholeInv, LengthInv
  <2>5. FilesAreWhole'
    <3>1. SUFFICES ASSUME NEW s \in DOMAIN files \cup {slot}
                   PROVE  /\ s + fileLen'[s] <= readAt'[s]
                          /\ IsWhole(files'[s], s, fileLen'[s], readAt'[s])
      BY <2>1 DEF FilesAreWhole, IsWhole, Complete, RowsOf, DeliveredAt
    <3>2. CASE s = slot
      BY <2>1, <2>3, <3>2 DEF WholeInv
    <3>3. CASE s # slot
      BY <2>4, <3>3 DEF WholeInv, FilesAreWhole
    <3>4. QED
      BY <3>2, <3>3
  <2>6. \A s \in DOMAIN files' : readAt'[s] \in Nat /\ readAt'[s] <= walkAt'
    BY <2>1, <2>3, <2>4 DEF WholeInv
  <2>7. QED
    BY <2>1, <2>3, <2>5, <2>6 DEF WholeInv
<1>13. CASE MarkFails \/ DiskFails \/ EndRun \/ Crash
  <2>1. /\ UNCHANGED <<clock, delivered, disk, lastStart, walkAt, readAt, fileLen, runNow, len>>
        /\ pc' = "idle"
    BY <1>13 DEF MarkFails, DiskFails, EndRun, Crash, End, env
  <2>2. QED
    BY <1>1, <2>1
<1>14. CASE ClearStale
  <2>1. runNow <= slot + len + Days
    BY <1>0, <1>14 DEF ClearStale, WholeInv
  <2>2. QED
    BY <1>14, <2>1 DEF ClearStale, WholeInv, FilesAreWhole, IsWhole, Complete, RowsOf, DeliveredAt, env, history
<1>15. CASE EndOfSlots
  BY <1>1, <1>15 DEF EndOfSlots, env, run, history
<1>16. ASSUME NEW s \in DOMAIN files, PruneFile(s) PROVE WholeInv'
  <2>1. /\ UNCHANGED <<clock, delivered, lastStart, walkAt, readAt, fileLen, runNow, len>>
        /\ pc = "prune" /\ pc' = "prunestale"
        /\ files' = [t \in DOMAIN files \ {s} |-> files[t]]
    BY <1>16 DEF PruneFile, env, history
  <2>2. \A t \in DOMAIN files' : t \in DOMAIN files /\ files'[t] = files[t]
    BY <2>1
  <2>3. FilesAreWhole'
    BY <2>1, <2>2 DEF WholeInv, FilesAreWhole, IsWhole, Complete, RowsOf, DeliveredAt
  <2>4. QED
    BY <2>1, <2>2, <2>3 DEF WholeInv
<1>17. CASE PruneStale
  BY <1>17 DEF PruneStale, WholeInv, FilesAreWhole, IsWhole, Complete, RowsOf, DeliveredAt, env, run, history
<1>18. CASE UNCHANGED vars
  BY <1>18 DEF vars, env, disk, run, history, WholeInv, FilesAreWhole, IsWhole, Complete, RowsOf,
             DeliveredAt
<1> QED
  BY <1>2, <1>3, <1>4, <1>5, <1>6, <1>7, <1>8, <1>9, <1>10, <1>11, <1>12, <1>13, <1>14, <1>15,
     <1>16, <1>17, <1>18 DEF Next, RunNext

\* The two invariants before hold together with this one.
LEMMA ArchiveHolds == Spec => [](IInv /\ WholeInv)
<1>1. Init => WholeInv
  BY ArchiveAssumption DEF ArchiveAssumption, Init, WholeInv, FilesAreWhole, Times
<1>2. IInv /\ WholeInv /\ [Next]_vars => IInv' /\ WholeInv'
  BY HoursStep, LengthStep, WholeStep DEF IInv
<1> QED
  BY InvInit, <1>1, <1>2, PTL DEF Spec

\* A file that exists is a complete walk of an ended slot, whatever was killed, failed or
\* delivered late: what it lacks of it Graph had purged, at the edge of the retention.
THEOREM FilesAreAlwaysWhole == Spec => []FilesAreWhole
<1>1. IInv /\ WholeInv => FilesAreWhole
  BY DEF WholeInv
<1> QED
  BY <1>1, ArchiveHolds, PTL

\* No step of a run takes back a row of a slot younger than keep_days.
LEMMA RowsStayStep ==
    ASSUME IInv, WholeInv, [Next]_vars
    PROVE  [\A s \in DOMAIN files :
              \/ /\ s \in DOMAIN files'
                 /\ \A r \in files[s] \ files'[s] : AtEdge(r, s) /\ r + Retention < clock
              \/ Keep > 0 /\ s + Keep < clock]_vars
<1>1. CASE files' = files
  BY <1>1
<1>2. CASE ReplaceFile
  <2>1. /\ pc = "write"
        /\ files' = [s \in DOMAIN files \cup {slot} |-> IF s = slot THEN rows ELSE files[s]]
    BY <1>2 DEF ReplaceFile
  <2>2. ASSUME slot \in DOMAIN files, NEW r \in files[slot] \ rows
        PROVE  AtEdge(r, slot) /\ r + Retention < clock
    <3>1. /\ files[slot] \subseteq Complete(slot, len, readAt[slot])
          /\ \A q \in Complete(slot, len, walkAt) \ rows : AtEdge(q, slot) /\ q + Retention < walkAt
      BY <2>1, <2>2 DEF IInv, LengthInv, Working, WholeInv, FilesAreWhole, IsWhole
    <3>2. /\ readAt[slot] \in Nat /\ walkAt \in Nat /\ readAt[slot] <= walkAt /\ walkAt <= clock
          /\ clock \in Nat /\ Retention \in Nat
          /\ \A q \in RowsOf(slot, len) : q \in Nat /\ DeliveredAt(q) \in Nat
      BY <2>2, ArchiveAssumption
         DEF ArchiveAssumption, IInv, HoursInv, WholeInv, RowsOf, DeliveredAt, Times
    <3>3. r \in Nat /\ r \in Complete(slot, len, walkAt)
      BY <2>2, <3>1, <3>2 DEF Complete
    <3>4. QED
      BY <2>2, <3>1, <3>2, <3>3
  <2>3. QED
    BY <2>1, <2>2
<1>3. ASSUME NEW s \in DOMAIN files, PruneFile(s)
      PROVE  \A t \in DOMAIN files :
                \/ /\ t \in DOMAIN files'
                   /\ \A r \in files[t] \ files'[t] : AtEdge(r, t) /\ r + Retention < clock
                \/ Keep > 0 /\ t + Keep < clock
  <2>1. Keep > 0 /\ s + Keep < runNow /\ files' = [t \in DOMAIN files \ {s} |-> files[t]]
    BY <1>3 DEF PruneFile, Prunable
  <2>2. s + Keep < clock
    BY <2>1, ArchiveAssumption DEF ArchiveAssumption, IInv, HoursInv, LengthInv, Times
  <2>3. QED
    BY <2>1, <2>2
<1> QED
  BY <1>1, <1>2, <1>3
     DEF Next, RunNext, Tick, Deliver, StartRun, RecordLength, SkipSlot, BeginFetch, FetchOk,
         RetryFetch, FailFetch, MarkFails, AuthFailure, DiskFails, ClearStale, EndOfSlots, PruneStale,
         EndRun, Crash, disk, vars

\* Archived rows survive re-reads, failures, kills and other runs until keep_days is over.
THEOREM ArchivedRowsAlwaysStay == Spec => ArchivedRowsStay
  BY ArchiveHolds, RowsStayStep, PTL DEF Spec, ArchivedRowsStay

-----------------------------------------------------------------------------
(***************************************************************************)
(* A run visits every slot of its window.                                  *)
(***************************************************************************)
\* What \div and % have to do with each other.
LEMMA Division ==
    \A y \in Nat, k \in Nat \ {0} :
        /\ y \div k \in Nat
        /\ (y \div k) * k <= y /\ y < (y \div k) * k + k
        /\ y % k = 0 => y = (y \div k) * k
<1>1. \A y \in Nat, k \in Nat \ {0} : y \div k \in Nat /\ y < (y \div k) * k + k
  BY Z3
<1>2. \A y \in Nat, k \in Nat \ {0} : (y \div k) * k <= y
  BY Z3
<1>3. \A y \in Nat, k \in Nat \ {0} : y % k = 0 => y = (y \div k) * k
  BY Z3
<1>4. QED
  BY <1>1, <1>2, <1>3

LEMMA MultipleHasNoRest ==
    ASSUME NEW q \in Nat, NEW n \in Nat \ {0}
    PROVE  q * n \in Nat /\ (q * n) % n = 0
<1>1. (q * n) % n = 0
  BY Z3
<1>2. QED
  BY <1>1

LEMMA MultiplesApart ==
    ASSUME NEW p \in Nat, NEW q \in Nat, NEW n \in Nat, p * n < q * n
    PROVE  p * n + n <= q * n
<1>1. p < q
  BY Z3
<1>2. p + 1 <= q
  BY <1>1
<1>3. (p + 1) * n <= q * n
  BY <1>2, Z3
<1>4. QED
  BY <1>3, Z3

\* Slots are a slot length apart.
LEMMA SlotsApart ==
    ASSUME NEW s \in Nat, NEW t \in Nat, NEW n \in Nat \ {0}, s % n = 0, t % n = 0
    PROVE  /\ s < t => s + n <= t
           /\ (s + n) % n = 0
<1> DEFINE p == s \div n
           q == t \div n
<1>1. p \in Nat /\ q \in Nat /\ s = p * n /\ t = q * n
  BY Division
<1> HIDE DEF p, q
<1>2. s < t => s + n <= t
  BY <1>1, MultiplesApart
<1>3. s + n = (p + 1) * n
  BY <1>1, Z3
<1>4. p + 1 \in Nat
  BY <1>1
<1>5. ((p + 1) * n) % n = 0
  BY <1>4, MultipleHasNoRest
<1>6. QED
  BY <1>2, <1>3, <1>5

\* slot_starts begins at a slot boundary.
LEMMA FirstSlotIsAligned ==
    ASSUME NEW now \in Nat, NEW n \in SlotLens
    PROVE  FirstSlot(now, n) % n = 0
<1>1. n \in Nat \ {0} /\ Days \in Nat
  BY ArchiveAssumption DEF ArchiveAssumption
<1>2. CASE now <= Days
  <2>1. FirstSlot(now, n) = 0 * n
    BY <1>1, <1>2 DEF FirstSlot
  <2>2. (0 * n) % n = 0
    BY <1>1, MultipleHasNoRest
  <2>3. QED
    BY <2>1, <2>2
<1>3. CASE now > Days
  <2> DEFINE q == (now - Days + n - 1) \div n
  <2>1. now - Days + n - 1 \in Nat
    BY <1>1, <1>3
  <2>2. q \in Nat
    BY <1>1, <2>1, Division
  <2>3. FirstSlot(now, n) = q * n
    BY <1>1, <1>3 DEF FirstSlot
  <2>4. (q * n) % n = 0
    BY <1>1, <2>2, MultipleHasNoRest
  <2>5. QED
    BY <2>3, <2>4
<1>4. QED
  BY <1>1, <1>2, <1>3

\* The window of a later run begins no earlier.
LEMMA FirstSlotGrows ==
    ASSUME NEW now \in Nat, NEW later \in Nat, now <= later, NEW n \in SlotLens
    PROVE  FirstSlot(now, n) <= FirstSlot(later, n)
<1>1. n \in Nat \ {0} /\ Days \in Nat
  BY ArchiveAssumption DEF ArchiveAssumption
<1>2. CASE now <= Days
  <2>1. FirstSlot(now, n) = 0 /\ FirstSlot(later, n) \in Nat
    BY <1>1, <1>2, FirstSlotIsNat DEF FirstSlot
  <2>2. QED
    BY <2>1
<1>3. CASE now > Days
  <2> DEFINE x == now - Days + n - 1
             y == later - Days + n - 1
             p == x \div n
             q == y \div n
  <2>1. x \in Nat /\ y \in Nat /\ x <= y /\ later > Days
    BY <1>1, <1>3
  <2>2. p \in Nat /\ q \in Nat /\ p * n <= x /\ y < q * n + n
    BY <1>1, <2>1, Division
  <2>3. FirstSlot(now, n) = p * n /\ FirstSlot(later, n) = q * n
    BY <1>1, <1>3, <2>1 DEF FirstSlot
  <2> HIDE DEF p, q
  <2>4. p * n \in Nat /\ q * n \in Nat
    BY <1>1, <2>2, MultipleHasNoRest
  <2>5. ~(q * n < p * n)
    <3>1. SUFFICES ASSUME q * n < p * n
                   PROVE  FALSE
      OBVIOUS
    <3>2. q * n + n <= p * n
      BY <1>1, <2>2, <3>1, MultiplesApart
    <3>3. QED
      BY <1>1, <2>1, <2>2, <2>4, <3>2
  <2>6. QED
    BY <2>3, <2>4, <2>5
<1>4. QED
  BY <1>1, <1>2, <1>3

Visiting == {"record", "visit", "fetch", "write", "unstale"}

\* The run is done with the slot: it failed, or it has a good file, read by this run if
\* Graph may still add to it.
Handled(s) ==
    \/ s \in failed
    \/ /\ s \in DOMAIN files /\ s \notin stale
       /\ s + len + Refetch > runNow => lastStart <= readAt[s]

\* A run goes from slot to slot and leaves none behind, unless the credential stops it.
VisitInv ==
    /\ lastStart \in Nat /\ lastStart <= clock /\ runNow <= lastStart
    /\ walkAt \in Nat /\ DOMAIN readAt = Times /\ error \in BOOLEAN
    /\ \A s \in Times : readAt[s] \in Nat
    /\ failed \subseteq Window
    /\ pc \in Visiting => slot % len = 0 /\ FirstSlot(runNow, len) <= slot
    /\ pc \in {"fetch", "write", "unstale"} => attempt \in 1..Attempts
    /\ pc = "write" => lastStart <= walkAt
    /\ pc = "unstale" => slot \in DOMAIN files /\ lastStart <= readAt[slot]
    /\ pc \in Visiting => \A s \in Window : s < slot => Handled(s)
    /\ pc \in {"prune", "prunestale"} => error \/ \A s \in Window : Handled(s)
    /\ CleanRunIsComplete

\* What the constants are.
LEMMA Counts ==
    /\ Days \in Nat /\ Refetch \in Nat /\ Keep \in Nat /\ Gap \in Nat /\ RunTime \in Nat
    /\ StartLag \in Nat /\ Retention \in Nat /\ MaxClock \in Nat /\ Crashes \in Nat
    /\ Keep > 0 => Keep > Days
    /\ \A n \in SlotLens : n \in Nat \ {0}
  BY ArchiveAssumption DEF ArchiveAssumption

\* The slot at hand is one of the window.
LEMMA SlotInWindow ==
    ASSUME HoursInv, VisitInv, pc \in {"fetch", "write", "unstale"}
    PROVE  slot \in Window /\ slot \in Times
<1>1. slot \in Nat /\ slot + len <= runNow /\ runNow <= clock /\ clock \in 0..MaxClock
      /\ len \in Nat /\ runNow \in Nat
  BY Counts DEF HoursInv, Times
<1>2. slot \in Times
  BY <1>1, Counts DEF Times
<1>3. slot % len = 0 /\ FirstSlot(runNow, len) <= slot /\ FirstSlot(runNow, len) \in Nat
  BY FirstSlotIsNat DEF VisitInv, Visiting, HoursInv
<1>4. QED
  BY <1>1, <1>2, <1>3 DEF Window

\* Slots of the window before the next one are before this one, or this one.
LEMMA NextSlot ==
    ASSUME HoursInv, NEW s \in Window, slot % len = 0, s < slot + len
    PROVE  s < slot \/ s = slot
<1>1. slot \in Nat /\ len \in Nat \ {0} /\ s \in Nat /\ s % len = 0
  BY Counts DEF HoursInv, Window, Times
<1>2. slot < s => slot + len <= s
  BY <1>1, SlotsApart
<1>3. QED
  BY <1>1, <1>2

\* A file that is pruned is older than the window.
LEMMA PrunedIsOutside ==
    ASSUME HoursInv, NEW s \in Nat, Keep > 0, s + Keep < runNow, NEW t \in Window
    PROVE  s # t
<1>1. runNow <= FirstSlot(runNow, len) + Days /\ FirstSlot(runNow, len) <= t
      /\ FirstSlot(runNow, len) \in Nat /\ t \in Nat
  BY WindowStarts, FirstSlotIsNat DEF HoursInv, Window, Times
<1>2. Days < Keep /\ Days \in Nat /\ Keep \in Nat /\ runNow \in Nat
  BY Counts DEF HoursInv
<1>3. QED
  BY <1>1, <1>2

\* Every step of the run leaves behind it only what it has handled.
LEMMA VisitStep ==
    ASSUME HoursInv, LengthInv, VisitInv, HoursInv', [Next]_vars
    PROVE  VisitInv'
<1> USE DEF Visiting
<1>0. /\ clock \in Nat /\ runNow \in Nat /\ slot \in Nat /\ len \in Nat \ {0} /\ len \in SlotLens
      /\ DOMAIN files \subseteq Times /\ Times \subseteq Nat
      /\ lastStart \in Nat /\ lastStart <= clock
  BY Counts DEF HoursInv, LengthInv, VisitInv, Times
<1>a. ASSUME runNow' = runNow, len' = len
      PROVE  Window' = Window
  BY <1>a DEF Window
<1>b. ASSUME UNCHANGED <<disk, runNow, len, slot, failed, error, lastStart, readAt, walkAt, attempt>>,
             NEW s, Handled(s)
      PROVE  Handled(s)'
  BY <1>b DEF Handled, disk
<1>1. ASSUME Tick \/ \E r \in LateRows : Deliver(r)
      PROVE  VisitInv'
  <2>1. /\ UNCHANGED <<disk, pc, run, history>> /\ clock <= clock' /\ clock' \in Nat
    BY <1>0, <1>1 DEF Tick, Deliver, env
  <2>2. Window' = Window
    BY <2>1, <1>a DEF run
  <2>3. QED
    BY <1>0, <2>1, <2>2 DEF VisitInv, Handled, CleanRunIsComplete, disk, run, history
<1>2. ASSUME NEW lag \in 0..StartLag, NEW n \in SlotLens, lag <= clock,
             StartRun(clock - lag, n)
      PROVE  VisitInv'
  <2>1. /\ runNow' = clock - lag /\ len' = n /\ lastStart' = clock /\ failed' = {} /\ error' = FALSE
        /\ clock' = clock /\ walkAt' = walkAt /\ readAt' = readAt
        /\ runNow' \in Nat /\ runNow' <= clock
    BY <1>0, <1>2, Counts DEF StartRun, env
  <2>a. /\ lastStart' \in Nat /\ lastStart' <= clock' /\ runNow' <= lastStart'
        /\ walkAt' \in Nat /\ DOMAIN readAt' = Times /\ error' \in BOOLEAN
        /\ (\A s \in Times : readAt'[s] \in Nat) /\ failed' \subseteq Window'
    <3>1. lastStart' \in Nat /\ lastStart' <= clock' /\ runNow' <= lastStart'
      BY <1>0, <2>1
    <3>2. walkAt' \in Nat /\ DOMAIN readAt' = Times
      BY <2>1 DEF VisitInv
    <3>3. \A s \in Times : readAt'[s] \in Nat
      BY <2>1 DEF VisitInv
    <3>4. error' \in BOOLEAN /\ failed' \subseteq Window'
      BY <2>1
    <3>5. QED
      BY <3>1, <3>2, <3>3, <3>4
  <2>2. FirstSlot(runNow', n) \in Nat /\ FirstSlot(runNow', n) % n = 0
    BY <2>1, FirstSlotIsNat, FirstSlotIsAligned
  <2>3. CASE pc' \in {"record", "visit"} /\ slot' = FirstSlot(runNow', n)
    <3>1. \A s \in Window' : ~(s < slot')
      BY <1>0, <2>1, <2>2, <2>3 DEF Window, Times
    <3>2. QED
      BY <2>a, <2>1, <2>2, <2>3, <3>1 DEF VisitInv, CleanRunIsComplete
  <2>4. CASE pc' = "idle" /\ lastEnd' \in {"refused", "broken"}
    BY <2>a, <2>4 DEF VisitInv, CleanRunIsComplete
  <2>5. QED
    BY <1>2, <2>1, <2>3, <2>4 DEF StartRun, End
<1>3. CASE RecordLength
  <2>1. UNCHANGED <<clock, files, stale, run, history>> /\ pc = "record" /\ pc' = "visit"
    BY <1>3 DEF RecordLength, env
  <2>2. Window' = Window
    BY <2>1, <1>a DEF run
  <2>3. QED
    BY <1>0, <2>1, <2>2 DEF VisitInv, Handled, CleanRunIsComplete, run, history
<1>4. CASE SkipSlot
  <2>1. /\ UNCHANGED <<clock, files, stale, runNow, len, failed, error, history>>
        /\ pc = "visit" /\ pc' = "visit" /\ slot' = slot + len /\ UpToDate(slot)
    BY <1>4 DEF SkipSlot, env, disk
  <2>2. Window' = Window
    BY <2>1, <1>a
  <2>3. slot' % len = 0 /\ FirstSlot(runNow, len) <= slot'
    <3>1. slot % len = 0 /\ FirstSlot(runNow, len) <= slot /\ FirstSlot(runNow, len) \in Nat
      BY <1>0, <2>1, FirstSlotIsNat DEF VisitInv
    <3>2. QED
      BY <1>0, <2>1, <3>1, SlotsApart
  <2>4. ASSUME NEW s \in Window, s < slot'
        PROVE  Handled(s)
    <3>1. s < slot \/ s = slot
      BY <1>0, <2>1, <2>4, NextSlot DEF VisitInv
    <3>2. Handled(slot)
      BY <1>0, <2>1, Counts DEF UpToDate, Handled
    <3>3. QED
      BY <2>1, <3>1, <3>2 DEF VisitInv
  <2>5. QED
    BY <1>0, <2>1, <2>2, <2>3, <2>4 DEF VisitInv, Handled, CleanRunIsComplete, history
<1>5. CASE BeginFetch \/ RetryFetch
  <2>1. /\ UNCHANGED <<clock, files, stale, runNow, len, slot, failed, error, history>>
        /\ pc \in {"visit", "fetch"} /\ pc' = "fetch" /\ attempt' \in 1..Attempts
    BY <1>5 DEF BeginFetch, RetryFetch, env, disk, VisitInv, Attempts
  <2>2. Window' = Window
    BY <2>1, <1>a
  <2>3. QED
    BY <1>0, <2>1, <2>2 DEF VisitInv, Handled, CleanRunIsComplete, history
<1>6. CASE FetchOk
  <2>1. /\ UNCHANGED <<clock, files, stale, runNow, len, slot, attempt, failed, error,
                       lastStart, lastEnd, readAt>>
        /\ pc = "fetch" /\ pc' = "write" /\ walkAt' = clock
    BY <1>6 DEF FetchOk, env, disk
  <2>2. Window' = Window
    BY <2>1, <1>a
  <2>3. QED
    BY <1>0, <2>1, <2>2 DEF VisitInv, Handled, CleanRunIsComplete
<1>7. CASE FailFetch
  <2>1. /\ UNCHANGED <<clock, files, runNow, len, error, history>>
        /\ pc = "fetch" /\ pc' = "visit" /\ slot' = slot + len
        /\ failed' = failed \cup {slot} /\ stale' = StaleAfterFailure(slot)
    BY <1>7 DEF FailFetch, env
  <2>2. Window' = Window
    BY <2>1, <1>a
  <2>3. slot \in Window
    BY <2>1, SlotInWindow
  <2>4. slot' % len = 0 /\ FirstSlot(runNow, len) <= slot'
    <3>1. slot % len = 0 /\ FirstSlot(runNow, len) <= slot /\ FirstSlot(runNow, len) \in Nat
      BY <1>0, <2>1, FirstSlotIsNat DEF VisitInv
    <3>2. QED
      BY <1>0, <2>1, <3>1, SlotsApart
  <2>5. ASSUME NEW s \in Window, s < slot'
        PROVE  Handled(s)'
    <3>1. s < slot \/ s = slot
      BY <1>0, <2>1, <2>5, NextSlot DEF VisitInv
    <3>2. s = slot => s \in failed'
      BY <2>1
    <3>3. ASSUME s # slot, Handled(s)
          PROVE  Handled(s)'
      BY <2>1, <3>3 DEF Handled, StaleAfterFailure, history
    <3>4. QED
      BY <1>0, <2>1, <3>1, <3>2, <3>3 DEF VisitInv, Handled
  <2>6. QED
    BY <1>0, <2>1, <2>2, <2>3, <2>4, <2>5 DEF VisitInv, CleanRunIsComplete, history
<1>8. CASE AuthFailure
  <2>1. /\ UNCHANGED <<clock, files, stale, runNow, len, slot, attempt, history>>
        /\ pc = "fetch" /\ pc' = "prune" /\ error' = TRUE /\ failed' = failed \cup {slot}
    BY <1>8 DEF AuthFailure, env, disk
  <2>2. Window' = Window
    BY <2>1, <1>a
  <2>3. slot \in Window
    BY <2>1, SlotInWindow
  <2>4. QED
    BY <1>0, <2>1, <2>2, <2>3 DEF VisitInv, CleanRunIsComplete, history
<1>9. CASE ReplaceFile
  <2>1. /\ UNCHANGED <<clock, stale, runNow, len, slot, attempt, failed, error, lastStart,
                       lastEnd, walkAt>>
        /\ pc = "write" /\ pc' = "unstale"
        /\ DOMAIN files' = DOMAIN files \cup {slot}
        /\ readAt' = [readAt EXCEPT ![slot] = walkAt]
    BY <1>9 DEF ReplaceFile, env, run
  <2>2. Window' = Window
    BY <2>1, <1>a
  <2>3. slot \in Times
    BY <2>1, SlotInWindow
  <2>4. ASSUME NEW s \in Window, s < slot
        PROVE  Handled(s)'
    <3>1. Handled(s) /\ s # slot /\ s \in Times
      BY <1>0, <2>1, <2>4 DEF VisitInv, Window
    <3>2. readAt'[s] = readAt[s]
      BY <2>1, <3>1 DEF VisitInv
    <3>3. QED
      BY <2>1, <3>1, <3>2 DEF Handled
  <2>5. readAt'[slot] = walkAt /\ lastStart <= walkAt /\ DOMAIN readAt' = Times
    BY <2>1, <2>3 DEF VisitInv
  <2>6. \A s \in Times : readAt'[s] \in Nat
    BY <2>1, <2>3 DEF VisitInv
  <2>7. QED
    BY <1>0, <2>1, <2>2, <2>4, <2>5, <2>6 DEF VisitInv, CleanRunIsComplete
<1>10. CASE MarkFails \/ DiskFails \/ Crash
  <2>1. /\ UNCHANGED <<clock, files, stale, runNow, len, error, lastStart, walkAt, readAt>>
        /\ pc' = "idle" /\ lastEnd' \in {"broken", "crashed"}
    BY <1>10 DEF MarkFails, DiskFails, Crash, End, env, disk
  <2>2. Window' = Window
    BY <2>1, <1>a
  <2>3. failed' \subseteq Window
    <3>1. CASE MarkFails
      BY <3>1, SlotInWindow DEF MarkFails, VisitInv
    <3>2. CASE DiskFails \/ Crash
      BY <3>2 DEF DiskFails, Crash, VisitInv
    <3>3. QED
      BY <1>10, <3>1, <3>2
  <2>4. QED
    BY <1>0, <2>1, <2>2, <2>3 DEF VisitInv, CleanRunIsComplete
<1>11. CASE ClearStale
  <2>1. /\ UNCHANGED <<clock, files, runNow, len, failed, error, history>>
        /\ pc = "unstale" /\ pc' = "visit" /\ slot' = slot + len /\ stale' = stale \ {slot}
    BY <1>11 DEF ClearStale, env
  <2>2. Window' = Window
    BY <2>1, <1>a
  <2>3. slot' % len = 0 /\ FirstSlot(runNow, len) <= slot'
    <3>1. slot % len = 0 /\ FirstSlot(runNow, len) <= slot /\ FirstSlot(runNow, len) \in Nat
      BY <1>0, <2>1, FirstSlotIsNat DEF VisitInv
    <3>2. QED
      BY <1>0, <2>1, <3>1, SlotsApart
  <2>4. ASSUME NEW s \in Window, s < slot'
        PROVE  Handled(s)'
    <3>1. s < slot \/ s = slot
      BY <1>0, <2>1, <2>4, NextSlot DEF VisitInv
    <3>2. ASSUME s = slot
          PROVE  Handled(s)'
      BY <2>1, <3>2 DEF VisitInv, Handled, history
    <3>3. ASSUME Handled(s)
          PROVE  Handled(s)'
      BY <2>1, <3>3 DEF Handled, history
    <3>4. QED
      BY <2>1, <3>1, <3>2, <3>3 DEF VisitInv
  <2>5. QED
    BY <1>0, <2>1, <2>2, <2>3, <2>4 DEF VisitInv, CleanRunIsComplete, history
<1>12. CASE EndOfSlots
  <2>1. /\ UNCHANGED <<clock, files, stale, run, history>>
        /\ pc = "visit" /\ pc' = "prune" /\ ~Ended(slot)
    BY <1>12 DEF EndOfSlots, env, disk
  <2>2. Window' = Window
    BY <2>1, <1>a DEF run
  <2>3. \A s \in Window : s < slot
    BY <1>0, <2>1 DEF Ended, Window
  <2>4. QED
    BY <1>0, <2>1, <2>2, <2>3 DEF VisitInv, Handled, CleanRunIsComplete, run, history
<1>13. ASSUME NEW s \in DOMAIN files, PruneFile(s)
       PROVE  VisitInv'
  <2>1. /\ UNCHANGED <<clock, stale, runNow, len, failed, error, history>>
        /\ pc = "prune" /\ pc' = "prunestale" /\ DOMAIN files' = DOMAIN files \ {s}
        /\ Keep > 0 /\ s + Keep < runNow
    BY <1>13 DEF PruneFile, Prunable, env
  <2>2. Window' = Window
    BY <2>1, <1>a
  <2>3. \A t \in Window : s # t
    BY <1>0, <2>1, PrunedIsOutside
  <2>4. \A t \in Window : Handled(t) => Handled(t)'
    BY <2>1, <2>3 DEF Handled, history
  <2>5. QED
    BY <1>0, <2>1, <2>2, <2>4 DEF VisitInv, CleanRunIsComplete, history
<1>14. CASE PruneStale
  <2>1. /\ UNCHANGED <<clock, files, run, history>>
        /\ pc = "prunestale" /\ pc' = "prune" /\ stale' = stale \ {slot}
    BY <1>14 DEF PruneStale, env
  <2>2. Window' = Window
    BY <2>1, <1>a DEF run
  <2>3. \A t \in Window : Handled(t) => Handled(t)'
    BY <2>1 DEF Handled, run, history
  <2>4. QED
    BY <1>0, <2>1, <2>2, <2>3 DEF VisitInv, CleanRunIsComplete, run, history
<1>15. CASE EndRun
  <2>1. /\ UNCHANGED <<clock, files, stale, runNow, len, failed, error, lastStart, walkAt, readAt>>
        /\ pc = "prune" /\ pc' = "idle"
        /\ lastEnd' = IF error THEN "error" ELSE IF failed # {} THEN "failed" ELSE "clean"
    BY <1>15 DEF EndRun, End, env, disk
  <2>2. Window' = Window
    BY <2>1, <1>a
  <2>3. ASSUME lastEnd' = "clean"
        PROVE  ~error /\ failed = {}
    BY <2>1, <2>3
  <2>4. lastEnd' = "clean" => \A s \in Window : Handled(s) /\ s \notin failed
    BY <2>1, <2>3 DEF VisitInv
  <2>5. \A s \in Window : s \in Times /\ readAt[s] \in Nat
    BY DEF Window, VisitInv
  <2>6. CleanRunIsComplete'
    BY <1>0, <2>1, <2>2, <2>4, <2>5 DEF CleanRunIsComplete, Handled
  <2>7. QED
    BY <1>0, <2>1, <2>2, <2>6 DEF VisitInv
<1>16. CASE UNCHANGED vars
  <2>1. Window' = Window
    BY <1>16, <1>a DEF vars, run
  <2>2. QED
    BY <1>16, <2>1 DEF vars, env, disk, run, history, VisitInv, Handled, CleanRunIsComplete
<1>17. QED
  BY <1>1, <1>2, <1>3, <1>4, <1>5, <1>6, <1>7, <1>8, <1>9, <1>10, <1>11, <1>12, <1>13, <1>14,
     <1>15, <1>16 DEF Next, RunNext

\* The invariants that need nothing of Graph's retention hold together.
LEMMA VisitHolds == Spec => [](IInv /\ VisitInv)
<1>1. Init => VisitInv
  <2>1. SUFFICES ASSUME Init
                 PROVE  VisitInv
    OBVIOUS
  <2>2. QED
    <3>1. lastStart = 0 /\ clock = 0 /\ runNow = 0 /\ walkAt = 0 /\ error = FALSE
      BY <2>1 DEF Init
    <3>2. failed = {} /\ pc = "idle" /\ lastEnd = "none"
      BY <2>1 DEF Init
    <3>3. DOMAIN readAt = Times /\ \A s \in Times : readAt[s] \in Nat
      <4>1. readAt = [s \in Times |-> 0]
        BY <2>1 DEF Init
      <4>2. QED
        BY <4>1
    <3>4. CleanRunIsComplete
      BY <3>2 DEF CleanRunIsComplete
    <3>5. 0 \in Nat /\ 0 <= 0 /\ {} \subseteq Window
      OBVIOUS
    <3>6. QED
      BY <3>1, <3>2, <3>3, <3>4, <3>5 DEF VisitInv, Visiting
<1>2. IInv /\ VisitInv /\ [Next]_vars => IInv' /\ VisitInv'
  BY HoursStep, LengthStep, VisitStep DEF IInv
<1>3. QED
  BY InvInit, <1>1, <1>2, PTL DEF Spec

\* A run that reports nothing has left nothing out, whatever other runs were refused, failed,
\* killed or asked for another slot length.
THEOREM CleanRunIsAlwaysComplete == Spec => []CleanRunIsComplete
<1>1. IInv /\ VisitInv => CleanRunIsComplete
  BY DEF VisitInv
<1>2. QED
  BY <1>1, VisitHolds, PTL

-----------------------------------------------------------------------------
(***************************************************************************)
(* A slot is read for the last time no more than a Gap before it settles.  *)
(***************************************************************************)
\* The file's walk is no older than a Gap when the slot settles, or the slot left the
\* window before that.
Covered(s) ==
    \/ s + len + Refetch <= readAt[s] + Gap
    \/ s < FirstSlot(s + len + Refetch, len)

\* The run is still to come to the slot, and will read it again.
Due(s) == pc \in Visiting /\ slot <= s /\ runNow < s + len + Refetch

\* A good file either needs no further read, or was read by the last run, or will be read
\* by the one at work.
LateInv ==
    /\ clock <= lastStart + Gap
    /\ crashes \in Nat
    /\ marker /\ pc # "record" => recorded = len
    /\ pc = "prunestale" => slot \notin DOMAIN files
    /\ \A s \in DOMAIN files : s + len <= runNow /\ s % len = 0
    /\ \A s \in DOMAIN files \ stale : Covered(s) \/ lastStart <= readAt[s] \/ Due(s)

\* A run that starts in time takes over every slot that is not settled.
LEMMA TakenOver ==
    ASSUME HoursInv, LengthInv, VisitInv, LateInv, NEW s \in DOMAIN files \ stale, pc = "idle",
           NEW now \in Nat, now <= clock
    PROVE  \/ Covered(s)
           \/ FirstSlot(now, len) <= s /\ now < s + len + Refetch
<1>1. /\ s \in Nat /\ len \in Nat /\ Refetch \in Nat /\ Gap \in Nat /\ s \in Times
      /\ clock \in Nat /\ lastStart \in Nat /\ len \in SlotLens
  BY Counts DEF HoursInv, LengthInv, VisitInv, Times
<1>2. readAt[s] \in Nat /\ clock <= lastStart + Gap
  BY <1>1 DEF VisitInv, LateInv
<1>3. Covered(s) \/ lastStart <= readAt[s]
  BY DEF LateInv, Due, Visiting
<1>4. CASE s + len + Refetch <= now
  BY <1>1, <1>2, <1>3, <1>4 DEF Covered
<1>5. CASE now < s + len + Refetch
  <2>1. s + len + Refetch \in Nat /\ now <= s + len + Refetch
    BY <1>1, <1>5
  <2>2. FirstSlot(now, len) <= FirstSlot(s + len + Refetch, len)
    BY <1>1, <2>1, FirstSlotGrows
  <2>3. FirstSlot(now, len) \in Nat /\ FirstSlot(s + len + Refetch, len) \in Nat
    BY <1>1, <2>1, FirstSlotIsNat
  <2>4. s < FirstSlot(now, len) => s < FirstSlot(s + len + Refetch, len)
    BY <1>1, <2>2, <2>3
  <2>5. QED
    BY <1>1, <1>5, <2>3, <2>4 DEF Covered
<1>6. QED
  BY <1>1, <1>4, <1>5

\* Every step of an undisturbed archive leaves each good file as good as it has to be.
LEMMA LateStep ==
    ASSUME Undisturbed, HoursInv, LengthInv, VisitInv, LateInv, HoursInv', VisitInv', [Next]_vars
    PROVE  LateInv'
<1> USE DEF Visiting
<1>0. /\ clock \in Nat /\ runNow \in Nat /\ slot \in Nat /\ len \in Nat \ {0} /\ len \in SlotLens
      /\ DOMAIN files \subseteq Times /\ Times \subseteq Nat /\ Refetch \in Nat
      /\ Gap \in Nat /\ RunTime \in Nat
      /\ lastStart \in Nat /\ lastStart <= clock /\ RunTime <= Gap
  BY Counts DEF HoursInv, LengthInv, VisitInv, Times, Undisturbed
<1>l. \A n \in SlotLens : n = len
  BY <1>0 DEF Undisturbed
<1>d. Crashes = 0 /\ ~AuthErrors /\ ~LocalErrors
  BY DEF Undisturbed
<1>1. CASE Tick
  <2>1. /\ UNCHANGED <<disk, pc, run, history, crashes>> /\ clock' \in Nat
        /\ clock' <= lastStart + Gap
    BY <1>0, <1>1 DEF Tick, LateInv
  <2>2. QED
    BY <1>0, <2>1 DEF LateInv, Covered, Due, disk, run, history
<1>2. CASE \E r \in LateRows : Deliver(r)
  <2>1. UNCHANGED <<clock, crashes, disk, pc, run, history>>
    BY <1>2 DEF Deliver
  <2>2. QED
    BY <1>0, <2>1 DEF LateInv, Covered, Due, disk, run, history
<1>3. ASSUME NEW lag \in 0..StartLag, NEW n \in SlotLens, lag <= clock,
             StartRun(clock - lag, n)
      PROVE  LateInv'
  <2>1. /\ pc = "idle" /\ runNow <= clock - lag
        /\ runNow' = clock - lag /\ len' = len /\ lastStart' = clock
        /\ UNCHANGED <<clock, crashes, files, stale, recorded, readAt>>
        /\ clock - lag \in Nat /\ clock - lag <= clock
    BY <1>0, <1>l, <1>3, Counts DEF StartRun, env
  <2>2. /\ pc' \in {"record", "visit"} /\ slot' = FirstSlot(clock - lag, len)
        /\ marker' /\ pc' # "record" => recorded = len
    BY <1>d, <1>l, <1>3, <2>1 DEF StartRun, Accepts, LateInv
  <2>3. \A s \in DOMAIN files : s + len <= runNow' /\ s % len = 0
    <3>1. runNow' \in Nat /\ runNow <= runNow'
      BY <2>1
    <3>2. SUFFICES ASSUME NEW s \in DOMAIN files
                   PROVE  s + len <= runNow' /\ s % len = 0
      OBVIOUS
    <3>3. s \in Nat /\ s + len <= runNow /\ s % len = 0
      BY <1>0 DEF LateInv
    <3>4. s + len <= runNow'
      BY <1>0, <3>1, <3>3
    <3>5. QED
      BY <3>3, <3>4
  <2>4. ASSUME NEW s \in DOMAIN files \ stale
        PROVE  Covered(s)' \/ Due(s)'
    <3>1. \/ Covered(s)
          \/ FirstSlot(clock - lag, len) <= s /\ clock - lag < s + len + Refetch
      BY <2>1, TakenOver
    <3>2. QED
      BY <2>1, <2>2, <3>1 DEF Covered, Due
  <2>5. clock' <= lastStart' + Gap
    BY <1>0, <2>1
  <2>6. QED
    BY <2>1, <2>2, <2>3, <2>4, <2>5 DEF LateInv
<1>4. CASE RecordLength
  <2>1. /\ UNCHANGED <<clock, crashes, files, stale, run, history>>
        /\ pc = "record" /\ pc' = "visit" /\ recorded' = len
    BY <1>4 DEF RecordLength, env
  <2>2. QED
    BY <1>0, <2>1 DEF LateInv, Covered, Due, run, history
<1>5. CASE SkipSlot
  <2>1. /\ UNCHANGED <<clock, crashes, files, stale, marker, recorded, runNow, len, history>>
        /\ pc = "visit" /\ pc' = "visit" /\ slot' = slot + len /\ UpToDate(slot)
    BY <1>5 DEF SkipSlot, env, disk
  <2>2. ASSUME NEW s \in DOMAIN files, Due(s)
        PROVE  Due(s)'
    <3>1. s \in Nat /\ s % len = 0 /\ slot % len = 0 /\ slot <= s
      BY <1>0, <2>1, <2>2 DEF LateInv, VisitInv, Due
    <3>2. s # slot
      BY <1>0, <2>1, <2>2 DEF UpToDate, Due
    <3>3. slot + len <= s
      BY <1>0, <3>1, <3>2, SlotsApart
    <3>4. QED
      BY <2>1, <2>2, <3>3 DEF Due
  <2>3. QED
    BY <2>1, <2>2 DEF LateInv, Covered, history
<1>6. CASE BeginFetch \/ FetchOk \/ RetryFetch
  <2>1. /\ UNCHANGED <<clock, crashes, files, stale, marker, recorded, runNow, len, slot,
                       lastStart, readAt>>
        /\ pc \in {"visit", "fetch"} /\ pc' \in {"fetch", "write"}
    BY <1>6 DEF BeginFetch, FetchOk, RetryFetch, env, disk, history
  <2>2. QED
    BY <1>0, <2>1 DEF LateInv, Covered, Due
<1>7. CASE FailFetch
  <2>1. /\ UNCHANGED <<clock, crashes, files, marker, recorded, runNow, len, history>>
        /\ pc = "fetch" /\ pc' = "visit" /\ slot' = slot + len
        /\ stale' = StaleAfterFailure(slot)
    BY <1>7 DEF FailFetch, env
  <2>2. ASSUME NEW s \in DOMAIN files, Due(s), s \notin stale'
        PROVE  Due(s)'
    <3>1. s \in Nat /\ s % len = 0 /\ slot % len = 0 /\ slot <= s
      BY <1>0, <2>1, <2>2 DEF LateInv, VisitInv, Due
    <3>2. s # slot
      BY <2>1, <2>2 DEF StaleAfterFailure
    <3>3. slot + len <= s
      BY <1>0, <3>1, <3>2, SlotsApart
    <3>4. QED
      BY <2>1, <2>2, <3>3 DEF Due
  <2>3. stale \subseteq stale'
    BY <2>1 DEF StaleAfterFailure
  <2>4. QED
    BY <2>1, <2>2, <2>3 DEF LateInv, Covered, history
<1>8. CASE AuthFailure \/ MarkFails \/ DiskFails \/ Crash
  BY <1>d, <1>8 DEF AuthFailure, MarkFails, DiskFails, Crash, LateInv
<1>9. CASE ReplaceFile
  <2>1. /\ UNCHANGED <<clock, crashes, stale, marker, recorded, runNow, len, slot, lastStart,
                       walkAt>>
        /\ pc = "write" /\ pc' = "unstale"
        /\ DOMAIN files' = DOMAIN files \cup {slot}
        /\ readAt' = [readAt EXCEPT ![slot] = walkAt]
    BY <1>9 DEF ReplaceFile, env, run
  <2>2. slot \in Times /\ slot % len = 0 /\ slot + len <= runNow
    BY <2>1, SlotInWindow DEF VisitInv, HoursInv
  <2>3. \A s \in DOMAIN files' : s + len <= runNow /\ s % len = 0
    BY <2>1, <2>2 DEF LateInv
  <2>4. readAt'[slot] = walkAt /\ lastStart <= walkAt
    BY <2>1, <2>2 DEF VisitInv
  <2>5. \A s \in DOMAIN files : s # slot => readAt'[s] = readAt[s]
    BY <1>0, <2>1 DEF VisitInv
  <2>6. ASSUME NEW s \in DOMAIN files' \ stale
        PROVE  Covered(s)' \/ lastStart <= readAt'[s] \/ Due(s)'
    <3>1. CASE s = slot
      BY <2>4, <3>1
    <3>2. CASE s # slot
      BY <2>1, <2>5, <2>6, <3>2 DEF LateInv, Covered, Due
    <3>3. QED
      BY <3>1, <3>2
  <2>7. QED
    BY <2>1, <2>3, <2>6 DEF LateInv
<1>10. CASE ClearStale
  <2>1. /\ UNCHANGED <<clock, crashes, files, marker, recorded, runNow, len, history>>
        /\ pc = "unstale" /\ pc' = "visit" /\ slot' = slot + len /\ stale' = stale \ {slot}
    BY <1>10 DEF ClearStale, env
  <2>2. lastStart <= readAt[slot]
    BY <2>1 DEF VisitInv
  <2>3. ASSUME NEW s \in DOMAIN files, Due(s), s # slot
        PROVE  Due(s)'
    <3>1. s \in Nat /\ s % len = 0 /\ slot % len = 0 /\ slot <= s
      BY <1>0, <2>1, <2>3 DEF LateInv, VisitInv, Due
    <3>2. slot + len <= s
      BY <1>0, <2>3, <3>1, SlotsApart
    <3>3. QED
      BY <2>1, <2>3, <3>2 DEF Due
  <2>4. QED
    BY <2>1, <2>2, <2>3 DEF LateInv, Covered, history
<1>11. CASE EndOfSlots
  <2>1. /\ UNCHANGED <<clock, crashes, disk, run, history>>
        /\ pc = "visit" /\ pc' = "prune" /\ ~Ended(slot)
    BY <1>11 DEF EndOfSlots, env
  <2>2. ASSUME NEW s \in DOMAIN files, slot <= s
        PROVE  FALSE
    <3>1. s \in Nat /\ s + len <= runNow
      BY <1>0 DEF LateInv
    <3>2. ~(slot + len <= runNow)
      BY <2>1 DEF Ended
    <3>3. QED
      BY <1>0, <2>2, <3>1, <3>2
  <2>3. QED
    BY <2>1, <2>2 DEF LateInv, Covered, Due, disk, run, history
<1>12. ASSUME NEW s \in DOMAIN files, PruneFile(s)
       PROVE  LateInv'
  <2>1. /\ UNCHANGED <<clock, crashes, stale, marker, recorded, runNow, len, history>>
        /\ pc = "prune" /\ pc' = "prunestale" /\ slot' = s
        /\ DOMAIN files' = DOMAIN files \ {s}
    BY <1>12 DEF PruneFile, env
  <2>2. QED
    BY <2>1 DEF LateInv, Covered, Due, history
<1>13. CASE PruneStale
  <2>1. /\ UNCHANGED <<clock, crashes, files, marker, recorded, run, history>>
        /\ pc = "prunestale" /\ pc' = "prune" /\ stale' = stale \ {slot}
    BY <1>13 DEF PruneStale, env
  <2>2. QED
    BY <2>1 DEF LateInv, Covered, Due, run, history
<1>14. CASE EndRun
  <2>1. /\ UNCHANGED <<clock, crashes, disk, runNow, len, lastStart, readAt>>
        /\ pc = "prune" /\ pc' = "idle"
    BY <1>14 DEF EndRun, End, env
  <2>2. QED
    BY <2>1 DEF LateInv, Covered, Due, disk
<1>15. CASE UNCHANGED vars
  BY <1>15 DEF vars, env, disk, run, history, LateInv, Covered, Due
<1>16. QED
  BY <1>1, <1>2, <1>3, <1>4, <1>5, <1>6, <1>7, <1>8, <1>9, <1>10, <1>11, <1>12, <1>13, <1>14,
     <1>15 DEF Next, RunNext

\* A clean run of an undisturbed archive finds in its settled files all that Graph
\* delivered in time.
LEMMA SettledIsKept ==
    ASSUME Undisturbed, IInv, WholeInv, VisitInv, LateInv
    PROVE  LateRowsAreKept
<1>1. SUFFICES ASSUME pc = "idle", lastEnd = "clean", NEW s \in Window,
                      s + len + Refetch <= runNow, NEW r \in RowsOf(s, len),
                      DeliveredAt(r) + Gap < s + len + Refetch, ~AtEdge(r, s)
               PROVE  s \in DOMAIN files /\ r \in files[s]
  BY DEF LateRowsAreKept
<1>2. /\ s \in Nat /\ s \in Times /\ len \in Nat \ {0} /\ len \in SlotLens /\ Refetch \in Nat
      /\ Gap \in Nat /\ runNow \in Nat /\ lastStart \in Nat /\ runNow <= lastStart
      /\ readAt[s] \in Nat /\ FirstSlot(runNow, len) <= s
  BY Counts DEF IInv, HoursInv, VisitInv, Window, Times
<1>3. s \in DOMAIN files /\ s \notin stale
  BY <1>1 DEF VisitInv, CleanRunIsComplete
<1>4. fileLen[s] = len
  <2>1. fileLen[s] = recorded /\ recorded # 0
    BY <1>3 DEF IInv, LengthInv
  <2>2. recorded = len
    BY <1>1, <2>1 DEF IInv, LengthInv, LateInv
  <2>3. QED
    BY <2>1, <2>2
<1>5. s + len + Refetch <= readAt[s] + Gap
  <2>1. Covered(s) \/ lastStart <= readAt[s]
    BY <1>1, <1>3 DEF LateInv, Due, Visiting
  <2>2. ~(s < FirstSlot(s + len + Refetch, len))
    <3>1. s + len + Refetch \in Nat
      BY <1>2
    <3>2. FirstSlot(s + len + Refetch, len) <= FirstSlot(runNow, len)
      BY <1>1, <1>2, <3>1, FirstSlotGrows
    <3>3. FirstSlot(s + len + Refetch, len) \in Nat /\ FirstSlot(runNow, len) \in Nat
      BY <1>2, <3>1, FirstSlotIsNat
    <3>4. QED
      BY <1>2, <3>2, <3>3
  <2>3. QED
    BY <1>1, <1>2, <2>1, <2>2 DEF Covered
<1>6. DeliveredAt(r) \in Nat
  BY Counts DEF WholeInv, RowsOf, DeliveredAt, Times
<1>7. DeliveredAt(r) < readAt[s]
  BY <1>1, <1>2, <1>5, <1>6
<1>8. r \in Complete(s, fileLen[s], readAt[s])
  BY <1>1, <1>4, <1>7 DEF Complete
<1>9. QED
  BY <1>1, <1>3, <1>8 DEF WholeInv, FilesAreWhole, IsWhole

\* While the runs keep the pace the guide asks for, no row that Graph delivers a Gap before
\* its slot settles is missing from the archive of a run that reports nothing.
THEOREM LateRowsAreAlwaysKept == ASSUME Undisturbed PROVE Spec => []LateRowsAreKept
<1>1. Init => LateInv
  <2>1. SUFFICES ASSUME Init
                 PROVE  LateInv
    OBVIOUS
  <2>2. DOMAIN files = {} /\ clock = 0 /\ lastStart = 0 /\ crashes = 0 /\ ~marker /\ pc = "idle"
    BY <2>1 DEF Init
  <2>3. QED
    BY <2>2, Counts DEF LateInv
<1>2. IInv /\ VisitInv /\ IInv' /\ VisitInv' /\ LateInv /\ [Next]_vars => LateInv'
  BY LateStep DEF IInv
<1>3. IInv /\ WholeInv /\ VisitInv /\ LateInv => LateRowsAreKept
  BY SettledIsKept
<1>4. QED
  BY <1>1, <1>2, <1>3, ArchiveHolds, VisitHolds, PTL DEF Spec

-----------------------------------------------------------------------------
(***************************************************************************)
(* The state holds what the code could hold.                               *)
(***************************************************************************)
\* What the disk and the run carry besides the hours of HoursInv.
DiskInv ==
    /\ crashes \in 0..Crashes
    /\ delivered \in [LateRows -> 0..(MaxClock + 1)]
    /\ \A s \in DOMAIN files : files[s] \subseteq Times
    /\ stale \subseteq Times
    /\ marker \in BOOLEAN /\ recorded \in {0} \cup SlotLens
    /\ rows \subseteq Times

\* Every step keeps the disk to files of rows and markers of slots.
LEMMA DiskStep ==
    ASSUME HoursInv, LengthInv, DiskInv, [Next]_vars
    PROVE  DiskInv'
<1> USE DEF DiskInv
<1>0. /\ DOMAIN files \subseteq Times /\ len \in SlotLens /\ Crashes \in Nat
      /\ clock \in 0..(MaxClock + 1)
  BY Counts DEF HoursInv, LengthInv, Times
<1>1. CASE Tick
  BY <1>1 DEF Tick, disk, run
<1>2. ASSUME NEW r \in LateRows, Deliver(r)
      PROVE  DiskInv'
  <2>1. delivered' \in [LateRows -> 0..(MaxClock + 1)]
    BY <1>0, <1>2 DEF Deliver
  <2>2. QED
    BY <1>2, <2>1 DEF Deliver, disk, run
<1>3. ASSUME NEW now, NEW n, StartRun(now, n)
      PROVE  DiskInv'
  BY <1>3 DEF StartRun, End, env
<1>4. CASE RecordLength
  BY <1>0, <1>4 DEF RecordLength, env, run
<1>5. CASE SkipSlot \/ BeginFetch \/ RetryFetch \/ AuthFailure \/ EndOfSlots
  BY <1>5 DEF SkipSlot, BeginFetch, RetryFetch, AuthFailure, EndOfSlots, env, disk, run
<1>6. CASE FetchOk
  <2>1. rows' \subseteq Times
    BY <1>6 DEF FetchOk, Walk, RowsOf
  <2>2. QED
    BY <1>6, <2>1 DEF FetchOk, env, disk
<1>7. CASE FailFetch
  <2>1. stale' \subseteq Times
    BY <1>0, <1>7 DEF FailFetch, StaleAfterFailure
  <2>2. QED
    BY <1>7, <2>1 DEF FailFetch, env
<1>8. CASE ReplaceFile
  <2>1. files' = [s \in DOMAIN files \cup {slot} |-> IF s = slot THEN rows ELSE files[s]]
    BY <1>8 DEF ReplaceFile
  <2>2. \A s \in DOMAIN files' : files'[s] \subseteq Times
    BY <2>1
  <2>3. QED
    BY <1>8, <2>2 DEF ReplaceFile, env, run
<1>9. CASE MarkFails \/ DiskFails \/ EndRun
  BY <1>9 DEF MarkFails, DiskFails, EndRun, End, env, disk
<1>10. CASE ClearStale \/ PruneStale
  BY <1>10 DEF ClearStale, PruneStale, env, run
<1>11. ASSUME NEW s \in DOMAIN files, PruneFile(s)
       PROVE  DiskInv'
  <2>1. files' = [t \in DOMAIN files \ {s} |-> files[t]]
    BY <1>11 DEF PruneFile
  <2>2. \A t \in DOMAIN files' : files'[t] \subseteq Times
    BY <2>1
  <2>3. QED
    BY <1>11, <2>2 DEF PruneFile, env
<1>12. CASE Crash
  <2>1. crashes' \in 0..Crashes
    BY <1>0, <1>12 DEF Crash
  <2>2. QED
    BY <1>12, <2>1 DEF Crash, End, disk
<1>13. CASE UNCHANGED vars
  BY <1>13 DEF vars, env, disk, run
<1>14. QED
  BY <1>1, <1>2, <1>3, <1>4, <1>5, <1>6, <1>7, <1>8, <1>9, <1>10, <1>11, <1>12, <1>13
     DEF Next, RunNext

\* The archive, its runs and the log keep to the states the code could be in.
THEOREM ArchiveIsTyped == Spec => []TypeOK
<1>1. Init => DiskInv
  <2>1. SUFFICES ASSUME Init
                 PROVE  DiskInv
    OBVIOUS
  <2>2. crashes = 0 /\ stale = {} /\ marker = FALSE /\ recorded = 0 /\ rows = {}
    BY <2>1 DEF Init
  <2>3. delivered \in [LateRows -> 0..(MaxClock + 1)] /\ DOMAIN files = {}
    BY <2>1, Counts DEF Init
  <2>4. 0 \in 0..Crashes
    BY Counts
  <2>5. QED
    BY <2>2, <2>3, <2>4 DEF DiskInv
<1>2. IInv /\ DiskInv /\ [Next]_vars => DiskInv'
  BY DiskStep DEF IInv
<1>3. IInv /\ VisitInv /\ DiskInv => TypeOK
  <2>1. SUFFICES ASSUME IInv, VisitInv, DiskInv
                 PROVE  TypeOK
    OBVIOUS
  <2>2. clock \in Times /\ runNow \in 0..clock
    BY <2>1 DEF IInv, HoursInv, Times
  <2>3. pc \in {"fetch", "write", "unstale"} => slot \in Window /\ attempt \in 1..Attempts
    BY <2>1, SlotInWindow DEF IInv, VisitInv
  <2>4. QED
    BY <2>1, <2>2, <2>3 DEF TypeOK, DiskInv, IInv, LengthInv, Working, VisitInv
<1>4. QED
  BY <1>1, <1>2, <1>3, VisitHolds, PTL DEF Spec

-----------------------------------------------------------------------------
(***************************************************************************)
(* A settled file is left alone.                                           *)
(***************************************************************************)
\* A walk is made only for a slot that was not up to date, and nothing a run or Graph does
\* meanwhile brings it up to date before the file is written.
FetchInv == pc \in {"fetch", "write"} => ~UpToDate(slot)

LEMMA FetchStep == FetchInv /\ [Next]_vars => FetchInv'
<1> SUFFICES ASSUME FetchInv, [Next]_vars
             PROVE  FetchInv'
  OBVIOUS
<1>1. CASE BeginFetch
  BY <1>1 DEF BeginFetch, FetchInv, UpToDate, disk
<1>2. CASE FetchOk \/ RetryFetch
  BY <1>2 DEF FetchOk, RetryFetch, FetchInv, UpToDate, disk
<1>3. CASE Tick \/ \E r \in LateRows : Deliver(r)
  BY <1>3 DEF Tick, Deliver, FetchInv, UpToDate, disk, run
<1>4. CASE UNCHANGED vars
  BY <1>4 DEF vars, FetchInv, UpToDate, disk, run
<1>5. ASSUME NEW now, NEW n, StartRun(now, n)
      PROVE  FetchInv'
  BY <1>5 DEF StartRun, End, FetchInv
<1>6. CASE RecordLength \/ SkipSlot \/ FailFetch \/ MarkFails \/ AuthFailure \/ ReplaceFile
              \/ DiskFails \/ ClearStale \/ EndOfSlots \/ PruneStale \/ EndRun \/ Crash
  BY <1>6 DEF RecordLength, SkipSlot, FailFetch, MarkFails, AuthFailure, ReplaceFile, DiskFails,
              ClearStale, EndOfSlots, PruneStale, EndRun, Crash, End, FetchInv
<1>7. ASSUME NEW s \in DOMAIN files, PruneFile(s)
      PROVE  FetchInv'
  BY <1>7 DEF PruneFile, FetchInv
<1>8. QED
  BY <1>1, <1>2, <1>3, <1>4, <1>5, <1>6, <1>7 DEF Next, RunNext

\* The only step that gives a file another walk is the rename of a run that found the slot
\* without a file, marked stale or not settled.
LEMMA SettledStep ==
    ASSUME IInv, VisitInv, FetchInv, [Next]_vars
    PROVE  [\A s \in DOMAIN files \cap DOMAIN files' :
              readAt'[s] # readAt[s] => s \in stale \/ runNow < s + fileLen[s] + Refetch]_vars
<1>1. CASE readAt' = readAt
  BY <1>1
<1>2. CASE ReplaceFile
  <2>1. pc = "write" /\ readAt' = [readAt EXCEPT ![slot] = walkAt] /\ ~UpToDate(slot)
    BY <1>2 DEF ReplaceFile, FetchInv
  <2>2. \A s \in DOMAIN files : s \in Times /\ s \in DOMAIN readAt /\ fileLen[s] = len
    BY <2>1 DEF IInv, LengthInv, VisitInv, Working
  <2>3. \A s \in DOMAIN files : readAt'[s] # readAt[s] => s = slot
    BY <2>1, <2>2
  <2>4. ASSUME slot \in DOMAIN files, slot \notin stale
        PROVE  runNow < slot + fileLen[slot] + Refetch
    <3>1. runNow \in Nat /\ slot \in Nat /\ len \in Nat /\ Refetch \in Nat /\ fileLen[slot] = len
      BY <2>2, <2>4, Counts DEF IInv, HoursInv
    <3>2. QED
      BY <2>1, <2>4, <3>1 DEF UpToDate
  <2>5. QED
    BY <2>3, <2>4
<1>3. ReplaceFile \/ readAt' = readAt
  BY DEF Next, RunNext, Tick, Deliver, StartRun, RecordLength, SkipSlot, BeginFetch, FetchOk,
         RetryFetch, FailFetch, MarkFails, AuthFailure, DiskFails, ClearStale, EndOfSlots, PruneFile,
         PruneStale, EndRun, Crash, history, vars
<1>4. QED
  BY <1>1, <1>2, <1>3

\* A settled file is walked again only to make good a failed re-read, whatever slot lengths
\* later runs ask for, and whatever kills and failures come between.
THEOREM SettledIsAlwaysLeftAlone == Spec => SettledIsLeftAlone
<1>1. Init => FetchInv
  BY DEF Init, FetchInv
<1>2. FetchInv /\ [Next]_vars => FetchInv'
  BY FetchStep
<1>3. IInv /\ VisitInv /\ FetchInv /\ [Next]_vars =>
          [\A s \in DOMAIN files \cap DOMAIN files' :
              readAt'[s] # readAt[s] => s \in stale \/ runNow < s + fileLen[s] + Refetch]_vars
  BY SettledStep
<1>4. QED
  BY <1>1, <1>2, <1>3, VisitHolds, PTL DEF Spec, SettledIsLeftAlone

-----------------------------------------------------------------------------
(***************************************************************************)
(* Which failed re-reads are remembered.                                   *)
(***************************************************************************)
\* A slot whose walk failed is behind the run and, if it has a file, marked; the one that
\* is not ended the run with an error.
RememberInv ==
    /\ Forgotten # {} =>
          /\ error \/ (pc = "idle" /\ lastEnd = "broken")
          /\ \E s \in Times : Forgotten = {s}
    /\ pc \in Visiting \cup {"record"} => ~error
    /\ pc \in Visiting => \A s \in failed : s < slot
    /\ pc = "prunestale" => slot \notin failed

\* The slot that joins `failed` last is the only one that may be forgotten.
LEMMA ForgottenAdds ==
    ASSUME NEW s \in Times, Forgotten = {}, failed' = failed \cup {s}, UNCHANGED <<files, stale>>
    PROVE  Forgotten' # {} => \E u \in Times : Forgotten' = {u}
<1>1. Forgotten' \subseteq {s}
  BY DEF Forgotten
<1>2. QED
  BY <1>1

\* Neither a removed file nor the marker of a slot that did not fail adds to it.
LEMMA ForgottenStays ==
    ASSUME failed' = failed, DOMAIN files' \subseteq DOMAIN files, (stale \ stale') \cap failed = {},
           Forgotten # {} => \E s \in Times : Forgotten = {s}
    PROVE  /\ Forgotten' \subseteq Forgotten
           /\ Forgotten' # {} => Forgotten # {} /\ \E s \in Times : Forgotten' = {s}
<1>1. Forgotten' \subseteq Forgotten
  BY DEF Forgotten
<1>2. QED
  BY <1>1

LEMMA RememberStep ==
    ASSUME HoursInv, LengthInv, VisitInv, RememberInv, [Next]_vars
    PROVE  RememberInv'
<1> USE DEF RememberInv, Visiting
<1>0. /\ slot \in Nat /\ len \in Nat /\ len > 0 /\ failed \subseteq Nat /\ Times \subseteq Nat
      /\ DOMAIN files \subseteq Times
      /\ pc = "fetch" => slot \in Times
  BY Counts DEF HoursInv, LengthInv, VisitInv, Window, Times
<1>1. CASE Tick \/ \E r \in LateRows : Deliver(r)
  BY <1>1 DEF Tick, Deliver, disk, run, history, Forgotten
<1>2. ASSUME NEW now, NEW n, StartRun(now, n)
      PROVE  RememberInv'
  <2>1. failed' = {} /\ ~error' /\ pc' \in {"idle", "record", "visit"}
    BY <1>2 DEF StartRun, End
  <2>2. QED
    BY <2>1 DEF Forgotten
<1>3. CASE RecordLength \/ BeginFetch \/ FetchOk \/ RetryFetch \/ EndOfSlots
  BY <1>3 DEF RecordLength, BeginFetch, FetchOk, RetryFetch, EndOfSlots, disk, run, Forgotten
<1>4. CASE SkipSlot
  <2>1. /\ slot' = slot + len /\ UNCHANGED <<failed, files, stale, error>>
        /\ pc = "visit" /\ pc' = "visit"
    BY <1>4 DEF SkipSlot, disk
  <2>2. QED
    BY <1>0, <2>1 DEF Forgotten
<1>5. CASE FailFetch
  <2>1. /\ failed' = failed \cup {slot} /\ stale' = StaleAfterFailure(slot) /\ files' = files
        /\ slot' = slot + len /\ pc = "fetch" /\ pc' = "visit" /\ error' = error
    BY <1>5 DEF FailFetch
  <2>2. Forgotten' = {}
    BY <2>1 DEF StaleAfterFailure, Forgotten
  <2>3. QED
    BY <1>0, <2>1, <2>2
<1>6. CASE MarkFails
  <2>1. /\ failed' = failed \cup {slot} /\ UNCHANGED <<files, stale>>
        /\ pc = "fetch" /\ pc' = "idle" /\ lastEnd' = "broken"
    BY <1>6 DEF MarkFails, End, disk
  <2>2. Forgotten' # {} => \E s \in Times : Forgotten' = {s}
    BY <1>0, <2>1, ForgottenAdds
  <2>3. QED
    BY <2>1, <2>2
<1>7. CASE AuthFailure
  <2>1. /\ failed' = failed \cup {slot} /\ UNCHANGED <<files, stale>>
        /\ pc = "fetch" /\ pc' = "prune" /\ error'
    BY <1>7 DEF AuthFailure, disk
  <2>2. Forgotten' # {} => \E s \in Times : Forgotten' = {s}
    BY <1>0, <2>1, ForgottenAdds
  <2>3. QED
    BY <2>1, <2>2
<1>8. CASE ReplaceFile
  <2>1. /\ DOMAIN files' = DOMAIN files \cup {slot} /\ UNCHANGED <<failed, stale, slot, error>>
        /\ pc = "write" /\ pc' = "unstale"
    BY <1>8 DEF ReplaceFile, run
  <2>2. slot \notin failed
    BY <1>0, <2>1
  <2>3. Forgotten' = Forgotten
    BY <2>1, <2>2 DEF Forgotten
  <2>4. QED
    BY <2>1, <2>3
<1>9. CASE ClearStale
  <2>1. /\ stale' = stale \ {slot} /\ UNCHANGED <<failed, files, error>> /\ slot' = slot + len
        /\ pc = "unstale" /\ pc' = "visit"
    BY <1>9 DEF ClearStale
  <2>2. slot \notin failed
    BY <1>0, <2>1
  <2>3. Forgotten' = Forgotten
    BY <2>1, <2>2 DEF Forgotten
  <2>4. QED
    BY <1>0, <2>1, <2>3
<1>10. ASSUME NEW s \in DOMAIN files, PruneFile(s)
       PROVE  RememberInv'
  <2>1. /\ DOMAIN files' = DOMAIN files \ {s} /\ UNCHANGED <<failed, stale, error>> /\ slot' = s
        /\ pc = "prune" /\ pc' = "prunestale" /\ s \notin failed
    BY <1>10 DEF PruneFile, Prunable
  <2>2. Forgotten' # {} => Forgotten # {} /\ \E u \in Times : Forgotten' = {u}
    BY <2>1, ForgottenStays
  <2>3. QED
    BY <2>1, <2>2
<1>11. CASE PruneStale
  <2>1. /\ stale' = stale \ {slot} /\ UNCHANGED <<failed, files, error>>
        /\ pc = "prunestale" /\ pc' = "prune"
    BY <1>11 DEF PruneStale, run
  <2>2. Forgotten' = Forgotten
    BY <2>1 DEF Forgotten
  <2>3. QED
    BY <2>1, <2>2
<1>12. CASE DiskFails \/ EndRun \/ Crash
  <2>1. /\ UNCHANGED <<failed, files, stale, error>> /\ pc # "idle" /\ pc' = "idle"
    BY <1>12 DEF DiskFails, EndRun, Crash, End, disk
  <2>2. Forgotten' = Forgotten
    BY <2>1 DEF Forgotten
  <2>3. QED
    BY <2>1, <2>2
<1>13. CASE UNCHANGED vars
  BY <1>13 DEF vars, disk, run, history, Forgotten
<1>14. QED
  BY <1>1, <1>2, <1>3, <1>4, <1>5, <1>6, <1>7, <1>8, <1>9, <1>10, <1>11, <1>12, <1>13
     DEF Next, RunNext

\* The module's sentence "A failed re-read leaves <slot>.stale" is true of every failure but
\* the one that ends its run, by a refused credential or a disk that fails: a run forgets
\* at most that one slot, and reports an error.
THEOREM OnlyErrorsAreForgotten == Spec => []OnlyErrorsForget
<1>1. Init => RememberInv
  BY DEF Init, RememberInv, Forgotten, Visiting
<1>2. IInv /\ VisitInv /\ RememberInv /\ [Next]_vars => RememberInv'
  BY RememberStep DEF IInv
<1>3. RememberInv => OnlyErrorsForget
  BY DEF RememberInv, OnlyErrorsForget
<1>4. QED
  BY <1>1, <1>2, <1>3, VisitHolds, PTL DEF Spec

=============================================================================
