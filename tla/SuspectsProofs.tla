--------------------------- MODULE SuspectsProofs ---------------------------
(***************************************************************************)
(* The sliding window, the sites cache and the compromise statistics, for  *)
(* every list of sign-ins and set of threads, logs, ranges and risk        *)
(* answers.  The call of Suspects is shown to step its two parts only as   *)
(* CountryWindow and SitesCache allow, so that what is proved of these     *)
(* holds of it.                                                            *)
(***************************************************************************)
EXTENDS Suspects, FiniteSetTheorems, TLAPS

-----------------------------------------------------------------------------
(***************************************************************************)
(* The sliding window: _multi_country returns what its docstring says, for *)
(* every list, every Span and every number of countries.  The invariant of *)
(* its loop is WindowInv of CountryWindow.                                 *)
(***************************************************************************)
\* A set of countries is finite, and so is its size comparable.
LEMMA CountriesAreFinite ==
    ASSUME NEW S \in SUBSET Countries
    PROVE  IsFiniteSet(S) /\ Cardinality(S) \in Nat
  BY WindowAssumption, FS_Subset, FS_CardinalityType

\* Fewer countries are not more.
LEMMA FewerCountries ==
    ASSUME NEW S \in SUBSET Countries, NEW T \in SUBSET Countries, S \subseteq T
    PROVE  Cardinality(S) <= Cardinality(T)
  BY CountriesAreFinite, FS_Subset

\* The pairs of the window from one country can be counted.
LEMMA HeldIsFinite ==
    ASSUME NEW a \in Int, NEW b \in Int, NEW S \in SUBSET (a..b)
    PROVE  IsFiniteSet(S) /\ Cardinality(S) \in Nat
  BY FS_Interval, FS_Subset, FS_CardinalityType

\* Whether a list is spread changes with the list alone.
LEMMA SpreadIsKept ==
    ASSUME seen' = seen
    PROVE  SpreadOver(PairsOf(seen))' = SpreadOver(PairsOf(seen))
  <1>1. PairsOf(seen)' = PairsOf(seen)
    BY DEF PairsOf
  <1> QED
    BY <1>1 DEF SpreadOver, CountriesFrom

\* The initial window satisfies the invariant.
LEMMA WindowIdleInv == WindowIdle => WindowInv
  <1> SUFFICES ASSUME WindowIdle PROVE WindowInv
    OBVIOUS
  <1>1. DOMAIN seen = 1..0 /\ PairsOf(seen) = {}
    BY DEF WindowIdle, PairsOf
  <1>2. ListOK(seen)
    BY <1>1 DEF ListOK, Sorted
  <1>3. ~SpreadOver(PairsOf(seen))
    BY <1>1 DEF SpreadOver
  <1>4. at = 1 /\ start = 1 /\ step = "idle" /\ verdict = FALSE
    BY DEF WindowIdle
  <1>5. window \in [Countries -> Nat]
    BY DEF WindowIdle
  <1>6. at \in Nat \ {0} /\ start \in 1..at
    BY <1>4
  <1>8. verdict \in BOOLEAN
    BY <1>4
  <1>7. step # "idle" => FALSE
    BY <1>4
  <1> QED
    BY <1>2, <1>3, <1>4, <1>5, <1>6, <1>7, <1>8 DEF WindowInv

\* A call begins with an empty window.
LEMMA BeginKeepsInv ==
    ASSUME WindowInv, NEW s, ListOK(s), BeginWindow(s)
    PROVE  WindowInv'
  <1> USE DEF BeginWindow
  <1>1. at' = 1 /\ start' = 1 /\ step' = "enter" /\ seen' = s /\ verdict' \in BOOLEAN
    BY DEF WindowInv
  <1>2. ListOK(seen)'
    BY <1>1 DEF ListOK, Sorted
  <1>3. Entered' = 0
    BY <1>1 DEF Entered
  <1>4. \A c \in Countries : HeldFrom(c)' = {}
    BY <1>1, <1>3 DEF HeldFrom
  <1>5. window' = [c \in Countries |-> 0]
    OBVIOUS
  <1>6. \A c \in Countries : window'[c] = Cardinality(HeldFrom(c)')
    BY <1>4, <1>5, FS_EmptySet
  <1> QED
    BY <1>1, <1>2, <1>3, <1>5, <1>6 DEF WindowInv

\* While a pair is tested, the window's countries are those of its pairs.
LEMMA InWindowIs ==
    ASSUME WindowInv, step = "expire"
    PROVE  InWindow = {seen[k].country : k \in start..at}
  <1>1. Entered = at /\ at \in DOMAIN seen
    BY DEF WindowInv, Entered
  <1>2. \A k \in start..at : k \in DOMAIN seen /\ seen[k].country \in Countries
    BY <1>1 DEF WindowInv, ListOK
  <1>3. ASSUME NEW c \in Countries
        PROVE  window[c] > 0 <=> \E k \in start..at : seen[k].country = c
    <2>1. HeldFrom(c) \in SUBSET (start..at)
      BY <1>1 DEF HeldFrom
    <2>2. IsFiniteSet(HeldFrom(c)) /\ Cardinality(HeldFrom(c)) \in Nat
      <3>1. start \in Int /\ at \in Int
        BY DEF WindowInv
      <3> QED
        BY <2>1, <3>1, HeldIsFinite
    <2>3. Cardinality(HeldFrom(c)) = 0 <=> HeldFrom(c) = {}
      BY <2>2, FS_EmptySet
    <2>4. window[c] = Cardinality(HeldFrom(c))
      BY DEF WindowInv
    <2> QED
      BY <1>1, <2>2, <2>3, <2>4 DEF HeldFrom
  <1> QED
    BY <1>2, <1>3 DEF InWindow

LEMMA EnterKeepsInv ==
    ASSUME WindowInv, EnterWindow
    PROVE  WindowInv'
  <1> USE DEF EnterWindow
  <1>1. Entered = at - 1 /\ Entered' = at /\ at \in DOMAIN seen
    BY DEF Entered
  <1>2. ListOK(seen)'
    BY DEF WindowInv, ListOK, Sorted
  <1>3. seen[at].country \in Countries /\ at \in Nat /\ start \in Nat
    BY <1>1 DEF WindowInv, ListOK
  <1>4. ASSUME NEW c \in Countries
        PROVE  window'[c] = Cardinality(HeldFrom(c)')
    <2>1. HeldFrom(c)' = IF seen[at].country = c THEN HeldFrom(c) \cup {at} ELSE HeldFrom(c)
      BY <1>1, <1>3 DEF HeldFrom, WindowInv
    <2>2. at \notin HeldFrom(c) /\ HeldFrom(c) \in SUBSET (start..(at - 1))
      BY <1>1, <1>3 DEF HeldFrom
    <2>3. IsFiniteSet(HeldFrom(c)) /\ Cardinality(HeldFrom(c)) \in Nat
      <3>1. start \in Int /\ at - 1 \in Int
        BY <1>3
      <3> QED
        BY <2>2, <3>1, HeldIsFinite
    <2>4. Cardinality(HeldFrom(c) \cup {at}) = Cardinality(HeldFrom(c)) + 1
      BY <2>2, <2>3, FS_AddElement
    <2>5. window[c] = Cardinality(HeldFrom(c)) /\ window \in [Countries -> Nat]
      BY DEF WindowInv
    <2>6. window'[c] = IF seen[at].country = c THEN window[c] + 1 ELSE window[c]
      BY <1>3, <2>5
    <2> QED
      BY <2>1, <2>4, <2>5, <2>6
  <1>5. window' \in [Countries -> Nat]
    BY <1>3 DEF WindowInv
  <1>6. \A k \in 1..(start - 1) : seen[k].time + Span < seen[at].time
    <2> SUFFICES ASSUME NEW k \in 1..(start - 1) PROVE seen[k].time + Span < seen[at].time
      OBVIOUS
    <2>1. at - 1 \in DOMAIN seen /\ seen[k].time + Span < seen[at - 1].time
      BY <1>1, <1>3 DEF WindowInv
    <2>2. k \in DOMAIN seen
      BY <1>1, <1>3, <2>1 DEF WindowInv, ListOK
    <2>3. seen[at - 1].time <= seen[at].time
      BY <1>1, <1>3, <2>1 DEF WindowInv, ListOK, Sorted
    <2>4. seen[k].time \in Nat /\ seen[at - 1].time \in Nat /\ seen[at].time \in Nat
      BY <1>1, <2>1, <2>2 DEF WindowInv, ListOK
    <2> QED
      BY <2>1, <2>3, <2>4, WindowAssumption
  <1>7. \A w \in 1..(at - 1) : Cardinality(CountriesUpTo(w, at - 1)') < MinCountries
    BY DEF WindowInv, CountriesUpTo
  <1>8. start <= at
    BY DEF WindowInv
  <1> QED
    BY <1>1, <1>2, <1>4, <1>5, <1>6, <1>7, <1>8 DEF WindowInv

LEMMA DropKeepsInv ==
    ASSUME WindowInv, DropOldest
    PROVE  WindowInv'
  <1> USE DEF DropOldest
  <1>1. Entered = at /\ Entered' = at /\ at \in DOMAIN seen
    BY DEF Entered, WindowInv
  <1>2. at \in Nat /\ start \in Nat /\ start \in 1..at /\ start \in DOMAIN seen
    BY <1>1 DEF WindowInv, ListOK
  <1>3. /\ seen[at].time \in Nat /\ seen[start].time \in Nat
        /\ seen[start].country \in Countries
    BY <1>1, <1>2 DEF WindowInv, ListOK
  <1>4. seen[start].time + Span < seen[at].time
    BY <1>3, WindowAssumption DEF Expired
  <1>5. start < at
    BY <1>2, <1>3, <1>4, WindowAssumption
  <1>6. ListOK(seen)'
    BY DEF WindowInv, ListOK, Sorted
  <1>7. ASSUME NEW c \in Countries
        PROVE  window'[c] = Cardinality(HeldFrom(c)') /\ window'[c] \in Nat
    <2>1. HeldFrom(c)' = HeldFrom(c) \ {start}
      BY <1>1, <1>2 DEF HeldFrom
    <2>2. HeldFrom(c) \in SUBSET (start..at)
      BY <1>1 DEF HeldFrom
    <2>3. IsFiniteSet(HeldFrom(c)) /\ Cardinality(HeldFrom(c)) \in Nat
      <3>1. start \in Int /\ at \in Int
        BY <1>2
      <3> QED
        BY <2>2, <3>1, HeldIsFinite
    <2>4. start \in HeldFrom(c) <=> seen[start].country = c
      BY <1>1, <1>2 DEF HeldFrom
    <2>5. HeldFrom(c)' \in SUBSET (start..at)
      BY <2>1, <2>2
    <2>6. Cardinality(HeldFrom(c)') \in Nat
      <3>1. start \in Int /\ at \in Int
        BY <1>2
      <3> QED
        BY <2>5, <3>1, HeldIsFinite
    <2>7. Cardinality(HeldFrom(c)') =
            IF seen[start].country = c THEN Cardinality(HeldFrom(c)) - 1
                                       ELSE Cardinality(HeldFrom(c))
      BY <2>1, <2>3, <2>4, FS_RemoveElement
    <2>8. window[c] = Cardinality(HeldFrom(c)) /\ window \in [Countries -> Nat]
      BY DEF WindowInv
    <2>9. window'[c] = IF seen[start].country = c THEN window[c] - 1 ELSE window[c]
      BY <1>3, <2>8 DEF Without
    <2> QED
      BY <2>6, <2>7, <2>8, <2>9
  <1>8. window' \in [Countries -> Nat]
    <2>1. DOMAIN window' = Countries /\ window' = [c \in Countries |-> window'[c]]
      BY DEF Without, WindowInv
    <2> QED
      BY <1>7, <2>1
  <1>9. \A k \in 1..((start + 1) - 1) : seen[k].time + Span < seen[at].time
    <2> SUFFICES ASSUME NEW k \in 1..start PROVE seen[k].time + Span < seen[at].time
      BY <1>2
    <2>1. CASE k = start
      BY <1>4, <2>1
    <2>2. CASE k # start
      <3>1. k \in 1..(start - 1)
        BY <1>2, <2>2
      <3> QED
        BY <1>1, <3>1 DEF WindowInv
    <2> QED
      BY <2>1, <2>2
  <1>10. \A w \in 1..(at - 1) : Cardinality(CountriesUpTo(w, at - 1)') < MinCountries
    BY DEF WindowInv, CountriesUpTo
  <1>11. start + 1 \in 1..at
    BY <1>2, <1>5
  <1> QED
    BY <1>1, <1>2, <1>5, <1>6, <1>7, <1>8, <1>9, <1>10, <1>11 DEF WindowInv

\* A window that holds enough countries is one the docstring means.
LEMMA HitKeepsInv ==
    ASSUME WindowInv, Hit
    PROVE  WindowInv'
  <1> USE DEF Hit, EndWindow
  <1>1. Entered = at /\ at \in DOMAIN seen /\ start \in DOMAIN seen /\ start <= at
    BY DEF Entered, WindowInv, ListOK
  <1> DEFINE Near == CountriesFrom(seen[start], PairsOf(seen))
  <1>2. Near \subseteq Countries
    BY DEF CountriesFrom, PairsOf, WindowInv, ListOK
  <1>3. InWindow \subseteq Near
    <2> SUFFICES ASSUME NEW k \in start..at PROVE seen[k].country \in Near
      BY InWindowIs
    <2>1. k \in DOMAIN seen
      BY <1>1 DEF WindowInv, ListOK
    <2>2. start <= k /\ k <= at
      BY DEF WindowInv
    <2>3. seen[start].time <= seen[k].time /\ seen[k].time <= seen[at].time
      BY <1>1, <2>1, <2>2 DEF WindowInv, ListOK, Sorted
    <2>4. seen[k].time <= seen[start].time + Span
      BY <1>1, <2>1, <2>3, WindowAssumption DEF Expired, WindowInv, ListOK
    <2> QED
      BY <2>1, <2>3, <2>4 DEF CountriesFrom, PairsOf
  <1>4. InWindow \subseteq Countries
    BY DEF InWindow
  <1>5. Cardinality(InWindow) <= Cardinality(Near)
    BY <1>2, <1>3, <1>4, FewerCountries
  <1>6. Cardinality(InWindow) \in Nat /\ Cardinality(Near) \in Nat
    BY <1>2, <1>4, CountriesAreFinite
  <1>7. Cardinality(Near) >= MinCountries
    BY <1>5, <1>6, WindowAssumption
  <1>8. SpreadOver(PairsOf(seen))
    BY <1>1, <1>7 DEF SpreadOver, PairsOf
  <1>9. ListOK(seen)'
    BY DEF WindowInv, ListOK, Sorted
  <1>10. SpreadOver(PairsOf(seen))'
    BY <1>8, SpreadIsKept
  <1> QED
    BY <1>9, <1>10 DEF WindowInv

LEMMA AdvanceKeepsInv ==
    ASSUME WindowInv, Advance
    PROVE  WindowInv'
  <1> USE DEF Advance
  <1>1. Entered = at /\ Entered' = at /\ at \in DOMAIN seen /\ at \in Nat
    BY DEF Entered, WindowInv, ListOK
  <1>2. ListOK(seen)'
    BY DEF WindowInv, ListOK, Sorted
  <1>3. \A c \in Countries : HeldFrom(c)' = HeldFrom(c)
    BY <1>1 DEF HeldFrom
  <1>4. \A k \in 1..at : k \in DOMAIN seen /\ seen[k].time \in Nat /\ seen[k].country \in Countries
    BY <1>1 DEF WindowInv, ListOK
  <1>5. ASSUME NEW w \in 1..at
        PROVE  Cardinality(CountriesUpTo(w, at)) < MinCountries
    <2>1. CountriesUpTo(w, at) \subseteq Countries
      BY <1>4 DEF CountriesUpTo
    <2>2. CASE seen[at].time <= seen[w].time + Span
      <3>1. CountriesUpTo(w, at) \subseteq InWindow
        <4> SUFFICES ASSUME NEW j \in 1..at, seen[w].time <= seen[j].time
                     PROVE  j \in start..at
          BY InWindowIs DEF CountriesUpTo
        <4>1. ASSUME j < start PROVE FALSE
          <5>1. j \in 1..(start - 1)
            BY <1>1, <4>1 DEF WindowInv
          <5>2. seen[j].time + Span < seen[at].time
            BY <1>1, <5>1 DEF WindowInv
          <5> QED
            BY <1>1, <1>4, <2>2, <5>2, WindowAssumption
        <4> QED
          BY <1>1, <4>1 DEF WindowInv
      <3>2. InWindow \subseteq Countries
        BY DEF InWindow
      <3> QED
        BY <2>1, <3>1, <3>2, FewerCountries, CountriesAreFinite, WindowAssumption
    <2>3. CASE ~(seen[at].time <= seen[w].time + Span)
      <3>1. w \in 1..(at - 1)
        BY <1>1, <1>4, <2>3, WindowAssumption
      <3>2. CountriesUpTo(w, at) = CountriesUpTo(w, at - 1)
        BY <1>1, <2>3 DEF CountriesUpTo
      <3> QED
        BY <3>1, <3>2 DEF WindowInv
    <2> QED
      BY <2>2, <2>3
  <1>6. \A w \in 1..(at' - 1) : Cardinality(CountriesUpTo(w, at - 1)') < MinCountries
    <2> SUFFICES ASSUME NEW w \in 1..(at' - 1)
                 PROVE  Cardinality(CountriesUpTo(w, at - 1)') < MinCountries
      OBVIOUS
    <2>1. at' - 1 = at
      BY <1>1
    <2>2. CountriesUpTo(w, at - 1)' = CountriesUpTo(w, at)
      BY <2>1 DEF CountriesUpTo
    <2> QED
      BY <1>5, <2>1, <2>2
  <1>7. at' = at + 1 /\ at' - 1 = at /\ start \in 1..at' /\ at' \in Nat \ {0}
    BY <1>1 DEF WindowInv
  <1> QED
    BY <1>1, <1>2, <1>3, <1>6, <1>7 DEF WindowInv

\* A list that ran out without a hit has no such window anywhere.
LEMMA ExhaustedKeepsInv ==
    ASSUME WindowInv, Exhausted
    PROVE  WindowInv'
  <1> USE DEF Exhausted, EndWindow
  <1>1. PICK n \in Nat : DOMAIN seen = 1..n
    BY DEF WindowInv, ListOK
  <1>2. at - 1 = n
    BY <1>1 DEF WindowInv, Entered
  <1>3. ~SpreadOver(PairsOf(seen))
    <2> SUFFICES ASSUME NEW w \in 1..n
                 PROVE  ~(Cardinality(CountriesFrom(seen[w], PairsOf(seen))) >= MinCountries)
      BY <1>1 DEF SpreadOver, PairsOf
    <2>1. CountriesFrom(seen[w], PairsOf(seen)) = CountriesUpTo(w, n)
      BY <1>1 DEF CountriesFrom, PairsOf, CountriesUpTo
    <2>2. CountriesUpTo(w, n) \subseteq Countries
      BY <1>1 DEF CountriesUpTo, WindowInv, ListOK
    <2>3. Cardinality(CountriesUpTo(w, n)) < MinCountries
      BY <1>2 DEF WindowInv
    <2> QED
      BY <2>1, <2>2, <2>3, CountriesAreFinite, WindowAssumption
  <1>4. ListOK(seen)'
    BY DEF WindowInv, ListOK, Sorted
  <1>5. ~SpreadOver(PairsOf(seen))'
    BY <1>3, SpreadIsKept
  <1> QED
    BY <1>4, <1>5 DEF WindowInv

LEMMA WindowStepKeepsInv ==
    ASSUME WindowInv, WindowNext
    PROVE  WindowInv'
  BY EnterKeepsInv, DropKeepsInv, HitKeepsInv, AdvanceKeepsInv, ExhaustedKeepsInv DEF WindowNext

LEMMA WindowStutterKeepsInv ==
    ASSUME WindowInv, UNCHANGED windowVars
    PROVE  WindowInv'
  <1> USE DEF windowVars
  <1>1. ListOK(seen)' /\ Entered' = Entered
    BY DEF WindowInv, ListOK, Sorted, Entered
  <1>2. SpreadOver(PairsOf(seen))' = SpreadOver(PairsOf(seen))
    BY SpreadIsKept
  <1>3. \A c \in Countries : HeldFrom(c)' = HeldFrom(c)
    BY <1>1 DEF HeldFrom
  <1>4. \A w, m : CountriesUpTo(w, m)' = CountriesUpTo(w, m)
    BY DEF CountriesUpTo
  <1> QED
    BY <1>1, <1>2, <1>3, <1>4 DEF WindowInv

\* _multi_country (server.py:1452-1470) is exact on every list: it answers True if and
\* only if some window of Span holds MinCountries distinct countries.
THEOREM WindowIsExactAlways == WindowSpec => []AnswerIsExact
  <1>1. WindowIdle => WindowInv
    BY WindowIdleInv
  <1>2. WindowInv /\ [(\E s : ListOK(s) /\ BeginWindow(s)) \/ WindowNext]_windowVars
            => WindowInv'
    BY BeginKeepsInv, WindowStepKeepsInv, WindowStutterKeepsInv
  <1>3. WindowInv => AnswerIsExact
    BY DEF WindowInv, AnswerIsExact
  <1> QED
    BY <1>1, <1>2, <1>3, PTL DEF WindowSpec

-----------------------------------------------------------------------------
(***************************************************************************)
(* The cache of the site file.                                             *)
(***************************************************************************)
\* What the cache and each thread know of the file's versions.
SitesInv ==
    /\ version \in Nat
    /\ key # NoKey => /\ key \in 0..cachedFrom
                      /\ cachedFrom \in 0..version
                      /\ cached = content[cachedFrom]
    /\ loading \in [Threads -> {"out", "stat", "in"}]
    /\ statOf \in [Threads -> 0..version]
    /\ tableFrom \in [Threads -> 0..version]
    /\ DOMAIN table = Threads
    /\ TableIsCurrent

LEMMA SitesInitInv == SitesInit => SitesInv
  BY DEF SitesInit, SitesInv, TableIsCurrent, NoKey

LEMMA EditKeepsSites ==
    ASSUME SitesInv, NEW new, EditSites(new)
    PROVE  SitesInv'
  <1> USE DEF EditSites, cacheVars, threadVars
  <1>1. version \in Nat /\ version' = version + 1 /\ 0..version \subseteq 0..version'
    BY DEF SitesInv
  <1>2. \A v \in 0..version : content'[v] = content[v]
    BY <1>1
  <1>3. TableIsCurrent'
    BY <1>2 DEF SitesInv, TableIsCurrent
  <1>4. statOf' \in [Threads -> 0..version'] /\ tableFrom' \in [Threads -> 0..version']
    BY <1>1 DEF SitesInv
  <1>5. key' # NoKey => /\ key' \in 0..cachedFrom' /\ cachedFrom' \in 0..version'
                        /\ cached' = content'[cachedFrom']
    BY <1>1, <1>2 DEF SitesInv
  <1> QED
    BY <1>1, <1>3, <1>4, <1>5 DEF SitesInv

\* A thread that gets a table of its stat or later keeps the rest as it is.
LEMMA GetKeepsSites ==
    ASSUME SitesInv, NEW t \in Threads, NEW value, NEW from \in 0..version,
           Get(t, value, from), UNCHANGED <<fileVars, statOf>>,
           disturbed' \in {disturbed, disturbed \cup {t}},
           t \notin disturbed' => from >= statOf[t] /\ value = content[from]
    PROVE  /\ TableIsCurrent'
           /\ loading' \in [Threads -> {"out", "stat", "in"}]
           /\ tableFrom' \in [Threads -> 0..version]
           /\ DOMAIN table' = Threads
  <1> USE DEF Get, fileVars
  <1>1. /\ loading' \in [Threads -> {"out", "stat", "in"}]
        /\ tableFrom' \in [Threads -> 0..version]
        /\ DOMAIN table' = Threads
    BY DEF SitesInv
  <1>2. ASSUME NEW q \in Threads, loading'[q] = "in", q \notin disturbed'
        PROVE  tableFrom'[q] >= statOf[q] /\ table'[q] = content[tableFrom'[q]]
    <2>1. CASE q = t
      BY <1>2, <2>1 DEF SitesInv
    <2>2. CASE q # t
      BY <1>2, <2>2 DEF SitesInv, TableIsCurrent
    <2> QED
      BY <2>1, <2>2
  <1> QED
    BY <1>1, <1>2 DEF TableIsCurrent

LEMMA LoadKeepsSites ==
    ASSUME SitesInv, NEW t \in Threads, LoadStep(t)
    PROVE  SitesInv'
  <1>1. CASE TakeStat(t)
    <2> USE <1>1 DEF TakeStat, fileVars, cacheVars
    <2>1. /\ loading' \in [Threads -> {"out", "stat", "in"}]
          /\ statOf' \in [Threads -> 0..version]
      BY DEF SitesInv
    <2>2. \A q \in Threads : loading'[q] = "in" => loading[q] = "in" /\ statOf'[q] = statOf[q]
      BY DEF SitesInv
    <2>3. TableIsCurrent'
      BY <2>2 DEF SitesInv, TableIsCurrent
    <2> QED
      BY <2>1, <2>3 DEF SitesInv
  <1>2. CASE StatFails(t)
    <2> USE <1>2 DEF StatFails
    <2>1. version \in 0..version /\ t \in disturbed'
      BY DEF SitesInv
    <2>2. /\ TableIsCurrent'
          /\ loading' \in [Threads -> {"out", "stat", "in"}]
          /\ tableFrom' \in [Threads -> 0..version]
          /\ DOMAIN table' = Threads
      BY <2>1, GetKeepsSites
    <2> QED
      BY <2>2 DEF SitesInv, fileVars, cacheVars
  <1>3. CASE UseCached(t)
    <2> USE <1>3 DEF UseCached
    <2>1. statOf[t] \in 0..version /\ key = statOf[t] /\ key # NoKey
      BY DEF SitesInv, UpToDate, NoKey
    <2>2. cachedFrom \in 0..version /\ cachedFrom >= statOf[t] /\ cached = content[cachedFrom]
      BY <2>1 DEF SitesInv
    <2>3. /\ TableIsCurrent'
          /\ loading' \in [Threads -> {"out", "stat", "in"}]
          /\ tableFrom' \in [Threads -> 0..version]
          /\ DOMAIN table' = Threads
      BY <2>2, GetKeepsSites
    <2> QED
      BY <2>3 DEF SitesInv, fileVars, cacheVars
  <1>4. ASSUME NEW fails \in BOOLEAN, ReadSites(t, fails) PROVE SitesInv'
    <2> DEFINE value == IF fails THEN Unreadable ELSE content[version]
    <2>1. Get(t, value, version) /\ UNCHANGED <<fileVars, statOf>>
      BY <1>4 DEF ReadSites
    <2>2. disturbed' = IF fails THEN disturbed \cup {t} ELSE disturbed
      BY <1>4 DEF ReadSites
    <2>3. statOf[t] \in 0..version /\ version \in 0..version
      BY DEF SitesInv
    <2>4. t \notin disturbed' => version >= statOf[t] /\ value = content[version]
      BY <2>2, <2>3
    <2>5. /\ TableIsCurrent'
          /\ loading' \in [Threads -> {"out", "stat", "in"}]
          /\ tableFrom' \in [Threads -> 0..version]
          /\ DOMAIN table' = Threads
      BY <2>1, <2>2, <2>3, <2>4, GetKeepsSites
    <2>6. Keeps(value) => value = content[version]
      BY DEF Keeps, Unreadable
    <2>7. key' # NoKey => /\ key' = statOf[t] /\ cachedFrom' = version
                          /\ cached' = content[version]
      BY <1>4, <2>6 DEF ReadSites
    <2> QED
      BY <2>1, <2>3, <2>5, <2>7 DEF SitesInv, fileVars
  <1> QED
    BY <1>1, <1>2, <1>3, <1>4 DEF LoadStep

LEMMA LeaveKeepsSites ==
    ASSUME SitesInv, NEW t \in Threads, Leave(t)
    PROVE  SitesInv'
  <1> USE DEF Leave, fileVars, cacheVars
  <1>1. \A q \in Threads : loading'[q] = "in" => q # t /\ loading[q] = "in"
    BY DEF SitesInv
  <1>2. TableIsCurrent'
    BY <1>1 DEF SitesInv, TableIsCurrent
  <1> QED
    BY <1>2 DEF SitesInv

LEMMA SitesStutterKeepsInv ==
    ASSUME SitesInv, UNCHANGED siteVars
    PROVE  SitesInv'
  BY DEF SitesInv, siteVars, fileVars, cacheVars, threadVars, TableIsCurrent

\* sites.load never hands out a table older than the caller's own stat of the file, nor a
\* failure that is neither the file's nor its own, for any number of threads and edits.
THEOREM TableIsCurrentAlways == SitesSpec => []TableIsCurrent
  <1>1. SitesInit => SitesInv
    BY SitesInitInv
  <1>2. SitesInv /\ [SitesNext]_siteVars => SitesInv'
    BY EditKeepsSites, LoadKeepsSites, LeaveKeepsSites, SitesStutterKeepsInv DEF SitesNext
  <1>3. SitesInv => TableIsCurrent
    BY DEF SitesInv
  <1> QED
    BY <1>1, <1>2, <1>3, PTL DEF SitesSpec

\* What a thread was given before it took its stat is no newer than that stat.
ForwardInv == \A t \in Threads : loading[t] = "stat" => tableFrom[t] <= statOf[t]

LEMMA ForwardStep ==
    ASSUME SitesInv, ForwardInv, [SitesNext]_siteVars
    PROVE  ForwardInv' /\ \A t \in Threads : tableFrom'[t] >= tableFrom[t]
  <1>1. /\ version \in Nat /\ loading \in [Threads -> {"out", "stat", "in"}]
        /\ statOf \in [Threads -> 0..version] /\ tableFrom \in [Threads -> 0..version]
    BY DEF SitesInv
  <1>2. ASSUME UNCHANGED <<loading, statOf, tableFrom>>
        PROVE  ForwardInv' /\ \A t \in Threads : tableFrom'[t] >= tableFrom[t]
    BY <1>1, <1>2 DEF ForwardInv
  <1>3. ASSUME NEW t \in Threads, NEW value, NEW from \in 0..version, Get(t, value, from),
               tableFrom[t] <= from, statOf' = statOf
        PROVE  ForwardInv' /\ \A q \in Threads : tableFrom'[q] >= tableFrom[q]
    <2>1. loading'[t] = "in" /\ tableFrom'[t] = from
      BY <1>1, <1>3 DEF Get
    <2>2. \A q \in Threads : q # t => loading'[q] = loading[q] /\ tableFrom'[q] = tableFrom[q]
      BY <1>1, <1>3 DEF Get
    <2> QED
      BY <1>1, <1>3, <2>1, <2>2 DEF ForwardInv
  <1>4. ASSUME NEW t \in Threads, TakeStat(t)
        PROVE  ForwardInv' /\ \A q \in Threads : tableFrom'[q] >= tableFrom[q]
    <2>1. tableFrom' = tableFrom /\ statOf'[t] = version
      BY <1>1, <1>4 DEF TakeStat
    <2>2. \A q \in Threads : q # t => loading'[q] = loading[q] /\ statOf'[q] = statOf[q]
      BY <1>1, <1>4 DEF TakeStat
    <2> QED
      BY <1>1, <2>1, <2>2 DEF ForwardInv
  <1>5. ASSUME NEW t \in Threads, StatFails(t)
        PROVE  ForwardInv' /\ \A q \in Threads : tableFrom'[q] >= tableFrom[q]
    <2>1. version \in 0..version /\ tableFrom[t] <= version
      BY <1>1
    <2> QED
      BY <1>3, <1>5, <2>1 DEF StatFails
  <1>6. ASSUME NEW t \in Threads, UseCached(t)
        PROVE  ForwardInv' /\ \A q \in Threads : tableFrom'[q] >= tableFrom[q]
    <2>1. loading[t] = "stat" /\ key = statOf[t] /\ statOf[t] \in 0..version
      BY <1>1, <1>6 DEF UseCached, UpToDate
    <2>2. key # NoKey
      BY <2>1 DEF NoKey
    <2>3. cachedFrom \in 0..version /\ key <= cachedFrom
      BY <2>2 DEF SitesInv
    <2>4. tableFrom[t] <= cachedFrom
      BY <1>1, <2>1, <2>3 DEF ForwardInv
    <2> QED
      BY <1>3, <1>6, <2>3, <2>4 DEF UseCached
  <1>7. ASSUME NEW t \in Threads, NEW fails \in BOOLEAN, ReadSites(t, fails)
        PROVE  ForwardInv' /\ \A q \in Threads : tableFrom'[q] >= tableFrom[q]
    <2>1. version \in 0..version /\ tableFrom[t] <= version
      BY <1>1
    <2> QED
      BY <1>3, <1>7, <2>1 DEF ReadSites
  <1>8. ASSUME NEW t \in Threads, Leave(t)
        PROVE  ForwardInv' /\ \A q \in Threads : tableFrom'[q] >= tableFrom[q]
    <2>1. UNCHANGED <<statOf, tableFrom>> /\ loading' = [loading EXCEPT ![t] = "out"]
      BY <1>8 DEF Leave
    <2>2. \A q \in Threads : loading'[q] = "stat" => loading[q] = "stat"
      BY <1>1, <2>1
    <2> QED
      BY <1>1, <2>1, <2>2 DEF ForwardInv
  <1> QED
    BY <1>2, <1>4, <1>5, <1>6, <1>7, <1>8
       DEF SitesNext, LoadStep, EditSites, siteVars, threadVars

\* However the threads and the edits interleave, no thread is given an older table than the
\* one it had before.
THEOREM TablesAlwaysGoForward == SitesSpec => TablesGoForward
  <1>1. SitesInit => SitesInv /\ ForwardInv
    BY SitesInitInv DEF SitesInit, ForwardInv
  <1>2. SitesInv /\ [SitesNext]_siteVars => SitesInv'
    BY EditKeepsSites, LoadKeepsSites, LeaveKeepsSites, SitesStutterKeepsInv DEF SitesNext
  <1>3. SitesInv /\ ForwardInv /\ [SitesNext]_siteVars => ForwardInv'
    BY ForwardStep
  <1>4. SitesInv /\ ForwardInv /\ [SitesNext]_siteVars =>
            [\A t \in Threads : tableFrom'[t] >= tableFrom[t]]_siteVars
    BY ForwardStep
  <1> QED
    BY <1>1, <1>2, <1>3, <1>4, PTL DEF SitesSpec, TablesGoForward

-----------------------------------------------------------------------------
(***************************************************************************)
(* The call steps its parts as their own specifications allow.             *)
(***************************************************************************)
\* A row of a log, and what the two sets of a foreign account's rows hold.
LEMMA SeenPairsAre ==
    ASSUME NEW R \in SUBSET Row, NEW T, NEW u
    PROVE  \A r \in SeenPairs(R, T, u) : r.time \in Nat /\ r.country \in Countries
  BY DEF SeenPairs, ForeignOf, Foreign, Outside, Usable, Row

LEMMA ForeignUsersAreUsers ==
    ASSUME NEW R \in SUBSET Row, NEW T
    PROVE  ForeignUsers(R, T) \subseteq Users
  BY DEF ForeignUsers, Foreign, Outside, Usable, Row

\* The rows are the log's, and complete unless the walk was cut.
RowsInv ==
    /\ log \subseteq Row
    /\ IsFiniteSet(log)
    /\ rows \subseteq log
    /\ capped \in BOOLEAN
    /\ ~capped => rows = log

LEMMA InitRows == Init => RowsInv
  BY FS_EmptySet DEF Init, RowsInv

LEMMA StepKeepsRows ==
    ASSUME RowsInv, [Next]_vars
    PROVE  RowsInv'
  <1>1. CASE FetchSignins
    BY <1>1, SuspectsAssumption DEF FetchSignins, RowsInv
  <1>2. CASE UNCHANGED <<log, rows, capped>>
    BY <1>2 DEF RowsInv
  <1>3. ~FetchSignins => UNCHANGED <<log, rows, capped>>
    BY DEF Next, vars, callVars, ReadRisk, FetchFails, LoadRanges, OthersStep, AnswerStats,
           JudgeAccount, WindowStep, Judged, ListSuspects, MergeRisk, Finished
  <1> QED
    BY <1>1, <1>2, <1>3

\* Every step of the call is one of the sites cache's or leaves it alone.
THEOREM CallUsesTheCache == Spec => SitesSpec
  <1>1. Init => SitesInit
    BY DEF Init
  <1>2. [Next]_vars => [SitesNext]_siteVars
    BY SuspectsAssumption
       DEF Next, vars, SitesNext, ReadRisk, FetchSignins, FetchFails, LoadRanges, OthersStep,
           AnswerStats, JudgeAccount, WindowStep, Judged, ListSuspects, MergeRisk, Finished
  <1> QED
    BY <1>1, <1>2, PTL DEF Spec, SitesSpec

\* What the call knows of the walk of the sign-in log.
Fetched == IF pc \in {"risk", "walk"} THEN "none"
           ELSE IF pc = "error" THEN "failed" ELSE IF capped THEN "cut" ELSE "whole"

LogRead == INSTANCE OneRead WITH all <- log, answer <- Fetched

\* The sign-in log is read once (_fetch_signins, server.py:1108-1121), by the one-step read
\* that get_paged implements (Paging!WalkIsOneRead): neither the log nor the rows in hand
\* change while ranges are loaded, other calls run and the findings are put together.
THEOREM CallReadsTheLogOnce == Spec => LogRead!Spec
  <1>1. Init => LogRead!Init
    BY DEF Init, LogRead!Init, Fetched, Tools
  <1>2. [Next]_vars => [LogRead!Next]_<<log, rows, Fetched>>
    <2> SUFFICES ASSUME [Next]_vars
                 PROVE  [LogRead!Next]_<<log, rows, Fetched>>
      OBVIOUS
    <2>1. CASE FetchSignins
      <3>1. /\ Fetched = "none" /\ rows' \subseteq log' /\ (~capped' => rows' = log')
            /\ Fetched' = IF capped' THEN "cut" ELSE "whole"
        BY <2>1 DEF FetchSignins, Fetched
      <3>2. LogRead!Answer(Fetched') /\ Fetched' \in {"whole", "cut"}
        BY <3>1 DEF LogRead!Answer
      <3> QED
        BY <3>2 DEF LogRead!Next
    <2>2. CASE FetchFails
      <3>1. Fetched = "none" /\ Fetched' = "failed" /\ UNCHANGED <<log, rows>>
        BY <2>2 DEF FetchFails, Fetched
      <3> QED
        BY <3>1 DEF LogRead!Fail, LogRead!Next
    <2>3. CASE ~FetchSignins /\ ~FetchFails
      <3>1. UNCHANGED <<log, rows, capped>>
        BY <2>3 DEF Next, vars, callVars, ReadRisk, LoadRanges, OthersStep, AnswerStats,
               JudgeAccount, WindowStep, Judged, ListSuspects, MergeRisk, Finished
      <3>2. \/ pc' = pc
            \/ pc \in {"risk", "walk"} /\ pc' \in {"risk", "walk"}
            \/ pc \notin {"risk", "walk", "error"} /\ pc' \notin {"risk", "walk", "error"}
        BY <2>3 DEF Next, vars, callVars, ReadRisk, LoadRanges, OthersStep, AnswerStats,
               JudgeAccount, WindowStep, Judged, ListSuspects, MergeRisk, Finished
      <3>3. Fetched' = Fetched
        BY <3>1, <3>2 DEF Fetched
      <3> QED
        BY <3>1, <3>3
    <2> QED
      BY <2>1, <2>2, <2>3
  <1> QED
    BY <1>1, <1>2, PTL DEF Spec, LogRead!Spec

\* Every order of the sorted pairs is a list of them, oldest first.
LEMMA OrdersAreLists ==
    ASSUME NEW R \in SUBSET Row, IsFiniteSet(R), NEW T, NEW u,
           NEW s \in Orders(SeenPairs(R, T, u))
    PROVE  ListOK(s) /\ PairsOf(s) = SeenPairs(R, T, u)
  <1> DEFINE S == SeenPairs(R, T, u)
  <1>1. s \in [1..Cardinality(S) -> S] /\ PairsOf(s) = S /\ Sorted(s)
    BY DEF Orders
  <1>2. \A k \in DOMAIN s : s[k].time \in Nat /\ s[k].country \in Countries
    BY <1>1, SeenPairsAre DEF PairsOf
  <1>3. Cardinality(S) \in Nat
    <2>1. S \subseteq R
      BY DEF SeenPairs, ForeignOf, Foreign, Outside, Usable
    <2> QED
      BY <2>1, FS_Subset, FS_CardinalityType
  <1> QED
    BY <1>1, <1>2, <1>3 DEF ListOK

LEMMA RowsAlways == Spec => []RowsInv
  BY InitRows, StepKeepsRows, PTL DEF Spec

\* Every step of the call runs _multi_country on a list of pairs or leaves it alone.
THEOREM CallUsesTheWindow == Spec => WindowSpec
  <1>1. Init => WindowIdle
    BY DEF Init
  <1>2. RowsInv /\ [Next]_vars =>
            [(\E s : ListOK(s) /\ BeginWindow(s)) \/ WindowNext]_windowVars
    <2> SUFFICES ASSUME RowsInv, [Next]_vars, windowVars' # windowVars
                 PROVE  (\E s : ListOK(s) /\ BeginWindow(s)) \/ WindowNext
      OBVIOUS
    <2>1. (\E u \in Users : JudgeAccount(u)) \/ WindowStep
      BY DEF Next, vars, ReadRisk, FetchSignins, FetchFails, LoadRanges, OthersStep,
             AnswerStats, Judged, ListSuspects, MergeRisk, Finished
    <2>2. CASE WindowStep
      BY <2>2 DEF WindowStep
    <2>3. ASSUME NEW u \in Users, JudgeAccount(u)
          PROVE  \E s : ListOK(s) /\ BeginWindow(s)
      <3>1. PICK s \in Orders(SeenPairs(rows, Ranges, u)) : BeginWindow(s)
        BY <2>3 DEF JudgeAccount
      <3>2. rows \in SUBSET Row /\ IsFiniteSet(rows)
        BY FS_Subset DEF RowsInv
      <3> QED
        BY <3>1, <3>2, OrdersAreLists
    <2> QED
      BY <2>1, <2>2, <2>3
  <1> QED
    BY <1>1, <1>2, RowsAlways, PTL DEF Spec, WindowSpec

-----------------------------------------------------------------------------
(***************************************************************************)
(* What the call has found.                                                *)
(***************************************************************************)
\* The accounts judged so far are in `multi` exactly when they are spread, and an
\* answer, once given, is what the rows read hold.
FoundInv ==
    /\ tool \in Tools
    /\ pc \in {"risk", "walk", "load", "error"} => judged = {} /\ multi = {} /\ subject = Absent
    /\ judged \subseteq ForeignUsers(rows, Ranges)
    /\ multi = {u \in judged : SpreadOver(SeenPairs(rows, Ranges, u))}
    /\ subject # Absent =>
          /\ pc = "tally" /\ tool = "compromise_suspects"
          /\ subject \in ForeignUsers(rows, Ranges)
          /\ PairsOf(seen) = SeenPairs(rows, Ranges, subject)
    /\ pc = "merge" => /\ tool = "compromise_suspects"
                       /\ answer = FindingsIn(rows)
                       /\ multi = Spread(rows, Ranges)
    /\ pc = "done" => answer = FindingsIn(rows)
    /\ pc = "done" /\ tool = "compromise_suspects" =>
          /\ multi = Spread(rows, Ranges)
          /\ risk.available => LET high == High(rows, Ranges, multi) IN
                 counts = Recount(high, Suspected(rows, Ranges) \ high)

LEMMA InitFound == Init => FoundInv
  BY DEF Init, FoundInv, Tools

\* What is found depends on the rows, the ranges and the tool alone.
LEMMA FindingsAreKept ==
    ASSUME rows' = rows, Ranges' = Ranges, tool' = tool
    PROVE  /\ FindingsIn(rows)' = FindingsIn(rows)
           /\ ForeignUsers(rows, Ranges)' = ForeignUsers(rows, Ranges)
           /\ Suspected(rows, Ranges)' = Suspected(rows, Ranges)
           /\ Spread(rows, Ranges)' = Spread(rows, Ranges)
           /\ \A u : SeenPairs(rows, Ranges, u)' = SeenPairs(rows, Ranges, u)
           /\ \A u : SpreadOver(SeenPairs(rows, Ranges, u))' = SpreadOver(SeenPairs(rows, Ranges, u))
  <1>1. \A R, T : ForeignUsers(R, T)' = ForeignUsers(R, T)
    OBVIOUS
  <1> QED
    BY <1>1 DEF FindingsIn

\* Until the rows are tallied nothing is found.
LEMMA EarlyKeepsFound ==
    ASSUME FoundInv, pc \in {"risk", "walk", "load"},
           pc' \in {"risk", "walk", "load", "tally", "error"}, UNCHANGED <<tool, judgeVars>>
    PROVE  FoundInv'
  BY DEF FoundInv, judgeVars, Tools

LEMMA AnswerStatsKeepsFound ==
    ASSUME FoundInv, AnswerStats
    PROVE  FoundInv'
  <1> USE DEF AnswerStats, siteVars, threadVars, judgeVars
  <1>1. rows' = rows /\ Ranges' = Ranges /\ tool' = tool /\ subject = Absent
    BY DEF FoundInv, Ranges
  <1>2. answer' = FindingsIn(rows)'
    <2>1. answer' = FindingsIn(rows)
      <3>1. CASE tool = "signin_failure_stats"
        BY <3>1 DEF FindingsIn
      <3>2. CASE tool = "signin_success_stats"
        BY <3>2 DEF FindingsIn
      <3> QED
        BY <3>1, <3>2 DEF FoundInv, Tools
    <2> QED
      BY <1>1, <2>1, FindingsAreKept
  <1>3. ForeignUsers(rows, Ranges)' = ForeignUsers(rows, Ranges)
    BY <1>1, FindingsAreKept
  <1>4. \A u : SpreadOver(SeenPairs(rows, Ranges, u))' = SpreadOver(SeenPairs(rows, Ranges, u))
    BY <1>1, FindingsAreKept
  <1>5. pc' = "done" /\ tool' # "compromise_suspects" /\ judged' = judged /\ multi' = multi /\ subject' = Absent
    BY <1>1
  <1> QED
    BY <1>2, <1>3, <1>4, <1>5 DEF FoundInv

LEMMA JudgeKeepsFound ==
    ASSUME RowsInv, FoundInv, NEW u \in Users, JudgeAccount(u)
    PROVE  FoundInv'
  <1>1. rows' = rows /\ Ranges' = Ranges /\ tool' = tool /\ pc' = "tally"
    BY DEF JudgeAccount, siteVars, threadVars, callVars, Ranges
  <1>2. tool' = "compromise_suspects" /\ judged' = judged /\ multi' = multi /\ subject' = u
    BY DEF JudgeAccount, callVars
  <1>3. u \in ForeignUsers(rows, Ranges)'
    BY <1>1, FindingsAreKept DEF JudgeAccount
  <1>4. PairsOf(seen)' = SeenPairs(rows, Ranges, u)'
    <2>1. PICK s \in Orders(SeenPairs(rows, Ranges, u)) : BeginWindow(s)
      BY DEF JudgeAccount
    <2>2. seen' = s /\ PairsOf(s) = SeenPairs(rows, Ranges, u)
      BY <2>1 DEF BeginWindow, Orders
    <2>3. PairsOf(seen)' = PairsOf(s)
      BY <2>2 DEF PairsOf
    <2> QED
      BY <1>1, <2>2, <2>3, FindingsAreKept
  <1>5. ForeignUsers(rows, Ranges)' = ForeignUsers(rows, Ranges)
    BY <1>1, FindingsAreKept
  <1>6. \A v : SpreadOver(SeenPairs(rows, Ranges, v))' = SpreadOver(SeenPairs(rows, Ranges, v))
    BY <1>1, FindingsAreKept
  <1> QED
    BY <1>1, <1>2, <1>3, <1>4, <1>5, <1>6 DEF FoundInv

LEMMA WindowStepKeepsFound ==
    ASSUME FoundInv, WindowStep
    PROVE  FoundInv'
  <1>1. /\ rows' = rows /\ Ranges' = Ranges /\ tool' = tool /\ pc' = pc
        /\ judged' = judged /\ multi' = multi /\ subject' = subject
    BY DEF WindowStep, siteVars, threadVars, callVars, judgeVars, Ranges
  <1>2. seen' = seen /\ subject # Absent /\ pc = "tally"
    BY DEF WindowStep, WindowNext, EnterWindow, DropOldest, Hit, Advance, Exhausted, EndWindow, FoundInv
  <1>3. PairsOf(seen)' = PairsOf(seen)
    BY <1>2 DEF PairsOf
  <1>4. ForeignUsers(rows, Ranges)' = ForeignUsers(rows, Ranges)
    BY <1>1, FindingsAreKept
  <1>5. \A v : /\ SpreadOver(SeenPairs(rows, Ranges, v))' = SpreadOver(SeenPairs(rows, Ranges, v))
               /\ SeenPairs(rows, Ranges, v)' = SeenPairs(rows, Ranges, v)
    BY <1>1, FindingsAreKept
  <1> QED
    BY <1>1, <1>2, <1>3, <1>4, <1>5 DEF FoundInv

LEMMA JudgedKeepsFound ==
    ASSUME FoundInv, AnswerIsExact, Judged
    PROVE  FoundInv'
  <1>1. rows' = rows /\ Ranges' = Ranges /\ tool' = tool /\ pc' = "tally"
    BY DEF Judged, siteVars, threadVars, callVars, Ranges, FoundInv
  <1>2. verdict <=> SpreadOver(SeenPairs(rows, Ranges, subject))
    BY DEF Judged, AnswerIsExact, FoundInv
  <1>3. /\ judged' = judged \cup {subject} /\ subject' = Absent
        /\ multi' = IF verdict THEN multi \cup {subject} ELSE multi
        /\ subject \in ForeignUsers(rows, Ranges)
    BY DEF Judged, FoundInv
  <1>4. ForeignUsers(rows, Ranges)' = ForeignUsers(rows, Ranges)
    BY <1>1, FindingsAreKept
  <1>5. \A v : SpreadOver(SeenPairs(rows, Ranges, v))' <=> SpreadOver(SeenPairs(rows, Ranges, v))
    BY <1>1, FindingsAreKept
  <1>6. multi' = {v \in judged' : SpreadOver(SeenPairs(rows, Ranges, v))'}
    <2>1. multi = {v \in judged : SpreadOver(SeenPairs(rows, Ranges, v))}
      BY DEF FoundInv
    <2> QED
      BY <1>2, <1>3, <1>5, <2>1
  <1>7. judged' \subseteq ForeignUsers(rows, Ranges)'
    BY <1>3, <1>4 DEF FoundInv
  <1> QED
    BY <1>1, <1>3, <1>6, <1>7 DEF FoundInv

LEMMA ListKeepsFound ==
    ASSUME FoundInv, ListSuspects
    PROVE  FoundInv'
  <1>1. /\ rows' = rows /\ Ranges' = Ranges /\ tool' = "compromise_suspects" /\ pc' = "merge"
        /\ tool' = tool /\ judged' = judged /\ multi' = multi /\ subject' = Absent
    BY DEF ListSuspects, siteVars, threadVars, judgeVars, Ranges
  <1>2. judged = ForeignUsers(rows, Ranges)
    BY DEF ListSuspects, FoundInv
  <1>3. multi = Spread(rows, Ranges)
    BY <1>2 DEF Spread, FoundInv
  <1>4. answer' = FindingsIn(rows)
    BY <1>1, <1>3 DEF ListSuspects, FindingsIn
  <1>5. /\ FindingsIn(rows)' = FindingsIn(rows)
        /\ ForeignUsers(rows, Ranges)' = ForeignUsers(rows, Ranges)
        /\ Spread(rows, Ranges)' = Spread(rows, Ranges)
        /\ \A v : SpreadOver(SeenPairs(rows, Ranges, v))' = SpreadOver(SeenPairs(rows, Ranges, v))
    BY <1>1, FindingsAreKept
  <1> QED
    BY <1>1, <1>3, <1>4, <1>5 DEF FoundInv

LEMMA MergeKeepsFound ==
    ASSUME FoundInv, MergeRisk
    PROVE  FoundInv'
  <1> DEFINE high == High(rows, Ranges, multi)
  <1>1. /\ rows' = rows /\ Ranges' = Ranges /\ tool' = tool /\ pc' = "done" /\ risk' = risk
        /\ judged' = judged /\ multi' = multi /\ subject' = subject /\ answer' = answer
    BY DEF MergeRisk, siteVars, threadVars, judgeVars, Ranges
  <1>2. pc = "merge" /\ subject = Absent
    BY DEF MergeRisk, FoundInv
  <1>3. risk.available => counts' = Recount(high, Suspected(rows, Ranges) \ high)
    BY DEF MergeRisk
  <1>4. /\ FindingsIn(rows)' = FindingsIn(rows)
        /\ ForeignUsers(rows, Ranges)' = ForeignUsers(rows, Ranges)
        /\ Spread(rows, Ranges)' = Spread(rows, Ranges)
        /\ \A v : SpreadOver(SeenPairs(rows, Ranges, v))' = SpreadOver(SeenPairs(rows, Ranges, v))
    BY <1>1, FindingsAreKept
  <1>5. Recount(high, Suspected(rows, Ranges) \ high)' = Recount(high, Suspected(rows, Ranges) \ high)
    BY <1>1 DEF Recount
  <1> HIDE DEF high
  <1>6. risk.available' => counts' = Recount(high, Suspected(rows, Ranges) \ high)'
    BY <1>1, <1>3, <1>5
  <1> QED
    BY <1>1, <1>2, <1>4, <1>6 DEF FoundInv, high

LEMMA StutterKeepsFound ==
    ASSUME FoundInv, UNCHANGED vars
    PROVE  FoundInv'
  <1>1. /\ rows' = rows /\ Ranges' = Ranges /\ tool' = tool /\ pc' = pc /\ risk' = risk
        /\ judged' = judged /\ multi' = multi /\ subject' = subject /\ answer' = answer
        /\ counts' = counts /\ seen' = seen
    BY DEF vars, siteVars, threadVars, windowVars, callVars, judgeVars, answerVars, Ranges
  <1>2. PairsOf(seen)' = PairsOf(seen)
    BY <1>1 DEF PairsOf
  <1>3. /\ FindingsIn(rows)' = FindingsIn(rows)
        /\ ForeignUsers(rows, Ranges)' = ForeignUsers(rows, Ranges)
        /\ Spread(rows, Ranges)' = Spread(rows, Ranges)
        /\ \A v : /\ SpreadOver(SeenPairs(rows, Ranges, v))' = SpreadOver(SeenPairs(rows, Ranges, v))
                  /\ SeenPairs(rows, Ranges, v)' = SeenPairs(rows, Ranges, v)
    BY <1>1, FindingsAreKept
  <1>4. \A h, m : Recount(h, m)' = Recount(h, m)
    BY <1>1 DEF Recount
  <1> QED
    BY <1>1, <1>2, <1>3, <1>4 DEF FoundInv

LEMMA StepKeepsFound ==
    ASSUME RowsInv, AnswerIsExact, FoundInv, [Next]_vars
    PROVE  FoundInv'
  <1>1. ASSUME NEW r, ReadRisk(r) PROVE FoundInv'
    BY <1>1, EarlyKeepsFound DEF ReadRisk
  <1>2. CASE FetchSignins
    BY <1>2, EarlyKeepsFound DEF FetchSignins
  <1>3. CASE FetchFails
    BY <1>3, EarlyKeepsFound DEF FetchFails
  <1>4. CASE LoadRanges
    BY <1>4, EarlyKeepsFound DEF LoadRanges
  <1>5. CASE OthersStep
    BY <1>5, EarlyKeepsFound DEF OthersStep, callVars
  <1> QED
    BY <1>1, <1>2, <1>3, <1>4, <1>5, AnswerStatsKeepsFound, JudgeKeepsFound,
       WindowStepKeepsFound, JudgedKeepsFound, ListKeepsFound, MergeKeepsFound,
       StutterKeepsFound
       DEF Next, Finished

LEMMA FoundAlways == Spec => []FoundInv
  <1>1. RowsInv /\ AnswerIsExact /\ FoundInv /\ [Next]_vars => FoundInv'
    BY StepKeepsFound
  <1> QED
    BY <1>1, InitFound, RowsAlways, CallUsesTheWindow, WindowIsExactAlways, PTL DEF Spec

\* _multi_country as compromise_suspects calls it: exact for every account of every log,
\* span and number of countries.
THEOREM JudgementIsExact == Spec => []WindowIsExact
  <1>1. FoundInv /\ AnswerIsExact => WindowIsExact
    BY DEF FoundInv, AnswerIsExact, WindowIsExact
  <1> QED
    BY <1>1, FoundAlways, CallUsesTheWindow, WindowIsExactAlways, PTL

\* What the tools get from the cache is current, whatever other calls do meanwhile.
THEOREM CallsTableIsCurrent == Spec => []TableIsCurrent
  BY CallUsesTheCache, TableIsCurrentAlways, PTL

\* Nor is a call, whatever calls of other tools share the cache with it.
THEOREM CallsTablesGoForward == Spec => TablesGoForward
  BY CallUsesTheCache, TablesAlwaysGoForward, PTL

\* A user name is said not to have been at home only when the whole window has no sign-in
\* from home under this name.
THEOREM NotAtHomeIsProvedAlways == Spec => []NotAtHomeIsProved
  <1>1. RowsInv => NotAtHomeIsProved
    <2> SUFFICES ASSUME RowsInv, NEW u
                 PROVE  /\ AtHome(u) = "false" =>
                             \A r \in Inside(log, Ranges) \cup FromHome(log, Ranges) : r.user # u
                        /\ AtHome(u) = "true" => u \in HomeSuccess(log, Ranges)
      BY DEF NotAtHomeIsProved
    <2>1. AtHome(u) = "false" => rows = log /\ u \notin HomeSuccess(rows, Ranges)
      BY DEF AtHome, Null, RowsInv
    <2>2. AtHome(u) = "true" => u \in HomeSuccess(rows, Ranges)
      BY DEF AtHome, Null
    <2>3. HomeSuccess(rows, Ranges) \subseteq HomeSuccess(log, Ranges)
      BY DEF RowsInv, HomeSuccess, Inside, FromHome, Outside, Usable
    <2> QED
      BY <2>1, <2>2, <2>3 DEF HomeSuccess
  <1> QED
    BY <1>1, RowsAlways, PTL

-----------------------------------------------------------------------------
(***************************************************************************)
(* More rows only add findings.                                            *)
(***************************************************************************)
LEMMA MoreUsers ==
    ASSUME NEW S \in SUBSET Users, NEW T \in SUBSET Users, S \subseteq T
    PROVE  /\ Cardinality(S) \in Nat /\ Cardinality(T) \in Nat
           /\ Cardinality(S) <= Cardinality(T)
  BY SuspectsAssumption, FS_Subset, FS_CardinalityType

LEMMA FailureFindingsGrow ==
    ASSUME NEW R \in SUBSET Row, NEW S \in SUBSET R, NEW T
    PROVE  FailureFindings(S, T) \subseteq FailureFindings(R, T)
  <1>1. ASSUME NEW ip \in Ips PROVE Cardinality(FailingAt(S, ip)) <= Cardinality(FailingAt(R, ip))
                              /\ Cardinality(FailingAt(S, ip)) \in Nat
                              /\ Cardinality(FailingAt(R, ip)) \in Nat
    <2>1. FailingAt(S, ip) \subseteq FailingAt(R, ip) /\ FailingAt(R, ip) \subseteq Users
      BY DEF FailingAt, Failures, Row
    <2> QED
      BY <2>1, MoreUsers
  <1>2. SpraySuspects(S) \subseteq SpraySuspects(R)
    BY <1>1, SuspectsAssumption DEF SpraySuspects
  <1> QED
    BY <1>2 DEF FailureFindings

LEMMA SuccessFindingsGrow ==
    ASSUME NEW R \in SUBSET Row, NEW S \in SUBSET R
    PROVE  SuccessFindings(S) \subseteq SuccessFindings(R)
  <1>1. ASSUME NEW ip \in Ips, Cardinality(SharedBy(S, ip)) >= MinUsers
        PROVE  Cardinality(SharedBy(R, ip)) >= MinUsers
    <2>1. SharedBy(S, ip) \subseteq SharedBy(R, ip) /\ SharedBy(R, ip) \subseteq Users
      BY DEF SharedBy, Successes, Row
    <2>2. /\ Cardinality(SharedBy(S, ip)) \in Nat /\ Cardinality(SharedBy(R, ip)) \in Nat
          /\ Cardinality(SharedBy(S, ip)) <= Cardinality(SharedBy(R, ip))
      BY <2>1, MoreUsers
    <2> QED
      BY <1>1, <2>2, SuspectsAssumption
  <1>2. Successes(S) \subseteq Successes(R)
    BY DEF Successes
  <1>3. {i \in Ips : Cardinality(SharedBy(S, i)) >= MinUsers}
          \subseteq {i \in Ips : Cardinality(SharedBy(R, i)) >= MinUsers}
    BY <1>1
  <1> QED
    BY <1>2, <1>3 DEF SuccessFindings

LEMMA BreachesGrow ==
    ASSUME NEW R \in SUBSET Row, NEW S \in SUBSET R, NEW T
    PROVE  Breaches(S, T) \subseteq Breaches(R, T)
  <1>1. ASSUME NEW ip, Cardinality(CredentialFailures(S, ip)) >= MinUsers
        PROVE  Cardinality(CredentialFailures(R, ip)) >= MinUsers
    <2>1. /\ CredentialFailures(S, ip) \subseteq CredentialFailures(R, ip)
          /\ CredentialFailures(R, ip) \subseteq Users
      BY DEF CredentialFailures, Usable, Row
    <2>2. /\ Cardinality(CredentialFailures(S, ip)) \in Nat
          /\ Cardinality(CredentialFailures(R, ip)) \in Nat
          /\ Cardinality(CredentialFailures(S, ip)) <= Cardinality(CredentialFailures(R, ip))
      BY <2>1, MoreUsers
    <2> QED
      BY <1>1, <2>2, SuspectsAssumption
  <1>2. Outside(S, T) \subseteq Outside(R, T)
    BY DEF Outside, Usable
  <1>3. SprayIps(S, T) \subseteq SprayIps(R, T)
    BY <1>1, <1>2 DEF SprayIps
  <1> QED
    BY <1>2, <1>3 DEF Breaches

LEMMA ForeignGrows ==
    ASSUME NEW R \in SUBSET Row, NEW S \in SUBSET R, NEW T
    PROVE  /\ ForeignUsers(S, T) \subseteq ForeignUsers(R, T)
           /\ \A u : ForeignOf(S, T, u) \subseteq ForeignOf(R, T, u)
           /\ \A u : SeenPairs(S, T, u) \subseteq SeenPairs(R, T, u)
  <1>1. Foreign(S, T) \subseteq Foreign(R, T)
    BY DEF Foreign, Outside, Usable
  <1> QED
    BY <1>1 DEF ForeignUsers, ForeignOf, SeenPairs

LEMMA SpreadGrows ==
    ASSUME NEW R \in SUBSET Row, NEW S \in SUBSET R, NEW T
    PROVE  Spread(S, T) \subseteq Spread(R, T)
  <1> SUFFICES ASSUME NEW u, SpreadOver(SeenPairs(S, T, u))
               PROVE  SpreadOver(SeenPairs(R, T, u))
    BY ForeignGrows DEF Spread
  <1> DEFINE few == SeenPairs(S, T, u)
             all == SeenPairs(R, T, u)
  <1>1. few \subseteq all
    BY ForeignGrows
  <1>2. PICK w \in few : Cardinality(CountriesFrom(w, few)) >= MinCountries
    BY DEF SpreadOver
  <1>3. CountriesFrom(w, few) \subseteq CountriesFrom(w, all)
    BY <1>1 DEF CountriesFrom
  <1>4. CountriesFrom(w, all) \subseteq Countries
    BY SeenPairsAre DEF CountriesFrom
  <1>5. Cardinality(CountriesFrom(w, all)) >= MinCountries
    <2>1. /\ Cardinality(CountriesFrom(w, few)) \in Nat /\ Cardinality(CountriesFrom(w, all)) \in Nat
          /\ Cardinality(CountriesFrom(w, few)) <= Cardinality(CountriesFrom(w, all))
      BY <1>3, <1>4, FewerCountries, CountriesAreFinite
    <2> QED
      BY <1>2, <2>1, WindowAssumption
  <1> QED
    BY <1>1, <1>5 DEF SpreadOver

LEMMA CompromiseFindingsGrow ==
    ASSUME NEW R \in SUBSET Row, NEW S \in SUBSET R, NEW T
    PROVE  CompromiseFindings(S, T, Spread(S, T)) \subseteq CompromiseFindings(R, T, Spread(R, T))
  <1>1. Breaches(S, T) \subseteq Breaches(R, T)
    BY BreachesGrow
  <1>2. HighBreached(S, T) \subseteq HighBreached(R, T)
    BY <1>1 DEF HighBreached, Breached
  <1>3. /\ ForeignUsers(S, T) \subseteq ForeignUsers(R, T)
        /\ \A u : ForeignOf(S, T, u) \subseteq ForeignOf(R, T, u)
    BY ForeignGrows
  <1>4. Spread(S, T) \subseteq Spread(R, T)
    BY SpreadGrows
  <1>5. High(S, T, Spread(S, T)) \subseteq High(R, T, Spread(R, T))
    BY <1>2, <1>3, <1>4 DEF High
  <1> QED
    BY <1>1, <1>3, <1>5 DEF CompromiseFindings

\* What a walk cut anywhere finds is a part of what the whole log holds: nothing a
\* statistics tool reports would be taken back by the rows it did not read.
THEOREM FindingsAreLowerBoundAlways == Spec => []FindingsAreLowerBound
  <1>1. RowsInv /\ FoundInv => FindingsAreLowerBound
    <2> SUFFICES ASSUME RowsInv, FoundInv PROVE FindingsIn(rows) \subseteq FindingsIn(log)
      BY DEF FindingsAreLowerBound, FoundInv
    <2>1. log \in SUBSET Row /\ rows \in SUBSET log
      BY DEF RowsInv
    <2>2. CASE tool = "signin_failure_stats"
      BY <2>1, <2>2, FailureFindingsGrow DEF FindingsIn
    <2>3. CASE tool = "signin_success_stats"
      BY <2>1, <2>3, SuccessFindingsGrow DEF FindingsIn
    <2>4. CASE tool = "compromise_suspects"
      BY <2>1, <2>4, CompromiseFindingsGrow DEF FindingsIn
    <2> QED
      BY <2>2, <2>3, <2>4 DEF FoundInv, Tools
  <1> QED
    BY <1>1, RowsAlways, FoundAlways, PTL

-----------------------------------------------------------------------------
(***************************************************************************)
(* The counts.                                                             *)
(***************************************************************************)
LEMMA AccountsAreFinite ==
    ASSUME NEW names \in SUBSET Users
    PROVE  IsFiniteSet(Accounts(names)) /\ Cardinality(Accounts(names)) \in Nat
  <1> DEFINE f == [u \in names |-> AccountOf[u]]
  <1>1. IsFiniteSet(names)
    BY SuspectsAssumption, FS_Subset
  <1>2. f \in Surjection(names, Accounts(names))
    BY DEF Surjection, Accounts
  <1> QED
    BY <1>1, <1>2, FS_Surjection, FS_CardinalityType

LEMMA SuspectsAreUsers ==
    ASSUME NEW R \in SUBSET Row, NEW T, NEW many
    PROVE  Suspected(R, T) \subseteq Users /\ High(R, T, many) \subseteq Suspected(R, T)
  BY ForeignUsersAreUsers
     DEF Suspected, High, HighBreached, Breached, Breaches, Outside, Usable, Row

LEMMA RisksAreUsers ==
    ASSUME risk \in RiskAnswers \cup {NoRisk}
    PROVE  risk.high \subseteq Users /\ risk.medium \subseteq Users
  BY SuspectsAssumption DEF NoRisk, RiskAnswer

LEMMA TypeInit == Init => TypeOK
  BY DEF Init, TypeOK, Tools, NoCounts

LEMMA CountsAreNumbers ==
    ASSUME TypeOK, NEW high \in SUBSET Users, NEW medium \in SUBSET Users
    PROVE  /\ Recount(high, medium) \in [high : Nat, medium : Nat]
           /\ [high |-> Cardinality(high), medium |-> Cardinality(medium)]
                \in [high : Nat, medium : Nat]
  <1>1. risk.high \subseteq Users /\ risk.medium \subseteq Users
    BY RisksAreUsers DEF TypeOK
  <1> DEFINE all == Accounts(high \cup risk.high)
             two == Accounts(medium \cup risk.medium)
  <1>2. IsFiniteSet(all) /\ IsFiniteSet(two)
    BY <1>1, AccountsAreFinite
  <1>3. Cardinality(all) \in Nat /\ Cardinality(two \ all) \in Nat
    BY <1>2, FS_Difference, FS_CardinalityType
  <1>4. Cardinality(high) \in Nat /\ Cardinality(medium) \in Nat
    BY SuspectsAssumption, FS_Subset, FS_CardinalityType
  <1> QED
    BY <1>3, <1>4 DEF Recount

LEMMA StepKeepsType ==
    ASSUME TypeOK, RowsInv, [Next]_vars
    PROVE  TypeOK'
  <1> DEFINE high == High(rows, Ranges, multi)
             low == Suspected(rows, Ranges) \ high
  <1>1. log' \subseteq Row /\ rows' \subseteq log' /\ capped' \in BOOLEAN /\ (~capped' => rows' = log')
    BY StepKeepsRows DEF RowsInv
  <1>2. high \subseteq Users /\ low \subseteq Users
    BY SuspectsAreUsers DEF RowsInv
  <1>3. ListSuspects => counts' = [high |-> Cardinality(high), medium |-> Cardinality(low)]
    BY DEF ListSuspects
  <1>4. MergeRisk => counts' \in {Recount(high, low), counts}
    BY DEF MergeRisk
  <1>5. ~ListSuspects /\ ~MergeRisk => counts' = counts
    BY DEF Next, vars, answerVars, ReadRisk, FetchSignins, FetchFails, LoadRanges, OthersStep,
           AnswerStats, JudgeAccount, WindowStep, Judged, Finished
  <1> HIDE DEF high, low
  <1>6. counts' \in [high : Nat, medium : Nat]
    BY <1>2, <1>3, <1>4, <1>5, CountsAreNumbers DEF TypeOK
  <1>7. risk' \in RiskAnswers \cup {NoRisk} /\ tool' \in Tools
    BY DEF TypeOK, Next, vars, callVars, ReadRisk, FetchSignins, FetchFails, LoadRanges,
           OthersStep, AnswerStats, JudgeAccount, WindowStep, Judged, ListSuspects, MergeRisk,
           Finished
  <1>8. /\ subject' \in Users \cup {Absent}
        /\ judged' \subseteq Users
        /\ multi' \subseteq judged'
    BY DEF TypeOK, Next, vars, judgeVars, ReadRisk, FetchSignins, FetchFails, LoadRanges,
           OthersStep, AnswerStats, JudgeAccount, WindowStep, Judged, ListSuspects, MergeRisk,
           Finished
  <1>9. pc' \in {"risk", "walk", "load", "tally", "merge", "done", "error"}
    BY DEF TypeOK, Next, vars, callVars, ReadRisk, FetchSignins, FetchFails, LoadRanges,
           OthersStep, AnswerStats, JudgeAccount, WindowStep, Judged, ListSuspects, MergeRisk,
           Finished
  <1> QED
    BY <1>1, <1>6, <1>7, <1>8, <1>9 DEF TypeOK

\* The state of a call keeps its shape for every log, table and risk answer.
THEOREM SuspectsAreTyped == Spec => []TypeOK
  <1>1. TypeOK /\ RowsInv /\ [Next]_vars => TypeOK'
    BY StepKeepsType
  <1> QED
    BY <1>1, TypeInit, RowsAlways, PTL DEF Spec

\* With Microsoft's lists every account of any finding is counted once, as high or as
\* medium, however its name is written.
THEOREM AccountsAreCountedOnceAlways == Spec => []AccountsAreCountedOnce
  <1>1. TypeOK /\ FoundInv => AccountsAreCountedOnce
    <2> DEFINE high == High(rows, Ranges, multi)
               low == Suspected(rows, Ranges) \ high
               all == Accounts(high \cup risk.high)
               two == Accounts(low \cup risk.medium)
               any == Accounts(Suspected(rows, Ranges) \cup risk.high \cup risk.medium)
    <2> SUFFICES ASSUME TypeOK, FoundInv, pc = "done", tool = "compromise_suspects",
                        risk.available
                 PROVE  counts.high + counts.medium = Cardinality(any)
      BY DEF AccountsAreCountedOnce
    <2>1. counts = Recount(high, low)
      BY DEF FoundInv
    <2>2. counts.high = Cardinality(all) /\ counts.medium = Cardinality(two \ all)
      BY <2>1 DEF Recount
    <2>3. high \subseteq Suspected(rows, Ranges) /\ Suspected(rows, Ranges) \subseteq Users
      BY SuspectsAreUsers DEF TypeOK
    <2>4. risk.high \subseteq Users /\ risk.medium \subseteq Users
      BY RisksAreUsers DEF TypeOK
    <2>5. any = all \cup (two \ all)
      BY <2>3 DEF Accounts
    <2>6. IsFiniteSet(all) /\ IsFiniteSet(two)
      BY <2>3, <2>4, AccountsAreFinite
    <2> HIDE DEF all, two, any
    <2>7. IsFiniteSet(two \ all)
      BY <2>6, FS_Difference
    <2>8. all \cap (two \ all) = {}
      OBVIOUS
    <2>9. Cardinality(any) = Cardinality(all) + Cardinality(two \ all) - Cardinality({})
      BY <2>5, <2>6, <2>7, <2>8, FS_Union
    <2>10. Cardinality(all) \in Nat /\ Cardinality(two \ all) \in Nat
      BY <2>6, <2>7, FS_CardinalityType
    <2> QED
      BY <2>2, <2>9, <2>10, FS_EmptySet
  <1> QED
    BY <1>1, SuspectsAreTyped, FoundAlways, PTL
=============================================================================
