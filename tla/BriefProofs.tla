----------------------------- MODULE BriefProofs -----------------------------
(***************************************************************************)
(* daily_brief keeps its budget, for every number of tenants, budget and   *)
(* length of the reads.                                                    *)
(***************************************************************************)
EXTENDS Brief, Integers, TLAPS

\* The times are numbers, and a share ends with the budget unless it was spent before the
\* turn began: then the tenant's turn has no time at all.
BudgetInv ==
    /\ now \in Nat /\ whole \in Nat /\ share \in Nat
    /\ turn \in 0..Count
    /\ step = "answer" => now < share
    /\ turn # 0 => /\ share <= whole \/ share <= now
                   /\ now <= whole + Overrun

\* An even part of a rest is no more than the rest.
LEMMA PartOfRest ==
    ASSUME NEW x \in Nat, NEW k \in Nat \ {0}
    PROVE  x \div k \in Nat /\ x \div k <= x
<1>1. x \div k \in Nat
  BY Z3
<1>2. k * (x \div k) <= x
  BY Z3
<1>3. \A q \in Nat : k * q <= x => q <= x
  BY Z3
<1>4. QED
  BY <1>1, <1>2, <1>3

\* A share given at time `at` ends with the budget, or at once when that is spent.
LEMMA ShareEnds ==
    ASSUME NEW w \in Nat, NEW at \in Nat, NEW t \in 1..Count
    PROVE  /\ ShareOf(w, t, at) \in Nat
           /\ ShareOf(w, t, at) <= w \/ ShareOf(w, t, at) <= at
<1>1. Count \in Nat \ {0}
  BY BriefAssumption DEF BriefAssumption
<1>2. CASE t = Count
  BY <1>2 DEF ShareOf
<1>3. CASE t # Count
  <2>1. Count - t + 1 \in Nat \ {0}
    BY <1>1
  <2>2. Max0(w, at) \in Nat
    BY DEF Max0
  <2>3. Max0(w, at) \div (Count - t + 1) \in Nat
        /\ Max0(w, at) \div (Count - t + 1) <= Max0(w, at)
    BY <2>1, <2>2, PartOfRest
  <2>4. ShareOf(w, t, at) = at + Max0(w, at) \div (Count - t + 1)
    BY <1>3 DEF ShareOf
  <2>5. at + Max0(w, at) <= w \/ at + Max0(w, at) <= at
    BY DEF Max0
  <2>6. \A q \in Nat : q <= Max0(w, at) => at + q \in Nat /\ at + q <= at + Max0(w, at)
    BY <2>2
  <2>7. QED
    BY <2>2, <2>3, <2>4, <2>5, <2>6
<1>4. QED
  BY <1>2, <1>3

\* Between two calls nothing is owed.
LEMMA BudgetInit == Init => BudgetInv
  BY BriefAssumption DEF BriefAssumption, Init, BudgetInv

\* A read begins before its share ends, so only one read is past it (_deadline_share).
LEMMA BudgetStep == BudgetInv /\ [Next]_vars => BudgetInv'
<1> SUFFICES ASSUME BudgetInv, [Next]_vars PROVE BudgetInv'
  OBVIOUS
<1> USE DEF BudgetInv, budget
<1>0. /\ Count \in Nat \ {0} /\ Budget \in Nat \ {0} /\ Overrun \in Nat
      /\ Durations \subseteq Nat /\ Pauses \subseteq Nat
  BY BriefAssumption DEF BriefAssumption
<1>1. ASSUME NEW d \in Pauses, StartBrief(d) PROVE BudgetInv'
  <2>1. d \in Nat /\ now' \in Nat /\ now' = now + d /\ whole' = now' + Budget /\ whole' \in Nat
    BY <1>0, <1>1 DEF StartBrief
  <2>2. share' = ShareOf(whole', 1, now') /\ turn' = 1 /\ step' = "overviews"
    BY <1>1 DEF StartBrief, Turn
  <2>3. share' \in Nat /\ (share' <= whole' \/ share' <= now')
    BY <1>0, <2>1, <2>2, ShareEnds
  <2>4. QED
    BY <1>0, <2>1, <2>2, <2>3
<1>2. CASE NextTenant
  <2>1. share' = ShareOf(whole, turn + 1, now) /\ turn' = turn + 1 /\ step' = "overviews"
        /\ now' = now /\ whole' = whole /\ turn # 0 /\ turn + 1 \in 1..Count
    BY <1>0, <1>2 DEF NextTenant, Turn, Idle
  <2>2. share' \in Nat /\ (share' <= whole' \/ share' <= now')
    BY <2>1, ShareEnds
  <2>3. QED
    BY <1>0, <2>1, <2>2
<1>3. CASE EndBrief
  BY <1>0, <1>3 DEF EndBrief
<1>4. ASSUME NEW d \in Durations, ~Idle, Elapse(d), UNCHANGED budget, step' # "answer"
      PROVE  BudgetInv'
  BY <1>0, <1>4 DEF Elapse, Expired, Lasts, Idle
<1>5. ASSUME NEW d \in Durations, ReadHealth(d) \/ ReadAudits(d) \/ ReadSignins(d)
      PROVE  BudgetInv'
  <2>1. PICK r \in Reads : Read(r, d)
    BY <1>5 DEF ReadHealth, ReadAudits, ReadSignins, Reads
  <2>2. step' # "answer"
    BY <2>1 DEF Read, After, Reads
  <2>3. QED
    BY <1>4, <2>1, <2>2 DEF Read
<1>6. ASSUME NEW d \in Durations, NEW r \in Reads, NEW how, ReadRisk(r, d, how) PROVE BudgetInv'
  <2>1. step' # "answer"
    BY <1>6 DEF ReadRisk, After, Reads
  <2>2. QED
    BY <1>4, <1>6, <2>1 DEF ReadRisk
<1>7. ASSUME NEW d \in Durations, ProbeArrives(d) PROVE BudgetInv'
  <2>1. Lasts(d) /\ now' = now + d /\ UNCHANGED budget /\ turn # 0 /\ step = "answer"
        /\ step' # "answer"
    BY <1>7 DEF ProbeArrives, AfterProbe, Idle
  <2>2. QED
    BY <1>0, <2>1 DEF Lasts
<1>8. ASSUME NEW s, AskProbe(s) PROVE BudgetInv'
  <2>1. /\ now' = now /\ UNCHANGED budget /\ turn # 0
        /\ step' = "answer" => now < share
    BY <1>8 DEF AskProbe, AfterProbe, Expired, Idle
  <2>2. QED
    BY <1>0, <2>1
<1>9. CASE ProbeFromCache
  BY <1>0, <1>9 DEF ProbeFromCache, AfterProbe
<1>10. ASSUME NEW t \in Tenants, NEW s \in Statuses, Change(t, s) PROVE BudgetInv'
  BY <1>0, <1>10 DEF Change
<1>11. CASE Done \/ UNCHANGED vars
  BY <1>11 DEF Done, vars
<1>12. QED
  BY <1>1, <1>2, <1>3, <1>5, <1>6, <1>7, <1>8, <1>9, <1>10, <1>11 DEF Next

\* The call never outlives its budget by more than the read under way, however many
\* tenants there are (daily_brief, _deadline_share).
THEOREM CallEndsInTime == Spec => []BudgetIsKept
<1>1. BudgetInv => BudgetIsKept
  BY DEF BudgetInv, BudgetIsKept, Idle
<1>2. QED
  BY BudgetInit, BudgetStep, <1>1, PTL DEF Spec

-----------------------------------------------------------------------------
(***************************************************************************)
(* Types.                                                                  *)
(***************************************************************************)
\* What the probe may find is a status.
TypeInv ==
    /\ TypeOK
    /\ licence \in [Tenants -> Statuses]
    /\ DOMAIN cache = Tenants

LEMMA TypeStep == TypeInv /\ [Next]_vars => TypeInv'
<1> SUFFICES ASSUME TypeInv, [Next]_vars PROVE TypeInv'
  OBVIOUS
<1> USE DEF TypeInv, TypeOK, budget, probing, graph, Reads, Statuses, Tenants, None, Idle
<1>0. Count \in Nat \ {0}
  BY BriefAssumption DEF BriefAssumption
<1>1. ASSUME NEW d \in Pauses, StartBrief(d) PROVE TypeInv'
  BY <1>0, <1>1 DEF StartBrief, Turn
<1>2. CASE NextTenant
  BY <1>0, <1>2 DEF NextTenant, Turn
<1>3. CASE EndBrief
  BY <1>0, <1>3 DEF EndBrief
<1>4. ASSUME NEW d \in Durations, ReadHealth(d) \/ ReadAudits(d) \/ ReadSignins(d) PROVE TypeInv'
  <2>1. PICK r \in Reads : Read(r, d) /\ r \in {"overviews", "issues", "audits", "signins"}
    BY <1>4 DEF ReadHealth, ReadAudits, ReadSignins
  <2>2. QED
    BY <2>1 DEF Read, After
<1>5. ASSUME NEW d \in Durations, NEW r \in Reads, NEW how \in {"read", "unavailable", "failed"},
             ReadRisk(r, d, how)
      PROVE  TypeInv'
  BY <1>5 DEF ReadRisk, After
<1>6. ASSUME NEW d \in Durations, ProbeArrives(d) PROVE TypeInv'
  BY <1>6 DEF ProbeArrives, AfterProbe, Kept
<1>7. ASSUME NEW s \in Statuses \cup {"error"}, AskProbe(s) PROVE TypeInv'
  BY <1>7 DEF AskProbe, AfterProbe
<1>8. CASE ProbeFromCache
  BY <1>0, <1>8 DEF ProbeFromCache, AfterProbe
<1>9. ASSUME NEW t \in Tenants, NEW s \in Statuses, Change(t, s) PROVE TypeInv'
  BY <1>9 DEF Change
<1>10. CASE Done \/ UNCHANGED vars
  BY <1>10 DEF Done, vars
<1>11. QED
  BY <1>1, <1>2, <1>3, <1>4, <1>5, <1>6, <1>7, <1>8, <1>9, <1>10 DEF Next

LEMMA TypeInit == Init => TypeInv
<1> SUFFICES ASSUME Init PROVE TypeInv
  OBVIOUS
<1>1. licence \in [Tenants -> Statuses]
  BY BriefAssumption DEF BriefAssumption, Init, Statuses
<1>2. DOMAIN cache = Tenants /\ \A t \in Tenants : cache[t].status = None
  BY DEF Init
<1>3. turn = 0 /\ step = "summary" /\ risk = None /\ status = None /\ whole = 0 /\ share = 0
  BY DEF Init
<1>4. turn \in 0..Count
  BY <1>3, BriefAssumption DEF BriefAssumption
<1>5. QED
  BY <1>1, <1>2, <1>3, <1>4 DEF TypeInv, TypeOK

\* Every state of daily_brief is well formed; only definite answers are cached.
THEOREM BriefIsTyped == Spec => []TypeOK
<1>1. TypeInv => TypeOK
  BY DEF TypeInv
<1>2. QED
  BY TypeInit, TypeStep, <1>1, PTL DEF Spec

-----------------------------------------------------------------------------
(***************************************************************************)
(* The shares.                                                             *)
(***************************************************************************)
\* Before the last tenant's turn, a turn began at share - allowance, and the time left then,
\* together with the overruns so far, was an even part for each tenant still to come.
ShareInv ==
    /\ BudgetInv
    /\ allowance \in Nat /\ overran \in Nat
    /\ turn # 0 => Count * (allowance + overran + 1) > Budget
    /\ turn \in 1..(Count - 1) =>
          /\ share - allowance \in Nat
          /\ allowance = Max0(whole, share - allowance) \div (Count - turn + 1)
          /\ Count * (whole - (share - allowance) + overran) >= Budget * (Count - turn + 1)

\* What the rounding of a division leaves.
LEMMA DivBounds ==
    ASSUME NEW x \in Nat, NEW k \in Nat \ {0}
    PROVE  x \div k \in Nat /\ k * (x \div k) <= x /\ x < k * (x \div k + 1)
  BY Z3

\* Products compare like their factors.
LEMMA TimesMonotone ==
    ASSUME NEW n \in Nat, NEW x \in Int, NEW y \in Int, x <= y
    PROVE  n * x <= n * y
<1>1. n * (y - x) >= 0
  BY Z3
<1>2. n * (y - x) = n * y - n * x
  BY Z3
<1>3. QED
  BY <1>1, <1>2

LEMMA TimesCancels ==
    ASSUME NEW k \in Nat \ {0}, NEW x \in Int, NEW y \in Int, k * x <= k * y
    PROVE  x <= y
<1> SUFFICES ASSUME x > y PROVE FALSE
  OBVIOUS
<1>1. k * (x - y) >= x - y
  BY Z3
<1>2. k * (x - y) = k * x - k * y
  BY Z3
<1>3. QED
  BY <1>1, <1>2

\* A tenant that keeps within its part of the rest leaves an even part to each of the k - 1
\* tenants after it.
LEMMA RestStaysEven ==
    ASSUME NEW n \in Nat, NEW k \in Nat \ {0}, NEW b \in Nat, NEW over \in Nat, NEW rest \in Nat,
           NEW part \in Nat, k * part <= rest, n * (rest + over) >= b * k
    PROVE  n * (rest - part + over) >= b * (k - 1)
<1> DEFINE all == n * (rest + over)
           left == n * (rest - part + over)
           due == b * (k - 1)
<1>0. all \in Nat /\ left \in Int /\ due \in Nat /\ k - 1 \in Nat /\ b * k \in Nat
  OBVIOUS
<1>1. n * (k * part) <= n * rest
  BY TimesMonotone
<1>2. k * left = k * all - n * (k * part)
  BY Z3
<1>3. n * rest <= all
  BY TimesMonotone
<1>4. k * all - all = (k - 1) * all
  BY <1>0, Z3
<1>5. (k - 1) * (b * k) <= (k - 1) * all
  BY <1>0, TimesMonotone
<1>6. (k - 1) * (b * k) = k * due
  BY Z3
<1>7. n * (k * part) \in Int /\ n * rest \in Int /\ k * all \in Int /\ k * left \in Int
      /\ (k - 1) * all \in Int /\ (k - 1) * (b * k) \in Int /\ k * due \in Int
  BY <1>0
<1> HIDE DEF all, left, due
<1>8. k * due <= k * left
  BY <1>0, <1>1, <1>2, <1>3, <1>4, <1>5, <1>6, <1>7
<1>9. due <= left
  BY <1>0, <1>8, TimesCancels
<1>10. QED
  BY <1>0, <1>9 DEF due, left

\* An even part of a rest that was even is even, up to the rounding.
LEMMA PartIsEven ==
    ASSUME NEW n \in Nat \ {0}, NEW k \in Nat \ {0}, NEW b \in Nat, NEW over \in Nat, NEW rest \in Int,
           NEW part \in Nat, rest < k * (part + 1), n * (rest + over) >= b * k
    PROVE  n * (part + over + 1) > b
<1> DEFINE most == n * (part + over + 1)
<1>0. most \in Nat /\ k * over \in Nat /\ k * (part + 1) \in Nat
  OBVIOUS
<1>1. over <= k * over
  BY Z3
<1>2. k * (part + over + 1) = k * (part + 1) + k * over
  BY Z3
<1>3. rest + over + 1 <= k * (part + over + 1)
  BY <1>0, <1>1, <1>2
<1>4. n * (rest + over + 1) <= n * (k * (part + over + 1))
  BY <1>3, TimesMonotone
<1>5. n * (rest + over + 1) = n * (rest + over) + n
  BY Z3
<1>6. n * (k * (part + over + 1)) = k * most
  BY Z3
<1>7. n * (rest + over) \in Int /\ n * (rest + over + 1) \in Int /\ k * most \in Int /\ b * k \in Int
  BY <1>0
<1>8. b * k + 1 <= k * most
  BY <1>0, <1>4, <1>5, <1>6, <1>7
<1> HIDE DEF most
<1>9. b < most
  <2> SUFFICES ASSUME most <= b PROVE FALSE
    BY <1>0
  <2>1. k * most <= k * b
    BY <1>0, TimesMonotone
  <2>2. k * b = b * k
    BY Z3
  <2>3. QED
    BY <1>7, <1>8, <2>1, <2>2
<1>10. QED
  BY <1>0, <1>9 DEF most

\* A turn that begins at time `at` with an even rest has an even share, and the next turn
\* finds an even rest.
LEMMA EvenTurn ==
    ASSUME NEW t \in 1..Count, NEW w \in Nat, NEW at \in Nat, NEW over \in Nat,
           Count * (w - at + over) >= Budget * (Count - t + 1)
    PROVE  Count * (Max0(ShareOf(w, t, at), at) + over + 1) > Budget
<1>0. Count \in Nat \ {0} /\ Budget \in Nat \ {0} /\ Count - t + 1 \in Nat \ {0}
  BY BriefAssumption DEF BriefAssumption
<1>1. Max0(w, at) \in Nat /\ w - at <= Max0(w, at) /\ w - at \in Int
  BY DEF Max0
<1>2. CASE t = Count
  <2>1. Max0(ShareOf(w, t, at), at) = Max0(w, at) /\ Count - t + 1 = 1
    BY <1>0, <1>2 DEF ShareOf
  <2>2. w - at < 1 * (Max0(w, at) + 1)
    BY <1>1
  <2>3. QED
    BY <1>0, <1>1, <2>1, <2>2, PartIsEven
<1>3. CASE t # Count
  <2> DEFINE part == Max0(w, at) \div (Count - t + 1)
  <2>1. part \in Nat /\ Max0(w, at) < (Count - t + 1) * (part + 1)
    BY <1>0, <1>1, DivBounds
  <2>2. Max0(ShareOf(w, t, at), at) = part
    <3>1. ShareOf(w, t, at) = at + part
      BY <1>3 DEF ShareOf
    <3> HIDE DEF part
    <3>2. QED
      BY <2>1, <3>1 DEF Max0
  <2>3. w - at < (Count - t + 1) * (part + 1)
    <3>1. (Count - t + 1) * (part + 1) \in Int
      BY <1>0, <2>1
    <3> HIDE DEF part
    <3>2. QED
      BY <1>1, <2>1, <3>1
  <2> HIDE DEF part
  <2>4. QED
    BY <1>0, <1>1, <2>1, <2>2, <2>3, PartIsEven
<1>4. QED
  BY <1>2, <1>3

\* What NextTenant's time and overrun leave of an even rest.
LEMMA NextRest ==
    ASSUME ShareInv, turn \in 1..(Count - 1)
    PROVE  Count * (whole - now + (overran + Max0(now, share))) >= Budget * (Count - turn)
<1> DEFINE k == Count - turn + 1
           began == share - allowance
           rest == Max0(whole, began)
           late == Max0(now, share)
<1>0. /\ Count \in Nat \ {0} /\ Budget \in Nat \ {0} /\ k \in Nat \ {0} /\ k - 1 = Count - turn
      /\ whole \in Nat /\ now \in Nat /\ share \in Nat /\ began \in Nat /\ share = began + allowance
      /\ allowance \in Nat /\ overran \in Nat
  BY BriefAssumption DEF BriefAssumption, ShareInv, BudgetInv
<1>1. /\ allowance = rest \div k
      /\ Count * (whole - began + overran) >= Budget * k
  BY DEF ShareInv
<1>2. rest \in Nat /\ whole - began <= rest /\ late \in Nat /\ now - late <= share
  BY <1>0 DEF Max0
<1>3. k * allowance <= rest
  BY <1>0, <1>1, <1>2, DivBounds
<1> HIDE DEF k, began, rest, late
<1>4. CASE whole >= began
  <2>1. rest = whole - began
    BY <1>0, <1>4 DEF rest, Max0
  <2>2. Count * (rest - allowance + overran) >= Budget * (k - 1)
    BY <1>0, <1>1, <1>2, <1>3, <2>1, RestStaysEven
  <2>3. rest - allowance + overran <= whole - now + (overran + late)
    BY <1>0, <1>2, <2>1
  <2>4. Count * (rest - allowance + overran) <= Count * (whole - now + (overran + late))
    BY <1>0, <1>2, <2>3, TimesMonotone
  <2>5. /\ Count * (rest - allowance + overran) \in Int /\ Budget * (k - 1) \in Int
        /\ Count * (whole - now + (overran + late)) \in Int
    BY <1>0, <1>2
  <2>6. Count * (whole - now + (overran + late)) >= Budget * (k - 1)
    BY <2>2, <2>4, <2>5
  <2>7. QED
    BY <1>0, <2>6 DEF late
<1>5. CASE whole < began
  <2>1. rest = 0 /\ allowance = 0
    <3>1. rest = 0
      BY <1>0, <1>5 DEF rest, Max0
    <3>2. k * allowance <= 0 /\ k * allowance >= allowance
      BY <1>0, <1>3, <3>1, Z3
    <3>3. QED
      BY <1>0, <3>1, <3>2
  <2>2. whole - began + overran <= whole - now + (overran + late)
    BY <1>0, <1>2, <2>1
  <2>3. Count * (whole - began + overran) <= Count * (whole - now + (overran + late))
    BY <1>0, <1>2, <2>2, TimesMonotone
  <2>4. Budget * (k - 1) <= Budget * k
    BY <1>0, TimesMonotone
  <2>5. /\ Count * (whole - began + overran) \in Int /\ Budget * (k - 1) \in Int /\ Budget * k \in Int
        /\ Count * (whole - now + (overran + late)) \in Int
    BY <1>0, <1>2
  <2>6. Count * (whole - now + (overran + late)) >= Budget * (k - 1)
    BY <1>1, <2>3, <2>4, <2>5
  <2>7. QED
    BY <1>0, <2>6 DEF late
<1>6. QED
  BY <1>0, <1>4, <1>5

\* The turn's fields when it begins at time `at`.
LEMMA TurnBegins ==
    ASSUME NEW t \in 1..Count, NEW w \in Nat, NEW at \in Nat, NEW over \in Nat,
           Turn(t, w, at), whole' = w, overran' = over,
           Count * (w - at + over) >= Budget * (Count - t + 1)
    PROVE  /\ allowance' \in Nat
           /\ Count * (allowance' + overran' + 1) > Budget
           /\ t < Count =>
                 /\ share' - allowance' = at
                 /\ allowance' = Max0(w, at) \div (Count - t + 1)
<1>0. Count \in Nat \ {0} /\ Count - t + 1 \in Nat \ {0}
  BY BriefAssumption DEF BriefAssumption
<1>1. share' = ShareOf(w, t, at) /\ allowance' = Max0(share', at)
  BY DEF Turn
<1>2. Count * (allowance' + overran' + 1) > Budget
  BY <1>1, EvenTurn
<1>3. ShareOf(w, t, at) \in Nat
  BY ShareEnds
<1>4. allowance' \in Nat
  BY <1>1, <1>3 DEF Max0
<1>5. ASSUME t < Count
      PROVE  share' - allowance' = at /\ allowance' = Max0(w, at) \div (Count - t + 1)
  <2> DEFINE part == Max0(w, at) \div (Count - t + 1)
  <2>1. part \in Nat
    <3>1. Max0(w, at) \in Nat
      BY DEF Max0
    <3>2. QED
      BY <1>0, <3>1, DivBounds
  <2>2. share' = at + part
    BY <1>0, <1>1, <1>5 DEF ShareOf
  <2> HIDE DEF part
  <2>3. allowance' = part
    BY <1>1, <2>1, <2>2 DEF Max0
  <2>4. QED
    BY <2>1, <2>2, <2>3 DEF part
<1>6. QED
  BY <1>2, <1>4, <1>5

LEMMA ShareStep == ShareInv /\ [Next]_vars => ShareInv'
<1> SUFFICES ASSUME ShareInv, [Next]_vars PROVE ShareInv'
  OBVIOUS
<1> USE DEF budget
<1>0. Count \in Nat \ {0} /\ Budget \in Nat \ {0} /\ Pauses \subseteq Nat
  BY BriefAssumption DEF BriefAssumption
<1>1. BudgetInv /\ BudgetInv'
  BY BudgetStep DEF ShareInv
<1>2. CASE UNCHANGED budget
  BY <1>1, <1>2 DEF ShareInv
<1>3. ASSUME NEW d \in Pauses, StartBrief(d) PROVE ShareInv'
  <2>1. now' \in Nat /\ whole' \in Nat /\ whole' = now' + Budget /\ overran' = 0 /\ turn' = 1
        /\ Turn(1, whole', now')
    BY <1>1, <1>3 DEF StartBrief, BudgetInv, Turn
  <2>2. Count * (whole' - now' + 0) >= Budget * (Count - 1 + 1)
    <3>1. whole' - now' + 0 = Budget /\ Count - 1 + 1 = Count
      <4>1. \A x, y, b \in Nat : x = y + b => x - y + 0 = b
        OBVIOUS
      <4>2. whole' - now' + 0 = Budget
        BY <1>0, <2>1, <4>1
      <4>3. Count - 1 + 1 = Count
        BY <1>0
      <4>4. QED
        BY <4>2, <4>3
    <3>2. Count * Budget = Budget * Count /\ Count * Budget \in Nat
      BY <1>0, Z3
    <3>3. QED
      BY <1>0, <3>1, <3>2
  <2>3. 1 \in 1..Count
    BY <1>0
  <2>4. /\ allowance' \in Nat /\ Count * (allowance' + overran' + 1) > Budget
        /\ 1 < Count => /\ share' - allowance' = now'
                        /\ allowance' = Max0(whole', now') \div (Count - 1 + 1)
    BY <2>1, <2>2, <2>3, TurnBegins
  <2>5. turn' \in 1..(Count - 1) => 1 < Count
    BY <1>0, <2>1
  <2>6. QED
    BY <1>1, <2>1, <2>2, <2>4, <2>5 DEF ShareInv
<1>4. CASE NextTenant
  <2>1. /\ turn \in 1..(Count - 1) /\ turn' = turn + 1 /\ turn' \in 1..Count
        /\ whole' = whole /\ whole \in Nat /\ now \in Nat /\ share \in Nat
        /\ overran' = overran + Max0(now, share) /\ Turn(turn + 1, whole, now)
    BY <1>0, <1>1, <1>4 DEF NextTenant, Idle, BudgetInv, Turn
  <2>2. overran' \in Nat
    BY <2>1 DEF ShareInv, Max0
  <2>3. Count - (turn + 1) + 1 = Count - turn
    BY <1>0, <2>1
  <2>4. Count * (whole - now + overran') >= Budget * (Count - (turn + 1) + 1)
    BY <2>1, <2>3, NextRest
  <2>5. /\ allowance' \in Nat /\ Count * (allowance' + overran' + 1) > Budget
        /\ turn + 1 < Count => /\ share' - allowance' = now
                               /\ allowance' = Max0(whole, now) \div (Count - (turn + 1) + 1)
    BY <2>1, <2>2, <2>4, TurnBegins
  <2>6. turn' \in 1..(Count - 1) => turn + 1 < Count
    <3>1. turn' = turn + 1
      BY <2>1
    <3>2. QED
      BY <1>0, <3>1
  <2>7. QED
    BY <1>1, <2>1, <2>2, <2>4, <2>5, <2>6 DEF ShareInv
<1>5. CASE EndBrief
  BY <1>0, <1>1, <1>5 DEF EndBrief, ShareInv
<1>6. CASE Next /\ ~(\E d \in Pauses : StartBrief(d)) /\ ~NextTenant /\ ~EndBrief
  <2>1. UNCHANGED budget
    BY <1>6 DEF Next, ReadHealth, ReadAudits, ReadSignins, Read, ReadRisk, ProbeArrives, AskProbe, ProbeFromCache,
       Change, Done, vars
  <2>2. QED
    BY <1>2, <2>1
<1>7. CASE UNCHANGED vars
  BY <1>2, <1>7 DEF vars
<1>8. QED
  BY <1>3, <1>4, <1>5, <1>6, <1>7

\* A busy tenant cannot starve the next one: for every number of tenants, every budget and
\* all timings, a share falls short of an even part of the budget only by the overruns of
\* the tenants before it, rounded down (daily_brief, _deadline_share).
THEOREM SharesAreEven == Spec => []EvenShare
<1>1. ASSUME Init PROVE ShareInv
  <2>1. BudgetInv
    BY <1>1, BudgetInit
  <2>2. turn = 0 /\ allowance = 0 /\ overran = 0
    BY <1>1 DEF Init
  <2>3. QED
    BY <2>1, <2>2 DEF ShareInv
<1>2. ShareInv => EvenShare
  BY DEF ShareInv, EvenShare, Idle
<1>3. QED
  BY <1>1, ShareStep, <1>2, PTL DEF Spec

-----------------------------------------------------------------------------
(***************************************************************************)
(* The probe.                                                              *)
(***************************************************************************)
\* From when on a status found now is known to have held at some time.
Since == IF step = "answer" \/ status = "no_permission" THEN askedAt
         ELSE Max0(askedAt, TTL + Longest)

\* A cached status held within the read that brought it; the one in use held since the
\* turn asked, or within the life of a cached answer before.
FreshInv ==
    /\ BudgetInv /\ TypeInv
    /\ lastHeld \in [Tenants -> [Statuses -> Nat]]
    /\ \A t \in Tenants : cache[t].status # None =>
          /\ cache[t].at \in Nat /\ cache[t].at <= now
          /\ HeldSince(t, cache[t].status, Max0(cache[t].at, Longest))
    /\ askedAt \in Nat /\ askedAt <= now
    /\ step = "answer" => askedAt = now
    /\ status \in Statuses => turn # 0 /\ HeldSince(turn, status, Since)

LEMMA LongestRead ==
    Longest \in Nat /\ \A d \in Durations : d \in Nat /\ d <= Longest
<1>1. \E d \in Durations : \A e \in Durations : e <= d
  BY BriefAssumption DEF BriefAssumption
<1>2. Longest \in Durations /\ \A e \in Durations : e <= Longest
  BY <1>1 DEF Longest
<1>3. QED
  BY <1>2, BriefAssumption DEF BriefAssumption

\* What held since a time held since an earlier one.
LEMMA HeldEarlier ==
    ASSUME FreshInv, NEW t \in Tenants, NEW s \in Statuses, NEW a \in Nat, NEW b \in Nat,
           b <= a, HeldSince(t, s, a)
    PROVE  HeldSince(t, s, b)
<1>1. lastHeld[t][s] \in Nat
  BY DEF FreshInv
<1>2. QED
  BY <1>1 DEF HeldSince

\* A change of licence does not undo what held before it.
LEMMA ChangeKeepsHeld ==
    ASSUME FreshInv, NEW u \in Tenants, NEW new \in Statuses, Change(u, new),
           NEW t \in Tenants, NEW s \in Statuses, NEW since \in Nat, since <= now,
           HeldSince(t, s, since)
    PROVE  licence'[t] = s \/ lastHeld'[t][s] >= since
<1>1. /\ licence \in [Tenants -> Statuses] /\ lastHeld \in [Tenants -> [Statuses -> Nat]]
      /\ now \in Nat
  BY DEF FreshInv, TypeInv, BudgetInv
<1>2. /\ licence' = [licence EXCEPT ![u] = new]
      /\ lastHeld' = [lastHeld EXCEPT ![u][licence[u]] = now]
  BY DEF Change
<1>3. CASE t = u /\ licence[u] = s
  <2>1. lastHeld'[t][s] = now
    BY <1>1, <1>2, <1>3
  <2>2. QED
    BY <1>1, <2>1
<1>4. CASE ~(t = u /\ licence[u] = s)
  <2>1. lastHeld'[t][s] = lastHeld[t][s]
    BY <1>1, <1>2, <1>4
  <2>2. licence[t] = s => licence'[t] = s
    BY <1>1, <1>2, <1>4
  <2>3. QED
    BY <2>1, <2>2 DEF HeldSince
<1>5. QED
  BY <1>3, <1>4

LEMMA FreshStep == FreshInv /\ [Next]_vars => FreshInv'
<1> SUFFICES ASSUME FreshInv, [Next]_vars PROVE FreshInv'
  OBVIOUS
<1> USE DEF budget, probing, graph
<1>0. /\ BudgetInv' /\ TypeInv'
      /\ now \in Nat /\ askedAt \in Nat /\ askedAt <= now /\ turn \in 0..Count
      /\ Durations \subseteq Nat /\ Pauses \subseteq Nat /\ TTL \in Nat /\ Longest \in Nat
      /\ 0 \in Nat /\ Count \in Nat \ {0}
  BY BudgetStep, TypeStep, LongestRead, BriefAssumption
     DEF FreshInv, BudgetInv, TypeInv, TypeOK, BriefAssumption
<1> DEFINE CacheHolds ==
             \A t \in Tenants : cache[t].status # None =>
                /\ cache[t].at \in Nat /\ cache[t].at <= now
                /\ HeldSince(t, cache[t].status, Max0(cache[t].at, Longest))
<1>1. ASSUME UNCHANGED <<cache, graph>>, now' \in Nat, now <= now'
      PROVE  lastHeld' \in [Tenants -> [Statuses -> Nat]] /\ CacheHolds'
  <2>1. \A t \in Tenants : cache[t].status # None =>
           /\ cache[t].at \in Nat /\ cache[t].at <= now'
           /\ HeldSince(t, cache[t].status, Max0(cache[t].at, Longest))
    BY <1>0, <1>1 DEF FreshInv
  <2>2. QED
    BY <1>1, <2>1 DEF FreshInv, HeldSince
<1>2. ASSUME UNCHANGED <<cache, graph>>, now' \in Nat, now <= now', status' = None,
             askedAt' \in Nat, askedAt' <= now', step' # "answer"
      PROVE  FreshInv'
  BY <1>0, <1>1, <1>2 DEF FreshInv, Statuses, None
<1>3. ASSUME UNCHANGED <<cache, graph, status, askedAt, turn>>, now' \in Nat, now <= now',
             step # "answer", step' # "answer"
      PROVE  FreshInv'
  <2>1. Since' = Since
    BY <1>3 DEF Since
  <2>2. status' \in Statuses => turn' # 0 /\ HeldSince(turn, status, Since)'
    BY <1>3, <2>1 DEF FreshInv, HeldSince
  <2>3. QED
    BY <1>0, <1>1, <1>3, <2>2 DEF FreshInv
<1>4. ASSUME NEW d \in Pauses, StartBrief(d) PROVE FreshInv'
  BY <1>0, <1>2, <1>4 DEF StartBrief, Turn
<1>5. CASE NextTenant
  BY <1>0, <1>2, <1>5 DEF NextTenant, Turn
<1>6. CASE EndBrief
  BY <1>0, <1>2, <1>6 DEF EndBrief
<1>7. ASSUME NEW d \in Durations, ReadHealth(d) \/ ReadAudits(d) \/ ReadSignins(d)
      PROVE  FreshInv'
  <2>1. PICK r \in Reads : Read(r, d)
    BY <1>7 DEF ReadHealth, ReadAudits, ReadSignins, Reads
  <2>2. step # "answer" /\ step' # "answer"
    BY <2>1 DEF Read, After, Reads
  <2>3. now' \in Nat /\ now <= now' /\ UNCHANGED <<cache, graph, status, askedAt, turn>>
    BY <1>0, <2>1 DEF Read, Elapse
  <2>4. QED
    BY <1>3, <2>2, <2>3
<1>8. ASSUME NEW d \in Durations, NEW r \in Reads, NEW how \in {"read", "unavailable", "failed"},
             ReadRisk(r, d, how)
      PROVE  FreshInv'
  <2>1. step # "answer" /\ step' # "answer"
    BY <1>8 DEF ReadRisk, After
  <2>2. now' \in Nat /\ now <= now' /\ UNCHANGED <<cache, graph, status, askedAt, turn>>
    BY <1>0, <1>8 DEF ReadRisk, Elapse
  <2>3. QED
    BY <1>3, <2>1, <2>2
<1>9. ASSUME NEW s \in Statuses \cup {"error"}, AskProbe(s) PROVE FreshInv'
  <2>1. /\ now' = now /\ askedAt' = now /\ status' = s /\ UNCHANGED <<cache, graph, turn>>
        /\ turn # 0
        /\ s \in Statuses => step' = "answer" /\ s = licence[turn]
    BY <1>9 DEF AskProbe, Idle, Statuses
  <2>2. s \in Statuses => HeldSince(turn, status, Since)'
    BY <2>1 DEF HeldSince
  <2>3. QED
    BY <1>0, <1>1, <2>1, <2>2 DEF FreshInv
<1>10. CASE ProbeFromCache
  <2>1. /\ now' = now /\ askedAt' = now /\ UNCHANGED <<cache, graph, turn>>
        /\ turn \in Tenants /\ step' # "answer"
        /\ status' = cache[turn].status
        /\ cache[turn].status # None /\ now - cache[turn].at < TTL
    BY <1>0, <1>10 DEF ProbeFromCache, AfterProbe, Idle, Fresh, Tenants
  <2>2. status' \in Statuses /\ status' # "no_permission"
    BY <2>1 DEF FreshInv, TypeInv, TypeOK, Statuses
  <2>3. /\ cache[turn].at \in Nat
        /\ HeldSince(turn, status', Max0(cache[turn].at, Longest))
    BY <2>1 DEF FreshInv
  <2>4. /\ Max0(now, TTL + Longest) \in Nat /\ Max0(cache[turn].at, Longest) \in Nat
        /\ Max0(now, TTL + Longest) <= Max0(cache[turn].at, Longest)
    BY <1>0, <2>1, <2>3 DEF Max0
  <2>5. HeldSince(turn, status', Max0(now, TTL + Longest))
    BY <2>1, <2>2, <2>3, <2>4, HeldEarlier
  <2>6. Since' = Max0(now, TTL + Longest)
    BY <2>1, <2>2 DEF Since
  <2>7. HeldSince(turn, status, Since)'
    BY <2>1, <2>5, <2>6 DEF HeldSince
  <2>8. QED
    BY <1>0, <1>1, <2>1, <2>7 DEF FreshInv, Tenants
<1>11. ASSUME NEW d \in Durations, ProbeArrives(d) PROVE FreshInv'
  <2>1. /\ turn \in Tenants /\ step = "answer" /\ now' = now + d
        /\ step' # "answer"
        /\ UNCHANGED <<graph, turn, status, askedAt>>
        /\ askedAt = now /\ d \in Nat /\ d <= Longest
    BY <1>0, <1>11, LongestRead DEF ProbeArrives, AfterProbe, Idle, Tenants, FreshInv
  <2>2. now' \in Nat /\ now <= now'
    BY <1>0, <2>1
  <2>3. status \in Statuses => HeldSince(turn, status, now)
    BY <2>1 DEF FreshInv, Since
  <2>4. status' \in Statuses => turn' # 0 /\ HeldSince(turn, status, Since)'
    <3>1. SUFFICES ASSUME status \in Statuses
                   PROVE  turn' # 0 /\ HeldSince(turn, status, Since)'
      BY <2>1
    <3>2. Since' \in Nat /\ Since' <= now
      BY <1>0, <2>1 DEF Since, Max0
    <3>3. HeldSince(turn, status, Since')
      BY <1>0, <2>1, <2>3, <3>1, <3>2, HeldEarlier
    <3>4. QED
      BY <2>1, <3>3 DEF HeldSince, Tenants
  <2>5. CacheHolds'
    <3>1. SUFFICES ASSUME NEW t \in Tenants, cache'[t].status # None
                   PROVE  /\ cache'[t].at \in Nat /\ cache'[t].at <= now'
                          /\ HeldSince(t, cache'[t].status, Max0(cache'[t].at, Longest))
      BY <2>1 DEF HeldSince
    <3>2. CASE cache'[t] = cache[t]
      BY <1>0, <2>2, <3>1, <3>2 DEF FreshInv
    <3>3. CASE t = turn /\ Kept(status) /\ cache'[t] = [at |-> now', status |-> status]
      <4>1. status \in Statuses /\ cache'[t].at = now' /\ cache'[t].status = status
        BY <3>3 DEF Kept, Statuses
      <4>2. Max0(now', Longest) \in Nat /\ Max0(now', Longest) <= now
        BY <1>0, <2>1 DEF Max0
      <4>3. HeldSince(turn, status, Max0(now', Longest))
        BY <1>0, <2>1, <2>3, <4>1, <4>2, HeldEarlier
      <4>4. QED
        BY <2>2, <3>3, <4>1, <4>3
    <3>4. DOMAIN cache = Tenants
      BY DEF FreshInv, TypeInv
    <3>5. QED
      BY <1>11, <2>1, <3>2, <3>3, <3>4 DEF ProbeArrives
  <2>6. QED
    BY <1>0, <2>1, <2>2, <2>4, <2>5 DEF FreshInv
<1>12. ASSUME NEW u \in Tenants, NEW new \in Statuses, Change(u, new) PROVE FreshInv'
  <2>1. UNCHANGED <<now, step, turn, status, cache, askedAt>>
    BY <1>12 DEF Change
  <2>2. lastHeld' \in [Tenants -> [Statuses -> Nat]]
    <3>1. /\ lastHeld \in [Tenants -> [Statuses -> Nat]] /\ licence[u] \in Statuses
          /\ lastHeld' = [lastHeld EXCEPT ![u][licence[u]] = now]
      BY <1>12 DEF FreshInv, TypeInv, Change
    <3>2. QED
      BY <1>0, <3>1
  <2>3. CacheHolds'
    <3>1. SUFFICES ASSUME NEW t \in Tenants, cache[t].status # None
                   PROVE  /\ cache[t].at \in Nat /\ cache[t].at <= now
                          /\ HeldSince(t, cache[t].status, Max0(cache[t].at, Longest))'
      BY <2>1
    <3>2. /\ cache[t].at \in Nat /\ cache[t].at <= now
          /\ HeldSince(t, cache[t].status, Max0(cache[t].at, Longest))
          /\ cache[t].status \in Statuses
      BY <3>1 DEF FreshInv, TypeInv, TypeOK, Statuses
    <3>3. Max0(cache[t].at, Longest) \in Nat /\ Max0(cache[t].at, Longest) <= now
      BY <1>0, <3>2 DEF Max0
    <3>4. \/ licence'[t] = cache[t].status
          \/ lastHeld'[t][cache[t].status] >= Max0(cache[t].at, Longest)
      BY <1>12, <3>2, <3>3, ChangeKeepsHeld
    <3>5. QED
      BY <2>1, <3>2, <3>4 DEF HeldSince
  <2>4. status' \in Statuses => turn' # 0 /\ HeldSince(turn, status, Since)'
    <3>1. SUFFICES ASSUME status \in Statuses
                   PROVE  turn # 0 /\ HeldSince(turn, status, Since)'
      BY <2>1
    <3>2. turn \in Tenants /\ HeldSince(turn, status, Since)
      BY <1>0, <3>1 DEF FreshInv, Tenants
    <3>3. Since \in Nat /\ Since <= now /\ Since' = Since
      BY <1>0, <2>1 DEF Since, Max0
    <3>4. licence'[turn] = status \/ lastHeld'[turn][status] >= Since
      BY <1>12, <3>1, <3>2, <3>3, ChangeKeepsHeld
    <3>5. QED
      BY <2>1, <3>2, <3>3, <3>4 DEF HeldSince, Tenants
  <2>5. QED
    BY <1>0, <2>1, <2>2, <2>3, <2>4 DEF FreshInv
<1>13. CASE Done \/ UNCHANGED vars
  <2>1. UNCHANGED <<now, step, turn, status, cache, askedAt, graph>>
    BY <1>13 DEF Done, vars
  <2>2. lastHeld' \in [Tenants -> [Statuses -> Nat]] /\ CacheHolds'
    BY <1>0, <1>1, <2>1
  <2>3. Since' = Since
    BY <2>1 DEF Since
  <2>4. status' \in Statuses => turn' # 0 /\ HeldSince(turn, status, Since)'
    BY <2>1, <2>3 DEF FreshInv, HeldSince
  <2>5. QED
    BY <1>0, <2>1, <2>2, <2>4 DEF FreshInv
<1>14. QED
  BY <1>4, <1>5, <1>6, <1>7, <1>8, <1>9, <1>10, <1>11, <1>12, <1>13 DEF Next

\* A summary's probe status is never older than the hour it may be and the read that
\* brought it, for any number of tenants, calls and changes of licence; a refused consent is
\* never older than the call (_identity_protection_status).
THEOREM ProbeIsAlwaysFresh == Spec => []ProbeIsFresh
<1>1. ASSUME Init PROVE FreshInv
  <2>1. BudgetInv
    BY <1>1, BudgetInit
  <2>2. TypeInv
    BY <1>1, TypeInit
  <2>3. lastHeld \in [Tenants -> [Statuses -> Nat]] /\ \A t \in Tenants : cache[t].status = None
    BY <1>1 DEF Init
  <2>4. QED
    BY <1>1, <2>1, <2>2, <2>3 DEF Init, FreshInv, Statuses, None
<1>2. FreshInv => ProbeIsFresh
  BY DEF FreshInv, ProbeIsFresh, Summed, Since
<1>3. QED
  BY <1>1, FreshStep, <1>2, PTL DEF Spec
=============================================================================
