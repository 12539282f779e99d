------------------------ MODULE TenantRoutingProofs ------------------------
(***************************************************************************)
(* Proofs about TenantRouting, for every set of tenant files, every set of *)
(* requests and any number of calls, files not being edited in the moment  *)
(* a call takes to load them.                                              *)
(***************************************************************************)
EXTENDS TenantRouting, FiniteSetTheorems, WellFoundedInduction, TLAPS

\* "Less than" as the set of pairs the library speaks of.
LEMMA LessPairs == \A x, y \in Nat : <<y, x>> \in OpToRel(<, Nat) <=> y < x
  BY Zenon DEF OpToRel

\* A nonempty set of indices has a first and a last one.
LEMMA FirstIndex ==
    ASSUME NEW I \in SUBSET Nat, I # {}
    PROVE  Min(I) \in I /\ \A y \in I : Min(I) <= y
<1> DEFINE R == OpToRel(<, Nat)
<1>0. IsWellFoundedOn(R, Nat) /\ \A x, y \in Nat : <<y, x>> \in R <=> y < x
  BY LessPairs, NatLessThanWellFounded
<1> HIDE DEF R
<1>1. PICK x \in I : \A y \in I : ~(<<y, x>> \in R)
  BY <1>0, WFMin
<1>2. \A y \in I : x <= y
  <2>1. SUFFICES ASSUME NEW y \in I
                 PROVE  x <= y
    OBVIOUS
  <2>2. ~(<<y, x>> \in R)
    BY <1>1
  <2>3. x \in Nat /\ y \in Nat
    OBVIOUS
  <2>4. ~(y < x)
    BY <1>0, <2>2, <2>3, Zenon
  <2>5. QED
    BY <2>3, <2>4
<1>3. QED
  BY <1>2 DEF Min

LEMMA LastIndex ==
    ASSUME NEW n \in Nat, NEW I \in SUBSET (1..n), I # {}
    PROVE  Max(I) \in I
<1> DEFINE J == {j \in 0..n : n - j \in I}
<1>1. J \in SUBSET Nat /\ J # {}
  <2>1. PICK i \in I : TRUE
    OBVIOUS
  <2>2. i \in 1..n /\ n - i \in 0..n /\ n - (n - i) = i
    BY <2>1
  <2>3. n - i \in J
    BY <2>1, <2>2
  <2>4. J \subseteq Nat
    OBVIOUS
  <2>5. QED
    BY <2>3, <2>4, Zenon
<1>2. Min(J) \in J /\ \A j \in J : Min(J) <= j
  BY <1>1, FirstIndex
<1> DEFINE m == n - Min(J)
<1>3. m \in I
  BY <1>2
<1>4. \A i \in I : m >= i
  <2>1. SUFFICES ASSUME NEW i \in I
                 PROVE  m >= i
    OBVIOUS
  <2>2. i \in 1..n /\ n - i \in 0..n /\ n - (n - i) = i
    OBVIOUS
  <2>3. n - i \in J
    BY <2>2
  <2>4. Min(J) <= n - i /\ Min(J) \in Nat
    BY <1>2, <2>3
  <2>5. QED
    BY <2>2, <2>4
<1>5. QED
  BY <1>3, <1>4 DEF Max

-----------------------------------------------------------------------------
\* A configuration as it is kept once it is loaded.
Good(c) ==
    /\ c.fromFile \in BOOLEAN
    /\ c.sections \in Seq(Sections(c))
    /\ Valid(c)
    /\ \E s \in Sections(c) : s.default
    /\ \A s \in Sections(c) : s.name # None

\* A section has a place in the file.
LEMMA Places ==
    ASSUME NEW c, c.sections \in Seq(Sections(c))
    PROVE  /\ Len(c.sections) \in Nat /\ DOMAIN c.sections = 1..Len(c.sections)
           /\ Sections(c) = {c.sections[i] : i \in 1..Len(c.sections)}
  BY DEF Sections, ToSet

\* What is kept is good: a single section is made the default one.
LEMMA LoadedIsGood ==
    ASSUME RoutingAssumption, NEW f \in Files, Valid(f)
    PROVE  Good(Loaded(f))
<1> DEFINE n == Len(f.sections)
<1>1. /\ f = [fromFile |-> f.fromFile, sections |-> f.sections]
      /\ f.fromFile \in BOOLEAN
      /\ f.sections \in Seq(Sections(f))
      /\ \A s \in Sections(f) :
            /\ s = [name |-> s.name, id |-> s.id, domains |-> s.domains,
                    default |-> s.default]
            /\ s.name # None
  BY DEF RoutingAssumption
<1>2. n \in Nat /\ DOMAIN f.sections = 1..n /\ n # 0
      /\ Sections(f) = {f.sections[i] : i \in 1..n}
  BY <1>1, Places DEF Valid
<1>3. CASE n # 1
  <2>1. Loaded(f) = f
    BY <1>3 DEF Loaded
  <2>2. \E s \in Sections(f) : s.default
    <3>1. n \in Nat /\ n # 0 /\ n # 1
      BY <1>2, <1>3, Zenon
    <3>2. \A k \in Nat : k # 0 /\ k # 1 => k > 1
      OBVIOUS
    <3>3. QED
      BY <3>1, <3>2, Zenon DEF Valid
  <2>3. QED
    BY <1>1, <2>1, <2>2 DEF Good
<1>4. CASE n = 1
  <2> DEFINE s == f.sections[1]
             t == [s EXCEPT !.default = TRUE]
             g == Loaded(f)
  <2>1. s \in Sections(f)
    BY <1>2, <1>4
  <2>2. t.name = s.name /\ t.default = TRUE /\ t.domains = s.domains
    BY <1>1, <2>1
  <2>3. g.fromFile = f.fromFile /\ g.sections = [f.sections EXCEPT ![1] = t]
    BY <1>1, <1>4 DEF Loaded
  <2> HIDE DEF t, g
  <2>4. g.sections = <<t>>
    <3>1. f.sections \in Seq(Sections(f)) /\ Len(f.sections) = 1
      BY <1>1, <1>4
    <3>2. [f.sections EXCEPT ![1] = t] = <<t>>
      BY <3>1
    <3>3. QED
      BY <2>3, <3>2
  <2>5. /\ g.sections \in Seq({t}) /\ Sections(g) = {t} /\ Len(g.sections) = 1
        /\ DOMAIN g.sections = {1} /\ g.sections[1] = t
    BY <2>4 DEF Sections, ToSet
  <2>6. {i \in DOMAIN g.sections : g.sections[i].default} = {1}
    BY <2>2, <2>5
  <2>7. Cardinality({1}) = 1
    BY FS_Singleton, Zenon
  <2>8. Valid(g)
    <3>1. g.sections # <<>>
      BY <2>4
    <3>2. \A i, j \in DOMAIN g.sections : i = j
      BY <2>5
    <3>3. Cardinality({i \in DOMAIN g.sections : g.sections[i].default}) = 1
      BY <2>6, <2>7, Zenon
    <3>4. QED
      BY <2>5, <3>1, <3>2, <3>3 DEF Valid
  <2>9. t.name # None
    BY <1>1, <2>1, <2>2
  <2>10. \A x \in Sections(g) : x = t
    BY <2>5
  <2>11. g.fromFile \in BOOLEAN
    BY <1>1, <2>3
  <2>12. (\E x \in Sections(g) : x.default) /\ \A x \in Sections(g) : x.name # None
    BY <2>2, <2>5, <2>9, <2>10
  <2>13. g.sections \in Seq(Sections(g))
    BY <2>5
  <2>14. QED
    BY <2>8, <2>11, <2>12, <2>13 DEF Good, g
<1>5. QED
  BY <1>3, <1>4

\* A name means one section.
LEMMA NameIsUnique ==
    ASSUME NEW c, Good(c)
    PROVE  /\ \A s \in Sections(c) : HasName(c, s.name) /\ Get(c, s.name) = s
           /\ \A name : HasName(c, name) =>
                 Get(c, name) \in Sections(c) /\ Get(c, name).name = name
<1>1. \A s, t \in Sections(c) : s.name = t.name => s = t
  <2>1. /\ DOMAIN c.sections = 1..Len(c.sections)
        /\ Sections(c) = {c.sections[i] : i \in 1..Len(c.sections)}
    BY Places DEF Good
  <2>2. \A i, j \in 1..Len(c.sections) : i # j => c.sections[i].name # c.sections[j].name
    BY <2>1 DEF Good, Valid
  <2>3. QED
    BY <2>1, <2>2
<1>2. QED
  BY <1>1 DEF HasName, Get

\* NoSection is none of them.
LEMMA NoneIsNoSection ==
    ASSUME NEW c, Good(c)
    PROVE  NoSection \notin Sections(c)
  BY DEF Good, NoSection, None

\* _by_domain finds the section that claims the domain, if there is one.
LEMMA ByDomainFinds ==
    ASSUME NEW c, Good(c), NEW domain
    PROVE  \/ /\ ByDomain(c, domain) = NoSection
              /\ \A s \in Sections(c) : domain \notin s.domains
           \/ /\ ByDomain(c, domain) \in Sections(c)
              /\ domain \in ByDomain(c, domain).domains
              /\ \A s \in Sections(c) : domain \in s.domains => s = ByDomain(c, domain)
<1> DEFINE I == {i \in 1..Len(c.sections) : domain \in c.sections[i].domains}
           last == IF I # {} THEN Max(I) ELSE 0
<1>1. /\ Len(c.sections) \in Nat /\ DOMAIN c.sections = 1..Len(c.sections)
      /\ Sections(c) = {c.sections[i] : i \in 1..Len(c.sections)}
  BY Places DEF Good
<1>2. ByDomain(c, domain) = At(c, last)
  BY DEF ByDomain, SelectLastInSeq
<1>3. CASE I = {}
  BY <1>1, <1>2, <1>3 DEF At
<1>4. CASE I # {}
  <2>1. last \in I
    BY <1>1, <1>4, LastIndex
  <2>2. ByDomain(c, domain) = c.sections[last]
    BY <1>2, <2>1 DEF At
  <2>3. \A i \in I : i = last
    BY <1>1, <2>1 DEF Good, Valid
  <2>4. QED
    BY <1>1, <2>1, <2>2, <2>3
<1>5. QED
  BY <1>3, <1>4

\* resolve finds a section of that name, id or domain, or none.
LEMMA ResolveFinds ==
    ASSUME NEW c, Good(c), NEW ref
    PROVE  \/ Resolve(c, ref) = NoSection
           \/ /\ Resolve(c, ref) \in Sections(c)
              /\ ref \in {Resolve(c, ref).name, Resolve(c, ref).id} \cup Resolve(c, ref).domains
<1> DEFINE I == {i \in 1..Len(c.sections) : ref \in {c.sections[i].name, c.sections[i].id}}
           first == IF I # {} THEN Min(I) ELSE 0
<1>1. /\ Len(c.sections) \in Nat /\ DOMAIN c.sections = 1..Len(c.sections)
      /\ Sections(c) = {c.sections[i] : i \in 1..Len(c.sections)}
  BY Places DEF Good
<1>2. Resolve(c, ref) = IF first # 0 THEN At(c, first) ELSE ByDomain(c, ref)
  BY DEF Resolve, SelectInSeq
<1>3. CASE I = {}
  BY <1>2, <1>3, ByDomainFinds
<1>4. CASE I # {}
  <2>1. Min(I) \in I
    <3>1. I \in SUBSET Nat
      BY <1>1
    <3>2. QED
      BY <1>4, <3>1, FirstIndex, Zenon
  <2>2. Resolve(c, ref) = c.sections[first]
    BY <1>1, <1>2, <1>4, <2>1 DEF At
  <2>3. QED
    BY <1>1, <1>4, <2>1, <2>2
<1>5. QED
  BY <1>3, <1>4

\* for_upn of a file is _by_domain.
LEMMA OwnerFinds ==
    ASSUME NEW c, Good(c), c.fromFile, NEW r, HasUser(r)
    PROVE  Owner(c, r) = ByDomain(c, r.user)
  BY DEF Owner, ForUpn

\* There is a default tenant.
LEMMA DefaultIsThere ==
    ASSUME NEW c, Good(c)
    PROVE  DefaultOf(c) \in Sections(c)
  BY DEF Good, DefaultOf

-----------------------------------------------------------------------------
Stages == {"enter", "load", "route", "client", "reload", "create",
           "done", "refused", "error", "raised"}

\* Every call has its place in each of the tables.
ShapeInv ==
    /\ file \in Files /\ edits \in 0..MaxEdits
    /\ request \in [Calls -> Requests]
    /\ stage \in [Calls -> Stages]
    /\ DOMAIN local = Calls /\ DOMAIN current = Calls /\ DOMAIN used = Calls
    /\ tagged \in [Calls -> BOOLEAN] /\ note \in [Calls -> BOOLEAN]

\* What the process keeps: tenants that were loaded, and clients made from their sections.
StateInv ==
    /\ tenants # NotLoaded => Good(tenants)
    /\ defaultClient # NoSection =>
          tenants # NotLoaded /\ defaultClient = Get(tenants, DefaultOf(tenants).name)
    /\ \A n \in DOMAIN clients :
          tenants # NotLoaded /\ HasName(tenants, n) /\ clients[n] = Get(tenants, n)

\* The tenant in effect is the one a call's arguments mean.
Means(c) ==
    LET r == request[c]
        s == Get(tenants, current[c])
    IN  /\ (HasUser(r) /\ (r.ref = None \/ ConflictRefused(r))) =>
              \A t \in Sections(tenants) : r.user \in t.domains => t.name = current[c]
        /\ r.ref # None => r.ref \in {s.name, s.id} \cup s.domains
        /\ HasUser(r) => (note[c] <=> \A t \in Sections(tenants) : r.user \notin t.domains)

\* What a call knows is what the process keeps; a second thread loads what the first did.
CallInv(c) ==
    /\ (stage[c] \in {"load", "reload"} /\ tenants # NotLoaded) => tenants = Loaded(file)
    /\ (stage[c] = "route" \/ tagged[c]) => tenants # NotLoaded /\ local[c] = tenants
    /\ current[c] # None => tenants # NotLoaded /\ HasName(tenants, current[c])
    /\ stage[c] \in {"create", "done"} => tenants # NotLoaded /\ HasName(tenants, InEffect(c))
    /\ Done(c) => used[c] = Get(tenants, InEffect(c))
    /\ tagged[c] => tenants.fromFile /\ current[c] # None /\ Means(c)

RouteInv == ShapeInv /\ StateInv /\ \A c \in Calls : CallInv(c)

-----------------------------------------------------------------------------
\* The tenants are loaded at most once, and then from the file as it is.
LoadsOnce ==
    /\ tenants # NotLoaded => tenants' = tenants
    /\ tenants' # NotLoaded => tenants' = tenants \/ tenants' = Loaded(file)

\* A call that does not move keeps its facts.
LEMMA Bystander ==
    ASSUME NEW c \in Calls, ShapeInv, CallInv(c), LoadsOnce, file' = file,
           request'[c] = request[c], stage'[c] = stage[c], local'[c] = local[c],
           current'[c] = current[c], tagged'[c] = tagged[c], note'[c] = note[c],
           used'[c] = used[c]
    PROVE  CallInv(c)'
<1>1. CASE tenants # NotLoaded
  <2>1. tenants' = tenants
    BY <1>1 DEF LoadsOnce
  <2>2. InEffect(c)' = InEffect(c) /\ (Done(c)' <=> Done(c)) /\ (Means(c)' <=> Means(c))
    BY <2>1 DEF InEffect, Done, Means
  <2>3. QED
    BY <2>1, <2>2 DEF CallInv
<1>2. CASE tenants = NotLoaded
  <2>1. /\ stage[c] # "route" /\ ~tagged[c] /\ current[c] = None
        /\ stage[c] \notin {"create", "done"}
    BY <1>2 DEF CallInv
  <2>2. tenants' # NotLoaded => tenants' = Loaded(file)'
    BY <1>2 DEF LoadsOnce, Loaded
  <2>3. QED
    BY <2>1, <2>2 DEF CallInv, Done
<1>3. QED
  BY <1>1, <1>2

\* The process loads what it keeps, and its clients stay what they are.
LEMMA StateStays ==
    ASSUME StateInv, RoutingAssumption, file \in Files, LoadsOnce,
           tenants' = Loaded(file) => tenants' = tenants \/ Valid(file),
           defaultClient' = defaultClient, clients' = clients
    PROVE  StateInv'
<1>1. CASE tenants' = tenants
  BY <1>1 DEF StateInv
<1>2. CASE tenants' # tenants
  <2>1. tenants = NotLoaded /\ tenants' # NotLoaded
    BY <1>2 DEF LoadsOnce
  <2>2. tenants' = Loaded(file) /\ Valid(file)
    BY <1>2, <2>1 DEF LoadsOnce
  <2>3. Good(Loaded(file))
    BY <2>2, LoadedIsGood
  <2>4. Good(tenants')
    BY <2>2, <2>3
  <2>5. defaultClient = NoSection /\ DOMAIN clients = {}
    BY <2>1 DEF StateInv
  <2>6. QED
    BY <2>4, <2>5 DEF StateInv
<1>3. QED
  BY <1>1, <1>2

\* The name a call has in effect is a tenant's.
LEMMA InEffectIsThere ==
    ASSUME NEW c \in Calls, CallInv(c), Good(tenants)
    PROVE  HasName(tenants, InEffect(c)) /\ InEffect(c) # None
<1>1. CASE current[c] = None
  <2>1. DefaultOf(tenants) \in Sections(tenants)
    BY DefaultIsThere
  <2>2. QED
    BY <1>1, <2>1, NameIsUnique DEF InEffect, Good
<1>2. CASE current[c] # None
  BY <1>2 DEF InEffect, CallInv
<1>3. QED
  BY <1>1, <1>2

\* A tenant that is kept is not the one that stands for none.
LEMMA NotLoadedIsNotGood == ~Good(NotLoaded)
  BY DEF Good, Valid, NotLoaded

-----------------------------------------------------------------------------
\* The two ways a call finds its tenant: by its argument or by its user.
LEMMA RunInMeans ==
    ASSUME NEW c \in Calls, ShapeInv, StateInv, CallInv(c), stage[c] = "route", NEW name,
           RunIn(c, name), HasName(tenants, name), UNCHANGED <<file, state, request, local, used>>,
           LET r == request[c]
           IN  tenants.fromFile =>
                 /\ (HasUser(r) /\ (r.ref = None \/ ConflictRefused(r))) =>
                       \A t \in Sections(tenants) : r.user \in t.domains => t.name = name
                 /\ r.ref # None =>
                       r.ref \in {Get(tenants, name).name, Get(tenants, name).id}
                                 \cup Get(tenants, name).domains
    PROVE  CallInv(c)'
<1>1. tenants # NotLoaded /\ local[c] = tenants /\ Good(tenants)
  BY DEF CallInv, StateInv
<1>2. name # None
  BY <1>1 DEF HasName, Good
<1>3. /\ stage'[c] = "client" /\ current'[c] = name /\ tagged'[c] = tenants.fromFile
      /\ note'[c] = (tenants.fromFile /\ Unclaimed(tenants, request[c]))
      /\ tenants' = tenants /\ local'[c] = tenants
  BY <1>1 DEF RunIn, Goto, ShapeInv, state
<1>4. ASSUME tenants.fromFile, HasUser(request[c])
      PROVE  note'[c] <=> \A t \in Sections(tenants) : request[c].user \notin t.domains
  <2>1. Owner(tenants, request[c]) = ByDomain(tenants, request[c].user)
    BY <1>1, <1>4, OwnerFinds
  <2>2. ByDomain(tenants, request[c].user) = NoSection
          <=> \A t \in Sections(tenants) : request[c].user \notin t.domains
    BY <1>1, ByDomainFinds, NoneIsNoSection
  <2>3. QED
    BY <1>3, <1>4, <2>1, <2>2 DEF Unclaimed
<1>5. tenants.fromFile => Means(c)'
  BY <1>3, <1>4 DEF Means
<1>6. QED
  BY <1>1, <1>2, <1>3, <1>5 DEF CallInv, Done

LEMMA RefMeans ==
    ASSUME NEW c \in Calls, ShapeInv, StateInv, CallInv(c), RouteByRef(c)
    PROVE  CallInv(c)'
<1> DEFINE r == request[c]
           given == Resolve(tenants, r.ref)
           owner == Owner(tenants, r)
<1>1. tenants # NotLoaded /\ local[c] = tenants /\ Good(tenants) /\ stage[c] = "route"
  BY DEF CallInv, StateInv, RouteByRef
<1>2. CASE given = NoSection \/ (ConflictRefused(r) /\ owner # NoSection /\ owner.name # given.name)
  <2>1. Refuse(c) /\ UNCHANGED <<file, edits, state, request, local, used>>
    BY <1>1, <1>2 DEF RouteByRef
  <2>2. /\ stage'[c] = "refused" /\ current' = current /\ tagged' = tagged /\ note' = note
        /\ tenants' = tenants /\ request' = request /\ local' = local
    BY <2>1 DEF Refuse, Goto, ShapeInv, state
  <2>3. Means(c)' <=> Means(c)
    BY <2>2 DEF Means
  <2>4. QED
    BY <2>2, <2>3 DEF CallInv, Done
<1>3. CASE ~(given = NoSection \/ (ConflictRefused(r) /\ owner # NoSection /\ owner.name # given.name))
  <2>1. RunIn(c, given.name) /\ UNCHANGED <<file, edits, state, request, local, used>>
    BY <1>1, <1>3 DEF RouteByRef
  <2>2. /\ given \in Sections(tenants) /\ r.ref \in {given.name, given.id} \cup given.domains
    BY <1>1, <1>3, ResolveFinds
  <2>3. HasName(tenants, given.name) /\ Get(tenants, given.name) = given
    BY <1>1, <2>2, NameIsUnique
  <2>4. r.ref # None
    BY DEF RouteByRef
  <2>5. ASSUME tenants.fromFile, HasUser(r), ConflictRefused(r),
               NEW t \in Sections(tenants), r.user \in t.domains
        PROVE  t.name = given.name
    <3>1. owner = ByDomain(tenants, r.user)
      BY <1>1, <2>5, OwnerFinds
    <3>2. t = owner /\ owner # NoSection
      BY <1>1, <2>5, <3>1, ByDomainFinds, NoneIsNoSection
    <3>3. QED
      BY <1>3, <2>5, <3>2
  <2> HIDE DEF given, owner
  <2>6. QED
    BY <1>1, <2>1, <2>2, <2>3, <2>4, <2>5, RunInMeans
<1>4. QED
  BY <1>2, <1>3

LEMMA UserMeans ==
    ASSUME NEW c \in Calls, ShapeInv, StateInv, CallInv(c), RouteByUser(c)
    PROVE  CallInv(c)'
<1> DEFINE r == request[c]
           owner == Owner(tenants, r)
<1>1. /\ tenants # NotLoaded /\ local[c] = tenants /\ Good(tenants) /\ stage[c] = "route"
      /\ r.ref = None
  BY DEF CallInv, StateInv, RouteByUser
<1>2. tenants.fromFile /\ HasUser(r) => owner = ByDomain(tenants, r.user)
  BY <1>1, OwnerFinds
<1>3. CASE owner # NoSection
  <2>1. RunIn(c, owner.name) /\ UNCHANGED <<file, edits, state, request, local, used>>
    BY <1>1, <1>3 DEF RouteByUser
  <2>2. owner \in Sections(tenants)
    <3>1. HasUser(r) /\ owner = ForUpn(tenants, r.user)
      BY <1>3 DEF Owner
    <3>2. QED
      BY <1>1, <1>3, <3>1, ByDomainFinds, DefaultIsThere DEF ForUpn
  <2>3. HasName(tenants, owner.name)
    BY <1>1, <2>2, NameIsUnique
  <2>4. ASSUME tenants.fromFile, HasUser(r), NEW t \in Sections(tenants), r.user \in t.domains
        PROVE  t.name = owner.name
    BY <1>1, <1>2, <2>4, ByDomainFinds
  <2> HIDE DEF owner
  <2>5. QED
    BY <1>1, <2>1, <2>3, <2>4, RunInMeans
<1>4. CASE owner = NoSection /\ ~(HasUser(r) /\ UnclaimedRefused(r))
  <2>1. RunIn(c, InEffect(c)) /\ UNCHANGED <<file, edits, state, request, local, used>>
    BY <1>1, <1>4 DEF RouteByUser
  <2>2. HasName(tenants, InEffect(c))
    BY <1>1, InEffectIsThere
  <2>3. ASSUME tenants.fromFile, HasUser(r), NEW t \in Sections(tenants)
        PROVE  r.user \notin t.domains
    BY <1>1, <1>2, <1>4, <2>3, ByDomainFinds, NoneIsNoSection
  <2> HIDE DEF owner
  <2>4. QED
    BY <1>1, <2>1, <2>2, <2>3, RunInMeans
<1>5. CASE owner = NoSection /\ HasUser(r) /\ UnclaimedRefused(r)
  <2>1. Refuse(c) /\ UNCHANGED <<file, edits, state, request, local, used>>
    BY <1>1, <1>5 DEF RouteByUser
  <2>2. /\ stage'[c] = "refused" /\ current' = current /\ tagged' = tagged /\ note' = note
        /\ tenants' = tenants /\ request' = request /\ local' = local
    BY <2>1 DEF Refuse, Goto, ShapeInv, state
  <2>3. Means(c)' <=> Means(c)
    BY <2>2 DEF Means
  <2>4. QED
    BY <2>2, <2>3 DEF CallInv, Done
<1>6. QED
  BY <1>3, <1>4, <1>5

-----------------------------------------------------------------------------
\* A call that only moves, to a place where nothing is claimed.
LEMMA MoveKeeps ==
    ASSUME NEW c \in Calls, ShapeInv, CallInv(c), tenants' = tenants, file' = file,
           request'[c] = request[c], local'[c] = local[c], current'[c] = current[c],
           tagged'[c] = tagged[c], note'[c] = note[c],
           stage'[c] \in {"client", "raised", "error"}
    PROVE  CallInv(c)'
<1>1. Means(c)' <=> Means(c)
  BY DEF Means
<1>2. QED
  BY <1>1 DEF CallInv, Done

\* The tenants that were loaded are what the caller of _tenants() gets.
LEMMA LoadStep ==
    ASSUME RoutingAssumption, NEW c \in Calls, ShapeInv, StateInv, CallInv(c), Valid(file),
           stage[c] \in {"load", "reload"}, tenants' = Loaded(file), UNCHANGED <<file, current, note>>,
           UNCHANGED <<defaultClient, clients, request, tagged>>,
           \/ stage'[c] = "route" /\ local'[c] = Loaded(file)
           \/ stage'[c] = "client" /\ local'[c] = local[c]
    PROVE  LoadsOnce /\ StateInv' /\ CallInv(c)'
<1>1. Good(Loaded(file)) /\ Loaded(file) # NotLoaded
  BY LoadedIsGood, NotLoadedIsNotGood DEF ShapeInv
<1>2. LoadsOnce
  BY DEF CallInv, LoadsOnce
<1>3. StateInv'
  BY <1>2, StateStays DEF ShapeInv
<1>4. CASE tenants # NotLoaded
  <2>1. tenants' = tenants
    BY <1>2, <1>4 DEF LoadsOnce
  <2>2. Means(c)' <=> Means(c)
    BY <2>1 DEF Means
  <2>3. QED
    BY <1>1, <1>2, <1>3, <1>4, <2>1, <2>2 DEF CallInv, Done
<1>5. CASE tenants = NotLoaded
  <2>1. ~tagged[c] /\ current[c] = None
    BY <1>5 DEF CallInv, ShapeInv
  <2>2. QED
    BY <1>1, <1>2, <1>3, <2>1 DEF CallInv, Done
<1>6. QED
  BY <1>4, <1>5

\* What is kept for a tenant is the section of that name.
LEMMA CachedIsItsSection ==
    ASSUME StateInv, NEW name, tenants # NotLoaded, HasName(tenants, name),
           Cached(name) # NoSection
    PROVE  Cached(name) = Get(tenants, name)
  BY DEF StateInv, Cached, HasSlot

\* The client that is made is kept under its tenant's name.
LEMMA CreateKeeps ==
    ASSUME NEW c \in Calls, ShapeInv, StateInv, CallInv(c), CreateClient(c)
    PROVE  StateInv' /\ CallInv(c)'
<1> DEFINE name == InEffect(c)
           section == Get(tenants, name)
<1>1. tenants # NotLoaded /\ HasName(tenants, name) /\ tenants' = tenants /\ file' = file
  BY DEF CallInv, CreateClient
<1>2. CASE HasSlot(name)
  <2>1. defaultClient' = section /\ clients' = clients
    BY <1>2 DEF CreateClient
  <2>2. section = Get(tenants, DefaultOf(tenants).name)
    BY <1>2 DEF HasSlot
  <2>3. StateInv'
    BY <1>1, <2>1, <2>2 DEF StateInv
  <2>4. QED
    BY <1>1, <2>3, MoveKeeps DEF CreateClient, Goto, ShapeInv
<1>3. CASE ~HasSlot(name)
  <2>1. /\ defaultClient' = defaultClient
        /\ clients' = [n \in DOMAIN clients \cup {name} |->
                          IF n = name THEN section ELSE clients[n]]
    BY <1>3 DEF CreateClient
  <2> HIDE DEF name
  <2>2. \A n \in DOMAIN clients' : HasName(tenants, n) /\ clients'[n] = Get(tenants, n)
    BY <1>1, <2>1 DEF StateInv
  <2>3. StateInv'
    BY <1>1, <2>1, <2>2 DEF StateInv
  <2>4. QED
    BY <1>1, <2>3, MoveKeeps DEF CreateClient, Goto, ShapeInv
<1>4. QED
  BY <1>2, <1>3

\* A call does its step.
CallStep(c) ==
    \/ Enter(c) \/ Load(c) \/ RouteByRef(c) \/ RouteByUser(c)
    \/ FindClient(c) \/ Reload(c) \/ CreateClient(c)
    \/ \E r \in Requests : NextCall(c, r)

\* The step of a call leaves the tables of the others alone.
LEMMA OthersStay ==
    ASSUME NEW c \in Calls, ShapeInv, StateInv, CallInv(c), CallStep(c)
    PROVE  /\ ShapeInv' /\ file' = file
           /\ \A d \in Calls \ {c} :
                 /\ request'[d] = request[d] /\ stage'[d] = stage[d] /\ local'[d] = local[d]
                 /\ current'[d] = current[d] /\ tagged'[d] = tagged[d] /\ note'[d] = note[d]
                 /\ used'[d] = used[d]
<1> USE DEF ShapeInv, Stages, Goto
<1>0. ASSUME stage[c] = "route"
      PROVE  local[c].fromFile \in BOOLEAN
  BY <1>0 DEF CallInv, StateInv, Good
<1>1. CASE Enter(c)
  BY <1>1 DEF Enter
<1>2. CASE Load(c)
  BY <1>2 DEF Load
<1>a. ASSUME NEW name, RunIn(c, name), stage[c] = "route"
      PROVE  /\ tagged' \in [Calls -> BOOLEAN] /\ note' \in [Calls -> BOOLEAN]
             /\ stage' \in [Calls -> Stages] /\ DOMAIN current' = Calls
             /\ \A d \in Calls \ {c} :
                   /\ stage'[d] = stage[d] /\ current'[d] = current[d]
                   /\ tagged'[d] = tagged[d] /\ note'[d] = note[d]
  BY <1>0, <1>a DEF RunIn
<1>b. ASSUME Refuse(c)
      PROVE  /\ tagged' \in [Calls -> BOOLEAN] /\ note' \in [Calls -> BOOLEAN]
             /\ stage' \in [Calls -> Stages] /\ DOMAIN current' = Calls
             /\ \A d \in Calls \ {c} :
                   /\ stage'[d] = stage[d] /\ current'[d] = current[d]
                   /\ tagged'[d] = tagged[d] /\ note'[d] = note[d]
  BY <1>b DEF Refuse
<1>3. CASE RouteByRef(c)
  <2>1. Refuse(c) \/ \E name : RunIn(c, name)
    BY <1>3 DEF RouteByRef
  <2>2. stage[c] = "route" /\ UNCHANGED <<file, edits, request, local, used>>
    BY <1>3 DEF RouteByRef
  <2>3. QED
    BY <1>a, <1>b, <2>1, <2>2
<1>4. CASE RouteByUser(c)
  <2>1. Refuse(c) \/ \E name : RunIn(c, name)
    BY <1>4 DEF RouteByUser
  <2>2. stage[c] = "route" /\ UNCHANGED <<file, edits, request, local, used>>
    BY <1>4 DEF RouteByUser
  <2>3. QED
    BY <1>a, <1>b, <2>1, <2>2
<1>5. CASE FindClient(c)
  BY <1>5 DEF FindClient
<1>6. CASE Reload(c)
  BY <1>6 DEF Reload
<1>7. CASE CreateClient(c)
  BY <1>7 DEF CreateClient
<1>8. ASSUME NEW r \in Requests, NextCall(c, r)
      PROVE  /\ ShapeInv' /\ file' = file
             /\ \A d \in Calls \ {c} :
                   /\ request'[d] = request[d] /\ stage'[d] = stage[d] /\ local'[d] = local[d]
                   /\ current'[d] = current[d] /\ tagged'[d] = tagged[d] /\ note'[d] = note[d]
                   /\ used'[d] = used[d]
  BY <1>8 DEF NextCall
<1>9. QED
  BY <1>1, <1>2, <1>3, <1>4, <1>5, <1>6, <1>7, <1>8 DEF CallStep

\* An edit waits until nobody is loading.
LEMMA EditKeeps ==
    ASSUME RouteInv, ~RacingEdits, NEW f \in Files, Edit(f)
    PROVE  RouteInv'
<1>1. /\ UNCHANGED <<tenants, defaultClient, clients, request, stage, local, current,
                     tagged, note, used>>
      /\ \A c \in Calls : stage[c] \notin {"load", "reload"}
      /\ file' \in Files /\ edits' \in 0..MaxEdits
  BY RoutingAssumption DEF Edit, RouteInv, ShapeInv, state
<1>2. ShapeInv' /\ StateInv'
  BY <1>1 DEF RouteInv, ShapeInv, StateInv
<1>3. ASSUME NEW c \in Calls
      PROVE  CallInv(c)'
  <2>1. InEffect(c)' = InEffect(c) /\ (Done(c)' <=> Done(c)) /\ (Means(c)' <=> Means(c))
    BY <1>1 DEF InEffect, Done, Means
  <2>2. QED
    BY <1>1, <2>1 DEF RouteInv, CallInv
<1>4. QED
  BY <1>2, <1>3 DEF RouteInv

\* A step of a call keeps what the process and the call know.
LEMMA CallKeeps ==
    ASSUME RouteInv, RoutingAssumption, NEW c \in Calls, CallStep(c)
    PROVE  LoadsOnce /\ StateInv' /\ CallInv(c)'
<1>1. ShapeInv /\ StateInv /\ CallInv(c)
  BY DEF RouteInv
<1>2. ASSUME tenants' = tenants
      PROVE  LoadsOnce
  BY <1>2 DEF LoadsOnce
<1>3. ASSUME UNCHANGED state
      PROVE  LoadsOnce /\ StateInv'
  BY <1>1, <1>3, <1>2 DEF state, StateInv
<1>4. CASE Enter(c)
  <2>1. Means(c)' <=> Means(c)
    BY <1>4 DEF Enter, Means, state
  <2>2. CASE MustLoad
    BY <1>1, <1>3, <1>4, <2>1, <2>2 DEF Enter, MustLoad, Goto, ShapeInv, CallInv, Done, state
  <2>3. CASE ~MustLoad
    BY <1>1, <1>3, <1>4, <2>1, <2>3 DEF Enter, MustLoad, Goto, ShapeInv, CallInv, Done, state
  <2>4. QED
    BY <2>2, <2>3
<1>5. CASE Load(c)
  <2>1. CASE Valid(file)
    BY <1>1, <1>5, <2>1, LoadStep DEF Load, Goto, ShapeInv
  <2>2. CASE ~Valid(file)
    BY <1>1, <1>3, <1>5, <2>2, MoveKeeps DEF Load, Goto, ShapeInv, state
  <2>3. QED
    BY <2>1, <2>2
<1>6. CASE Reload(c)
  <2>1. CASE Valid(file)
    BY <1>1, <1>6, <2>1, LoadStep DEF Reload, Goto, ShapeInv
  <2>2. CASE ~Valid(file)
    BY <1>1, <1>3, <1>6, <2>2, MoveKeeps DEF Reload, Goto, ShapeInv, state
  <2>3. QED
    BY <2>1, <2>2
<1>7. CASE RouteByRef(c)
  BY <1>1, <1>3, <1>7, RefMeans DEF RouteByRef
<1>8. CASE RouteByUser(c)
  BY <1>1, <1>3, <1>8, UserMeans DEF RouteByUser
<1>9. CASE FindClient(c)
  <2>1. /\ UNCHANGED state /\ UNCHANGED <<file, request, local, current, tagged, note>>
        /\ tenants' = tenants
    BY <1>9 DEF FindClient, state
  <2>2. (Means(c)' <=> Means(c)) /\ InEffect(c)' = InEffect(c)
    BY <2>1 DEF Means, InEffect
  <2>3. CASE tenants = NotLoaded
    BY <1>1, <1>3, <1>9, <2>1, <2>2, <2>3 DEF FindClient, Goto, ShapeInv, CallInv, Done
  <2>4. CASE tenants # NotLoaded /\ ~HasName(tenants, InEffect(c))
    BY <1>1, <1>3, <1>9, <2>1, <2>4, MoveKeeps DEF FindClient, Goto, ShapeInv
  <2>5. CASE tenants # NotLoaded /\ HasName(tenants, InEffect(c))
    <3>1. CASE Cached(InEffect(c)) = NoSection
      BY <1>1, <1>3, <1>9, <2>1, <2>2, <2>5, <3>1 DEF FindClient, Goto, ShapeInv, CallInv, Done
    <3>2. CASE Cached(InEffect(c)) # NoSection
      <4>1. Cached(InEffect(c)) = Get(tenants, InEffect(c))
        BY <1>1, <2>5, <3>2, CachedIsItsSection
      <4>2. stage'[c] = "done" /\ used'[c] = Cached(InEffect(c))
        BY <1>1, <1>9, <2>5, <3>2 DEF FindClient, Goto, ShapeInv
      <4>3. QED
        BY <1>1, <1>3, <2>1, <2>2, <2>5, <4>1, <4>2 DEF CallInv, Done
    <3>3. QED
      BY <3>1, <3>2
  <2>6. QED
    BY <2>3, <2>4, <2>5
<1>10. CASE CreateClient(c)
  BY <1>1, <1>2, <1>10, CreateKeeps DEF CreateClient
<1>11. ASSUME NEW r \in Requests, NextCall(c, r)
       PROVE  LoadsOnce /\ StateInv' /\ CallInv(c)'
  <2>1. /\ UNCHANGED state /\ tenants' = tenants /\ stage'[c] = "enter" /\ ~tagged'[c]
        /\ current'[c] = r.brief /\ (r.brief # None => HasName(tenants, r.brief))
    BY <1>1, <1>11 DEF NextCall, ShapeInv, state
  <2>2. ~HasName(NotLoaded, r.brief)
    BY DEF HasName, NotLoaded, Sections, ToSet
  <2>3. QED
    BY <1>3, <2>1, <2>2 DEF CallInv, Done
<1>12. QED
  BY <1>4, <1>5, <1>6, <1>7, <1>8, <1>9, <1>10, <1>11 DEF CallStep

LEMMA RouteStep == ASSUME ~RacingEdits PROVE RouteInv /\ [Next]_vars => RouteInv'
<1> SUFFICES ASSUME RouteInv, [Next]_vars
             PROVE  RouteInv'
  OBVIOUS
<1>1. ASSUME NEW f \in Files, Edit(f)
      PROVE  RouteInv'
  BY <1>1, EditKeeps
<1>2. ASSUME NEW c \in Calls, CallStep(c)
      PROVE  RouteInv'
  <2>1. ShapeInv /\ StateInv /\ \A d \in Calls : CallInv(d)
    BY DEF RouteInv
  <2>2. LoadsOnce /\ StateInv' /\ CallInv(c)'
    BY <1>2, CallKeeps, RoutingAssumption
  <2>3. /\ ShapeInv' /\ file' = file
        /\ \A d \in Calls \ {c} :
              /\ request'[d] = request[d] /\ stage'[d] = stage[d] /\ local'[d] = local[d]
              /\ current'[d] = current[d] /\ tagged'[d] = tagged[d] /\ note'[d] = note[d]
              /\ used'[d] = used[d]
    BY <1>2, <2>1, OthersStay
  <2>4. ASSUME NEW d \in Calls
        PROVE  CallInv(d)'
    <3>1. CASE d = c
      BY <2>2, <3>1
    <3>2. CASE d # c
      BY <2>1, <2>2, <2>3, <3>2, Bystander
    <3>3. QED
      BY <3>1, <3>2
  <2>5. QED
    BY <2>2, <2>3, <2>4 DEF RouteInv
<1>3. CASE UNCHANGED vars
  <2>1. UNCHANGED <<file, edits, tenants, defaultClient, clients, request, stage, local,
                    current, tagged, note, used>>
    BY <1>3 DEF vars, state
  <2>2. ASSUME NEW c \in Calls
        PROVE  CallInv(c)'
    <3>1. InEffect(c)' = InEffect(c) /\ (Done(c)' <=> Done(c)) /\ (Means(c)' <=> Means(c))
      BY <2>1 DEF InEffect, Done, Means
    <3>2. QED
      BY <2>1, <3>1 DEF RouteInv, CallInv
  <2>3. ShapeInv' /\ StateInv'
    BY <2>1 DEF RouteInv, ShapeInv, StateInv
  <2>4. QED
    BY <2>2, <2>3 DEF RouteInv
<1>4. QED
  BY <1>1, <1>2, <1>3 DEF Next, CallStep

LEMMA RouteInit == Init => RouteInv
<1> SUFFICES ASSUME Init
             PROVE  RouteInv
  OBVIOUS
<1>1. ShapeInv
  BY RoutingAssumption DEF Init, ShapeInv, Stages
<1>2. StateInv
  BY DEF Init, StateInv
<1>3. ASSUME NEW c \in Calls
      PROVE  CallInv(c)
  BY DEF Init, CallInv, Done
<1>4. QED
  BY <1>1, <1>2, <1>3 DEF RouteInv

LEMMA RouteHolds == ASSUME ~RacingEdits PROVE Spec => []RouteInv
<1>1. Init => RouteInv
  BY RouteInit
<1>2. RouteInv /\ [Next]_vars => RouteInv'
  BY RouteStep
<1>3. QED
  BY <1>1, <1>2, PTL DEF Spec

-----------------------------------------------------------------------------
\* What a call that answered used.
LEMMA UsedIsMeant ==
    ASSUME RouteInv, NEW c \in Calls, Done(c)
    PROVE  /\ Good(tenants) /\ used[c] = Get(tenants, InEffect(c))
           /\ used[c] \in Sections(tenants) /\ used[c].name = InEffect(c)
           /\ tagged[c] => tenants.fromFile /\ InEffect(c) = current[c] /\ Means(c)
  BY NameIsUnique DEF RouteInv, StateInv, CallInv, Done, InEffect

\* Every reachable state is well formed; what was loaded has a default.
THEOREM RoutingIsTyped == ASSUME ~RacingEdits PROVE Spec => []TypeOK
<1>1. RouteInv => TypeOK
  <2> SUFFICES ASSUME RouteInv
               PROVE  TypeOK
    OBVIOUS
  <2>1. \A c \in Calls : Done(c) => used[c] # NoSection
    BY UsedIsMeant, NoneIsNoSection
  <2>2. QED
    BY <2>1 DEF TypeOK, RouteInv, ShapeInv, StateInv, Good, Stages
<1>2. QED
  BY <1>1, RouteHolds, PTL

\* The tenant an answer names is the one whose credential was used, for any number of calls
\* at a time that load the file and make clients.
THEOREM TagIsAlwaysTrue == ASSUME ~RacingEdits PROVE Spec => []TagIsTrue
<1>1. RouteInv => TagIsTrue
  BY UsedIsMeant DEF TagIsTrue
<1>2. QED
  BY <1>1, RouteHolds, PTL

\* An account no tenant claims is never searched without saying so.
THEOREM UnclaimedIsAlwaysSaid == ASSUME ~RacingEdits PROVE Spec => []UnclaimedIsSaid
<1>1. RouteInv => UnclaimedIsSaid
  BY UsedIsMeant DEF UnclaimedIsSaid, Means
<1>2. QED
  BY <1>1, RouteHolds, PTL

\* A routed call works in the tenant its arguments mean, for every tenant file.
THEOREM AlwaysReachesItsTenant == ASSUME ~RacingEdits PROVE Spec => []ReachesItsTenant
<1>1. RouteInv => ReachesItsTenant
  <2> SUFFICES ASSUME RouteInv, NEW c \in Calls, Done(c), tagged[c]
               PROVE  /\ (HasUser(request[c])
                             /\ (request[c].ref = None \/ ConflictRefused(request[c]))) =>
                            \A s \in Sections(tenants) : request[c].user \in s.domains =>
                                used[c].name = s.name /\ used[c].id = s.id
                      /\ request[c].ref # None =>
                            request[c].ref \in {used[c].name, used[c].id} \cup used[c].domains
    BY DEF ReachesItsTenant
  <2>1. /\ Good(tenants) /\ used[c] = Get(tenants, current[c]) /\ used[c].name = current[c]
        /\ Means(c)
    BY UsedIsMeant
  <2>2. \A s \in Sections(tenants) : s.name = current[c] => s = used[c]
    BY <2>1, NameIsUnique
  <2>3. QED
    BY <2>1, <2>2 DEF Means
<1>2. QED
  BY <1>1, RouteHolds, PTL

\* No step gives a tenant a client with another credential: a second thread that found none
\* makes its client from the section the first one did.
LEMMA KeepsStep ==
    ASSUME RouteInv, [Next]_vars
    PROVE  /\ defaultClient # NoSection => defaultClient' = defaultClient
           /\ \A n \in DOMAIN clients : n \in DOMAIN clients' /\ clients'[n] = clients[n]
<1> SUFFICES ASSUME state' # state
             PROVE  /\ defaultClient # NoSection => defaultClient' = defaultClient
                    /\ \A n \in DOMAIN clients :
                          n \in DOMAIN clients' /\ clients'[n] = clients[n]
  BY DEF state
<1>1. PICK c \in Calls : CallStep(c)
  BY DEF Next, CallStep, Edit, vars
<1>2. ShapeInv /\ StateInv /\ CallInv(c)
  BY DEF RouteInv
<1>3. CASE CreateClient(c)
  <2> DEFINE name == InEffect(c)
             section == Get(tenants, name)
  <2>1. CASE HasSlot(name)
    <3>1. defaultClient' = section /\ clients' = clients
      BY <1>3, <2>1 DEF CreateClient
    <3>2. defaultClient # NoSection => defaultClient = section
      BY <1>2, <2>1 DEF StateInv, HasSlot
    <3>3. QED
      BY <3>1, <3>2
  <2>2. CASE ~HasSlot(name)
    <3>1. /\ defaultClient' = defaultClient
          /\ clients' = [n \in DOMAIN clients \cup {name} |->
                            IF n = name THEN section ELSE clients[n]]
      BY <1>3, <2>2 DEF CreateClient
    <3> HIDE DEF name
    <3>2. \A n \in DOMAIN clients : clients[n] = Get(tenants, n)
      BY <1>2 DEF StateInv
    <3>3. \A n \in DOMAIN clients : n \in DOMAIN clients' /\ clients'[n] = clients[n]
      BY <3>1, <3>2
    <3>4. QED
      BY <3>1, <3>3
  <2>3. QED
    BY <2>1, <2>2
<1>4. CASE ~CreateClient(c)
  <2>1. defaultClient' = defaultClient /\ clients' = clients
    BY <1>1, <1>4 DEF CallStep, Enter, Load, RouteByRef, RouteByUser, FindClient, Reload,
                      NextCall, state
  <2>2. QED
    BY <2>1
<1>5. QED
  BY <1>3, <1>4

\* Whoever made a client, it is kept where _client() looks for it.
MakerInv == \A n \in DOMAIN maker : tenants # NotLoaded /\ Cached(n) # NoSection

\* A step that neither loads nor stores leaves the clients where they are.
LEMMA CachedStays ==
    ASSUME MakerInv, tenants # NotLoaded => tenants' = tenants,
           UNCHANGED <<defaultClient, clients, maker>>
    PROVE  MakerInv'
<1>1. ASSUME NEW n \in DOMAIN maker
      PROVE  tenants' # NotLoaded /\ Cached(n)' # NoSection
  <2>1. tenants # NotLoaded /\ Cached(n) # NoSection /\ tenants' = tenants
    BY <1>1 DEF MakerInv
  <2>2. Cached(n)' = Cached(n)
    BY <2>1 DEF Cached, HasSlot
  <2>3. QED
    BY <2>1, <2>2
<1>2. QED
  BY <1>1 DEF MakerInv

\* The one step that stores a client.
LEMMA MakerCreates ==
    ASSUME RouteInv, MakerInv, NEW c \in Calls, CreateClient(c)
    PROVE  MakerInv'
<1> DEFINE name == InEffect(c)
           section == Get(tenants, name)
<1>1. /\ StateInv /\ tenants # NotLoaded /\ HasName(tenants, name) /\ tenants' = tenants
      /\ DOMAIN maker' = DOMAIN maker \cup {name}
  BY DEF RouteInv, CallInv, CreateClient
<1>2. section # NoSection
  BY <1>1, NameIsUnique, NoneIsNoSection DEF StateInv
<1>3. CASE HasSlot(name)
  <2>1. defaultClient' = section /\ clients' = clients
    BY <1>3 DEF CreateClient
  <2> HIDE DEF section, name
  <2>2. \A n \in DOMAIN maker \cup {name} : Cached(n)' # NoSection
    BY <1>1, <1>2, <1>3, <2>1 DEF Cached, HasSlot, MakerInv
  <2>3. QED
    BY <1>1, <2>2 DEF MakerInv
<1>4. CASE ~HasSlot(name)
  <2>1. /\ defaultClient' = defaultClient
        /\ clients' = [n \in DOMAIN clients \cup {name} |->
                          IF n = name THEN section ELSE clients[n]]
    BY <1>4 DEF CreateClient
  <2> HIDE DEF section, name
  <2>2. \A n \in DOMAIN maker \cup {name} : Cached(n)' # NoSection
    BY <1>1, <1>2, <1>4, <2>1 DEF Cached, HasSlot, MakerInv
  <2>3. QED
    BY <1>1, <2>2 DEF MakerInv
<1>5. QED
  BY <1>3, <1>4

\* A tenant's client stays the one it is while no call is making another, and a call that
\* finds it makes none.
LEMMA MakerStep ==
    ASSUME RouteInv, MakerInv, [Next]_vars
    PROVE  /\ MakerInv'
           /\ \A n \in DOMAIN maker : ~Making(n) =>
                 n \in DOMAIN maker' /\ maker'[n] = maker[n] /\ ~Making(n)'
<1>1. ASSUME UNCHANGED <<tenants, stage, current, defaultClient, clients, maker>>
      PROVE  /\ MakerInv'
             /\ \A n \in DOMAIN maker : ~Making(n) =>
                   n \in DOMAIN maker' /\ maker'[n] = maker[n] /\ ~Making(n)'
  BY <1>1, CachedStays DEF Making, InEffect
<1>2. CASE UNCHANGED vars
  BY <1>1, <1>2 DEF vars, state
<1>3. CASE \E f \in Files : Edit(f)
  BY <1>1, <1>3 DEF Edit, state
<1>4. ASSUME NEW c \in Calls, CallStep(c)
      PROVE  /\ MakerInv'
             /\ \A n \in DOMAIN maker : ~Making(n) =>
                   n \in DOMAIN maker' /\ maker'[n] = maker[n] /\ ~Making(n)'
  <2>1. ShapeInv /\ StateInv /\ CallInv(c) /\ \A d \in Calls : CallInv(d)
    BY DEF RouteInv
  <2>2. LoadsOnce
    BY <1>4, CallKeeps, RoutingAssumption
  <2>3. \A d \in Calls \ {c} : stage'[d] = stage[d] /\ current'[d] = current[d]
    BY <1>4, <2>1, OthersStay
  <2>4. MakerInv'
    <3>1. CASE CreateClient(c)
      BY <3>1, MakerCreates
    <3>2. CASE ~CreateClient(c)
      <4>1. UNCHANGED <<defaultClient, clients, maker>>
        BY <1>4, <3>2 DEF CallStep, Enter, Load, RouteByRef, RouteByUser, FindClient, Reload,
                          NextCall, state
      <4>2. QED
        BY <2>2, <4>1, CachedStays DEF LoadsOnce
    <3>3. QED
      BY <3>1, <3>2
  <2>5. ASSUME NEW n \in DOMAIN maker, ~Making(n)
        PROVE  n \in DOMAIN maker' /\ maker'[n] = maker[n] /\ ~Making(n)'
    <3>1. tenants # NotLoaded /\ tenants' = tenants /\ Cached(n) # NoSection
      BY <2>2, <2>5 DEF MakerInv, LoadsOnce
    <3>2. n \in DOMAIN maker' /\ maker'[n] = maker[n]
      <4>1. CASE CreateClient(c)
        BY <2>5, <4>1 DEF CreateClient, Making
      <4>2. CASE ~CreateClient(c)
        BY <1>4, <4>2 DEF CallStep, Enter, Load, RouteByRef, RouteByUser, FindClient, Reload,
                          NextCall, state
      <4>3. QED
        BY <4>1, <4>2
    <3>3. stage'[c] = "create" => FindClient(c) /\ Cached(InEffect(c)) = NoSection
      BY <1>4, <2>1 DEF CallStep, Enter, Load, RouteByRef, RouteByUser, FindClient, Reload,
                        CreateClient, NextCall, Goto, Refuse, RunIn, ShapeInv
    <3>4. (stage'[c] = "create" /\ InEffect(c)' = n) => FALSE
      <4>1. FindClient(c) => InEffect(c)' = InEffect(c)
        BY <3>1 DEF FindClient, InEffect
      <4>2. QED
        BY <3>1, <3>3, <4>1
    <3>5. \A d \in Calls \ {c} : (stage'[d] = "create" /\ InEffect(d)' = n) => FALSE
      BY <2>3, <2>5, <3>1 DEF Making, InEffect
    <3>6. QED
      BY <3>2, <3>4, <3>5 DEF Making
  <2>6. QED
    BY <2>4, <2>5
<1>5. QED
  BY <1>2, <1>3, <1>4 DEF Next, CallStep

\* A tenant's client is kept for good once no call is making another, and until then never
\* replaced by one with another credential, for any number of calls at a time that find none
\* at the same moment, as long as no edit of the file falls into the moment a call takes to
\* load it.
THEOREM ClientsAreAlwaysKept == ASSUME ~RacingEdits PROVE Spec => ClientsAreKept
<1>1. RouteInv /\ MakerInv /\ [Next]_vars =>
          [/\ defaultClient # NoSection => defaultClient' = defaultClient
           /\ \A n \in DOMAIN clients :
                 n \in DOMAIN clients' /\ clients'[n] = clients[n]
           /\ \A n \in DOMAIN maker : ~Making(n) =>
                 n \in DOMAIN maker' /\ maker'[n] = maker[n] /\ ~Making(n)']_vars
  BY KeepsStep, MakerStep
<1>2. Init => MakerInv
  BY DEF Init, MakerInv
<1>3. RouteInv /\ MakerInv /\ [Next]_vars => MakerInv'
  BY MakerStep
<1>4. QED
  BY <1>1, <1>2, <1>3, RouteHolds, PTL DEF Spec, ClientsAreKept

=============================================================================
