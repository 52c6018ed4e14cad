--------------------------- MODULE ResolverProofs ---------------------------
(***************************************************************************)
(* Theorems about Resolver and CheckedResolver: whatever registry and      *)
(* request it is given, a lockfile it produces is consistent and highest,  *)
(* and the search for rings decides rightly.  (Whether it produces one is  *)
(* another matter: see the README.)                                        *)
(***************************************************************************)
EXTENDS CheckedResolver, SequenceTheorems, FiniteSetTheorems, TLAPS

\* What a pass selects and what it leads to is well typed.
LEMMA PassTypes ==
    ASSUME TypeOK, NEW sel \in [Names(constraints) -> Released],
           \A p \in DOMAIN sel : sel[p] \in Published(p)
    PROVE  DOMAIN sel \subseteq Packages /\ DepsOf(sel) \subseteq Dependency
  <1>1. DOMAIN sel \subseteq Packages
    BY DEF TypeOK, Names, Dependency
  <1>2. ASSUME NEW p \in DOMAIN sel PROVE catalogue[p][sel[p]] \subseteq Dependency
    BY <1>1 DEF TypeOK, IsCatalogue, Published
  <1> QED BY <1>1, <1>2 DEF DepsOf

LEMMA InitInv == Init => ResolverInv
  <1> SUFFICES ASSUME Init PROVE ResolverInv
    OBVIOUS
  <1>1. TypeOK
    BY ResolverAssumption DEF Init, TypeOK, NoSelection, Ended
  <1> QED BY <1>1 DEF Init, ResolverInv, NoSignature

LEMMA StopInv ==
    ASSUME ResolverInv, NEW how \in Failures, Stop(how) PROVE ResolverInv'
  BY DEF ResolverInv, Stop, Failures, TypeOK, Ended, DepsOf, Published, Cyclic, ChildrenIn

LEMMA StartInv ==
    ASSUME ResolverInv, Start PROVE ResolverInv'
  <1>1. CASE WellFormed(request)
    <2>1. /\ pc = "start" /\ constraints' = request /\ pc' = "passes"
          /\ catalogue' = catalogue /\ request' = request /\ selected' = selected
          /\ previous' = previous
      BY <1>1 DEF Start
    <2> QED BY <1>1, <2>1 DEF ResolverInv, TypeOK, Ended, WellFormed
  <1>2. CASE ~WellFormed(request)
    BY <1>2, StopInv DEF Start, Failures
  <1> QED BY <1>1, <1>2

LEMMA PassInv ==
    ASSUME ResolverInv, Pass PROVE ResolverInv'
  <1>1. PICK sel \in [Names(constraints) -> Released] :
          /\ IsSelection(constraints, sel)
          /\ LET next == Rebuilt(sel) IN
             IF Cyclic(sel) THEN Stop("cycle")
             ELSE IF ~WellFormed(next) THEN Stop("invalid")
             ELSE /\ selected' = sel /\ constraints' = next
                  /\ previous' = Remembered(sel, next)
                  /\ pc' = IF previous = <<sel, next>> THEN "locked" ELSE "passes"
                  /\ UNCHANGED <<catalogue, request>>
    BY DEF Pass
  <1> DEFINE next == request \cup DepsOf(sel)
  <1>2. CASE Cyclic(sel) \/ ~WellFormed(next)
    BY <1>1, <1>2, StopInv DEF Failures, Rebuilt
  <1>3. CASE ~Cyclic(sel) /\ WellFormed(next)
    <2>1. /\ selected' = sel /\ constraints' = next /\ previous' = <<sel, next>>
          /\ pc' \in {"locked", "passes"} /\ catalogue' = catalogue /\ request' = request
          /\ pc' = "locked" => previous = <<sel, next>>
      BY <1>1, <1>3 DEF Rebuilt, Remembered
    <2>2. \A p \in DOMAIN sel : sel[p] \in Published(p)
      BY <1>1 DEF IsSelection, Allowed
    <2>3. DOMAIN sel \subseteq Packages /\ next \subseteq Dependency
      BY <2>2, PassTypes DEF ResolverInv, TypeOK
    <2>4. TypeOK'
      <3>1. sel \in [DOMAIN sel -> Version]
        BY <2>2, <2>3 DEF ResolverInv, TypeOK, IsCatalogue, Published
      <3> QED BY <2>1, <2>3, <3>1 DEF ResolverInv, TypeOK, Ended
    <2>5. previous' # NoSignature
      BY <2>1 DEF NoSignature
    <2>6. ASSUME pc' = "locked" PROVE constraints = next
      <3>1. previous = <<sel, next>> /\ <<sel, next>> # NoSignature
        BY <2>6, <2>1 DEF NoSignature
      <3>2. previous = <<selected, constraints>>
        BY <3>1 DEF ResolverInv
      <3> HIDE DEF next
      <3>3. <<sel, next>>[2] = <<selected, constraints>>[2]
        BY <3>1, <3>2
      <3> QED BY <3>3
    <2>7. DepsOf(selected)' = DepsOf(sel) /\ Cyclic(selected)' = Cyclic(sel)
      BY <2>1 DEF DepsOf, Cyclic, ChildrenIn
    <2> QED BY <2>1, <2>2, <2>4, <2>5, <2>6, <2>7, <1>1, <1>3
            DEF ResolverInv, IsSelection, Allowed, On, Published, WellFormed
  <1> QED BY <1>2, <1>3

LEMMA NextInv == ResolverInv /\ [Next]_vars => ResolverInv'
  <1> SUFFICES ASSUME ResolverInv, [Next]_vars PROVE ResolverInv'
    OBVIOUS
  <1>1. CASE Start  BY <1>1, StartInv
  <1>2. CASE Fail
    BY <1>2, StopInv DEF Fail, Failures
  <1>3. CASE Pass  BY <1>3, PassInv
  <1>4. CASE UNCHANGED vars
    BY <1>4 DEF vars, ResolverInv, TypeOK, WellFormed, DepsOf, Published, Cyclic, ChildrenIn,
                IsSelection, Allowed, On
  <1> QED BY <1>1, <1>2, <1>3, <1>4 DEF Next, Resolve, Stopped

\* The passes hold together throughout.
THEOREM PassesHold == Spec => []ResolverInv
  BY InitInv, NextInv, PTL DEF Spec

\* Every lockfile is consistent.
THEOREM Consistency == Spec => []LockfileConsistent
  <1>1. ResolverInv => LockfileConsistent
    BY DEF ResolverInv, LockfileConsistent, Consistent, IsSelection
  <1> QED BY <1>1, PassesHold, PTL

\* Every locked version is the highest one allowed.
THEOREM Highest == Spec => []LockfileHighest
  <1>1. ResolverInv => LockfileHighest
    BY DEF ResolverInv, LockfileHighest, IsSelection
  <1> QED BY <1>1, PassesHold, PTL

\* A version meets a caret or tilde range when, and only when, it is in that range,
\* whatever numbers they have.
LEMMA RangesRight ==
    ASSUME NEW w \in Version, NEW raw \in Constraint, IsRange(raw)
    PROVE  Satisfies(w, raw) <=> InRange(w, raw[1])
  <1> DEFINE v == raw[1].version
  <1>1. raw[1] \in Part
    BY DEF IsRange, Constraint
  <1>2. v \in Version /\ raw[1].mark \in {"^", "~"}
    BY <1>1 DEF IsRange, Ranges, Part
  <1>3. /\ v[1] \in Nat /\ v[2] \in Nat /\ v[3] \in Nat
        /\ w[1] \in Nat /\ w[2] \in Nat /\ w[3] \in Nat
        /\ v = <<v[1], v[2], v[3]>> /\ w = <<w[1], w[2], w[3]>>
    BY <1>2 DEF Version
  <1>4. ASSUME NEW u \in Version
        PROVE  (\A c \in Between(v, u) : Meets(w, c)) <=> ~Less(w, v) /\ Less(w, u)
    <2>1. u[1] \in Nat /\ u[2] \in Nat /\ u[3] \in Nat
      BY DEF Version
    <2>2. (v = w \/ Less(v, w)) <=> ~Less(w, v)
      BY <1>3 DEF Less
    <2> HIDE DEF v
    <2>3. Meets(w, [op |-> ">=", version |-> v]) <=> v = w \/ Less(v, w)
      BY DEF Meets
    <2>4. Meets(w, [op |-> "<", version |-> u]) <=> Less(w, u)
      BY DEF Meets
    <2> QED BY <2>2, <2>3, <2>4 DEF Between
  <1>5. CASE raw[1].mark = "^"
    <2>1. Comparators(raw) = Between(v, NextMajor(v))
      BY <1>5 DEF Comparators
    <2>2. NextMajor(v) \in Version
      BY <1>3 DEF NextMajor, Version
    <2>3. Less(w, NextMajor(v)) <=> w[1] < v[1] + 1
      BY <1>3 DEF Less, NextMajor
    <2>4. ~Less(w, v) => v[1] <= w[1]
      BY <1>3 DEF Less
    <2>5. Satisfies(w, raw) <=> ~Less(w, v) /\ Less(w, NextMajor(v))
      BY <2>1, <2>2, <1>4 DEF Satisfies
    <2> QED BY <2>3, <2>4, <2>5, <1>3, <1>5 DEF InRange
  <1>6. CASE raw[1].mark = "~"
    <2>1. Comparators(raw) = Between(v, NextMinor(v))
      BY <1>6 DEF Comparators
    <2>2. NextMinor(v) \in Version
      BY <1>3 DEF NextMinor, Version
    <2>3. Less(w, NextMinor(v)) <=> w[1] < v[1] \/ (w[1] = v[1] /\ w[2] < v[2] + 1)
      BY <1>3 DEF Less, NextMinor
    <2>4. ~Less(w, v) => v[1] < w[1] \/ (w[1] = v[1] /\ v[2] <= w[2])
      BY <1>3 DEF Less
    <2>5. Satisfies(w, raw) <=> ~Less(w, v) /\ Less(w, NextMinor(v))
      BY <2>1, <2>2, <1>4 DEF Satisfies
    <2> QED BY <2>3, <2>4, <2>5, <1>3, <1>6 DEF InRange
  <1> QED BY <1>2, <1>5, <1>6

\* What is locked for a range lies in it.
THEOREM InRanges == Spec => []LockfileInRange
  <1>1. ASSUME ResolverInv, pc = "locked", NEW c \in request \cup DepsOf(selected),
               IsRange(c.constraint)
        PROVE  InRange(selected[c.on], c.constraint[1])
    <2>1. c \in constraints /\ c \in Dependency /\ c.on \in DOMAIN selected
      BY <1>1 DEF ResolverInv, TypeOK, Names
    <2>2. Satisfies(selected[c.on], c.constraint)
      BY <1>1, <2>1 DEF ResolverInv, IsSelection, Allowed, On, Names
    <2>3. selected[c.on] \in Version /\ c.constraint \in Constraint
      BY <1>1, <2>1 DEF ResolverInv, TypeOK, Dependency
    <2> QED BY <1>1, <2>2, <2>3, RangesRight
  <1>2. ResolverInv => LockfileInRange
    BY <1>1 DEF LockfileInRange
  <1> QED BY <1>2, PassesHold, PTL

-----------------------------------------------------------------------------
(* Where no package may come to depend on itself.                          *)

\* The packages that a version of p depends on.
MayNeed(p) == {d.on : d \in UNION {catalogue[p][v] : v \in Published(p)}}

\* sel has the best version of p for the constraints C, or none if C does not name p.
IsRight(C, sel, p) ==
    IF p \in Names(C)
      THEN /\ p \in DOMAIN sel /\ sel[p] \in Allowed(C, p)
           /\ \A v \in Allowed(C, p) : ~Less(sel[p], v)
      ELSE p \notin DOMAIN sel

\* Versions are totally ordered, so that a package has one best version at most.
LEMMA BestIsOne ==
    ASSUME NEW v \in Version, NEW w \in Version, ~Less(v, w), ~Less(w, v)
    PROVE  v = w
  <1>1. /\ v = <<v[1], v[2], v[3]>> /\ w = <<w[1], w[2], w[3]>>
        /\ v[1] \in Nat /\ v[2] \in Nat /\ v[3] \in Nat
        /\ w[1] \in Nat /\ w[2] \in Nat /\ w[3] \in Nat
    BY DEF Version
  <1>2. v[1] = w[1] /\ v[2] = w[2] /\ v[3] = w[3]
    BY <1>1 DEF Less
  <1> QED BY <1>1, <1>2

\* Two selections that are right about p, for constraints that say the same of p, agree on p.
LEMMA RightIsOne ==
    ASSUME IsCatalogue(catalogue), NEW p \in Packages, NEW C, NEW D, On(C, p) = On(D, p),
           NEW sel, NEW other, IsRight(C, sel, p), IsRight(D, other, p)
    PROVE  /\ p \in DOMAIN sel <=> p \in DOMAIN other
           /\ p \in DOMAIN sel => sel[p] = other[p]
  <1>1. p \in Names(C) <=> p \in Names(D)
    BY DEF On, Names
  <1>2. Allowed(C, p) = Allowed(D, p)
    BY DEF Allowed
  <1>3. Allowed(C, p) \subseteq Version
    BY DEF Allowed, Published, IsCatalogue
  <1>4. CASE p \in Names(C)
    <2>1. /\ p \in DOMAIN sel /\ sel[p] \in Allowed(C, p) /\ p \in DOMAIN other
          /\ other[p] \in Allowed(C, p)
          /\ ~Less(sel[p], other[p]) /\ ~Less(other[p], sel[p])
      BY <1>1, <1>2, <1>4 DEF IsRight
    <2> QED BY <2>1, <1>3, BestIsOne
  <1>5. CASE p \notin Names(C)
    BY <1>1, <1>5 DEF IsRight
  <1> QED BY <1>4, <1>5

\* If two selections of published versions agree on whatever may need p, what they ask
\* of p is the same.
LEMMA SameDemands ==
    ASSUME NEW p \in Packages, NEW sel, NEW other,
           \A q \in DOMAIN sel : sel[q] \in Published(q),
           \A q \in DOMAIN other : other[q] \in Published(q),
           \A q \in DOMAIN sel \cup DOMAIN other : p \in MayNeed(q) =>
               q \in DOMAIN sel /\ q \in DOMAIN other /\ sel[q] = other[q]
    PROVE  On(request \cup DepsOf(sel), p) = On(request \cup DepsOf(other), p)
  <1>1. ASSUME NEW a, NEW b, \A q \in DOMAIN a : a[q] \in Published(q),
               \A q \in DOMAIN a : p \in MayNeed(q) => q \in DOMAIN b /\ a[q] = b[q],
               NEW c \in DepsOf(a), c.on = p
        PROVE  c \in DepsOf(b)
    <2>1. PICK q \in DOMAIN a : c \in catalogue[q][a[q]]
      BY <1>1 DEF DepsOf
    <2>2. p \in MayNeed(q)
      BY <1>1, <2>1 DEF MayNeed
    <2> QED BY <1>1, <2>1, <2>2 DEF DepsOf
  <1>2. \A c \in DepsOf(sel) : c.on = p => c \in DepsOf(other)
    BY <1>1
  <1>3. \A c \in DepsOf(other) : c.on = p => c \in DepsOf(sel)
    BY <1>1
  <1> QED BY <1>2, <1>3 DEF On

\* Every set of packages has one that no other of them may need.  If there were none in
\* D, a smallest part of D that is closed under "one that may need it" would be a ring.
LEMMA HasUnneeded ==
    ASSUME ~MayRing, NEW D \in SUBSET Packages, D # {}
    PROVE  \E p \in D : \A q \in D : p \notin MayNeed(q)
  <1> SUFFICES ASSUME \A p \in D : \E q \in D : p \in MayNeed(q) PROVE FALSE
    OBVIOUS
  <1> DEFINE f == [p \in D |-> CHOOSE q \in D : p \in MayNeed(q)]
             Closed == {T \in SUBSET D : T # {} /\ \A p \in T : f[p] \in T}
  <1>1. \A p \in D : f[p] \in D /\ p \in MayNeed(f[p])
    OBVIOUS
  <1> HIDE DEF f
  <1>2. PICK T \in Closed : \A U \in Closed : ~(U \subseteq T /\ U # T)
    <2>1. IsFiniteSet(D)
      BY FS_Subset, ResolverAssumption
    <2>2. IsWellFoundedOn(StrictSubsetOrdering(D), SUBSET D)
      BY <2>1, FS_StrictSubsetOrderingWellFounded, FS_FiniteSubsetsOfFinite
    <2>3. D \in Closed /\ Closed \subseteq SUBSET D
      BY <1>1
    <2> HIDE DEF Closed
    <2>4. PICK T \in Closed : \A U \in Closed : <<U, T>> \notin StrictSubsetOrdering(D)
      BY <2>2, <2>3, WFMin
    <2> QED BY <2>3, <2>4 DEF StrictSubsetOrdering
  <1> DEFINE U == {f[p] : p \in T}
  <1>3. U \in Closed /\ U \subseteq T
    BY <1>1, <1>2
  <1>4. \A q \in T : \E p \in T : p \in MayNeed(q)
    <2>1. U = T
      BY <1>2, <1>3
    <2>2. \A q \in T : \E p \in T : q = f[p]
      BY <2>1
    <2> QED BY <2>2, <1>1, <1>2
  <1>5. T \in (SUBSET Packages) \ {{}}
    BY <1>2
  <1>6. \A q \in T : \E v \in Published(q) : \E d \in catalogue[q][v] : d.on \in T
    BY <1>4 DEF MayNeed
  <1> QED BY <1>5, <1>6 DEF MayRing

\* A best selection is right about every package, for what it asks for itself.
LEMMA BestIsRight ==
    ASSUME NEW sel, IsBest(sel), NEW p
    PROVE  IsRight(request \cup DepsOf(sel), sel, p)
  BY DEF IsBest, Consistent, IsRight

\* Without rings there is one best selection at most: take a package on which two of them
\* differ and which no other such package may need.
LEMMA BestSelectionIsOne ==
    ASSUME TypeOK, ~MayRing,
           NEW names \in SUBSET Packages, NEW sel \in [names -> Released], IsBest(sel),
           NEW others \in SUBSET Packages, NEW other \in [others -> Released], IsBest(other)
    PROVE  sel = other
  <1> DEFINE Agree(p) == /\ p \in DOMAIN sel <=> p \in DOMAIN other
                         /\ p \in DOMAIN sel => sel[p] = other[p]
             D == {p \in Packages : ~Agree(p)}
  <1>1. D = {}
    <2> SUFFICES ASSUME D # {} PROVE FALSE
      OBVIOUS
    <2>1. PICK p \in D : \A q \in D : p \notin MayNeed(q)
      BY HasUnneeded
    <2>2. \A q \in names \cup others : p \in MayNeed(q) => Agree(q)
      BY <2>1
    <2>3. On(request \cup DepsOf(sel), p) = On(request \cup DepsOf(other), p)
      BY <2>2, SameDemands DEF IsBest
    <2>4. Agree(p)
      BY <2>3, BestIsRight, RightIsOne DEF TypeOK
    <2> QED BY <2>4
  <1>2. names = others /\ \A p \in names : sel[p] = other[p]
    BY <1>1
  <1> QED BY <1>2

\* The lockfile is determined by the registry and the request.
THEOREM Determined == Spec => []LockfileDetermined
  <1>1. ASSUME ResolverInv, pc = "locked", ~MayRing,
               NEW names \in SUBSET Packages, NEW sel \in [names -> Released]
        PROVE  IsBest(sel) <=> sel = selected
    <2>1. IsBest(selected)
      BY <1>1 DEF ResolverInv, IsBest, Consistent, IsSelection
    <2>2. /\ DOMAIN selected \in SUBSET Packages
          /\ selected \in [DOMAIN selected -> Released]
      <3>1. selected = [p \in DOMAIN selected |-> selected[p]]
        BY <1>1 DEF ResolverInv, TypeOK
      <3>2. \A p \in DOMAIN selected : selected[p] \in Released
        BY <1>1 DEF ResolverInv, TypeOK, Released
      <3> QED BY <3>1, <3>2, <1>1 DEF ResolverInv, TypeOK
    <2> QED BY <2>1, <2>2, <1>1, BestSelectionIsOne DEF ResolverInv
  <1>2. ResolverInv => LockfileDetermined
    BY <1>1 DEF LockfileDetermined
  <1> QED BY <1>2, PassesHold, PTL

-----------------------------------------------------------------------------
(* How long a resolution may take.                                         *)

\* A package is settled when what is selected of it suits the constraints of the pass to
\* come.  Those that are not, and all that these may need, are in play.
Unsettled == {p \in Packages : ~IsRight(constraints, selected, p)}
IsClosed(S) == \A q \in S : MayNeed(q) \subseteq S
InPlay == {p \in Packages : \A S \in SUBSET Packages : Unsettled \subseteq S /\ IsClosed(S) => p \in S}

LEMMA InPlayIsLeast ==
    ASSUME TypeOK
    PROVE  /\ InPlay \in SUBSET Packages /\ Unsettled \subseteq InPlay /\ IsClosed(InPlay)
           /\ \A S \in SUBSET Packages : Unsettled \subseteq S /\ IsClosed(S) => InPlay \subseteq S
  <1>1. \A q \in Packages : MayNeed(q) \subseteq Packages
    BY DEF MayNeed, TypeOK, IsCatalogue, Published, Dependency
  <1>2. IsClosed(InPlay)
    BY <1>1 DEF InPlay, IsClosed
  <1> QED BY <1>2 DEF InPlay, Unsettled

\* What a pass leaves unsettled, an unsettled package may need.
LEMMA UnsettledMoveOn ==
    ASSUME ResolverInv, previous # NoSignature,
           NEW sel, DOMAIN sel = Names(constraints), IsSelection(constraints, sel),
           NEW p \in Packages, ~IsRight(request \cup DepsOf(sel), sel, p)
    PROVE  \E q \in Unsettled : p \in MayNeed(q)
  <1> SUFFICES ASSUME \A q \in Unsettled : p \notin MayNeed(q) PROVE FALSE
    OBVIOUS
  <1>1. \A q \in Packages : IsRight(constraints, sel, q)
    BY DEF IsSelection, IsRight
  <1>2. ASSUME NEW q \in Packages, q \notin Unsettled
        PROVE  /\ q \in DOMAIN sel <=> q \in DOMAIN selected
               /\ q \in DOMAIN sel => sel[q] = selected[q]
    BY <1>1, <1>2, RightIsOne DEF Unsettled, ResolverInv, TypeOK
  <1>3. DOMAIN sel \subseteq Packages /\ DOMAIN selected \subseteq Packages
    BY DEF ResolverInv, TypeOK, Names, Dependency
  <1>4. /\ \A q \in DOMAIN sel : sel[q] \in Published(q)
        /\ \A q \in DOMAIN selected : selected[q] \in Published(q)
    BY DEF ResolverInv, IsSelection, Allowed
  <1>5. On(request \cup DepsOf(sel), p) = On(constraints, p)
    <2>1. \A q \in DOMAIN sel \cup DOMAIN selected : p \in MayNeed(q) =>
             q \in DOMAIN sel /\ q \in DOMAIN selected /\ sel[q] = selected[q]
      BY <1>2, <1>3
    <2> QED BY <2>1, <1>4, SameDemands DEF ResolverInv
  <1>6. IsRight(request \cup DepsOf(sel), sel, p)
    BY <1>1, <1>5 DEF IsRight, Allowed, On, Names
  <1> QED BY <1>6

\* When everything is settled, a pass repeats the signature of the one before it.
LEMMA SettledRepeats ==
    ASSUME ResolverInv, previous # NoSignature, Unsettled = {},
           NEW sel \in [Names(constraints) -> Released], IsSelection(constraints, sel)
    PROVE  previous = <<sel, request \cup DepsOf(sel)>>
  <1>1. \A p \in Packages : IsRight(constraints, sel, p) /\ IsRight(constraints, selected, p)
    BY DEF IsSelection, IsRight, Unsettled
  <1>2. \A p \in Packages : /\ p \in DOMAIN sel <=> p \in DOMAIN selected
                            /\ p \in DOMAIN sel => sel[p] = selected[p]
    BY <1>1, RightIsOne DEF ResolverInv, TypeOK
  <1>3. DOMAIN sel \subseteq Packages /\ DOMAIN selected \subseteq Packages
    BY DEF ResolverInv, TypeOK, Names, Dependency
  <1>4. DOMAIN sel = DOMAIN selected /\ \A p \in DOMAIN sel : sel[p] = selected[p]
    BY <1>2, <1>3
  <1>5. selected = [p \in DOMAIN selected |-> selected[p]]
    BY DEF ResolverInv, TypeOK
  <1>6. sel = selected
    BY <1>4, <1>5
  <1> QED BY <1>6 DEF ResolverInv

\* Without rings, every pass but the first either ends the resolution or leaves less in
\* play than there was: the packages settle from the request down.
Continues == pc = "passes" /\ pc' = "passes" /\ previous # NoSignature
PassesSettle ==
    [][~MayRing /\ Continues => InPlay' \subseteq InPlay /\ InPlay' # InPlay]_vars

LEMMA PassSettles ==
    ASSUME ResolverInv, [Next]_vars, ~MayRing, Continues, ~UNCHANGED vars
    PROVE  InPlay' \subseteq InPlay /\ InPlay' # InPlay
  <1>1. PICK sel \in [Names(constraints) -> Released] :
          /\ IsSelection(constraints, sel)
          /\ selected' = sel /\ constraints' = request \cup DepsOf(sel)
          /\ previous # <<sel, request \cup DepsOf(sel)>>
          /\ UNCHANGED <<catalogue, request>>
    <2>1. Pass
      BY DEF Next, Resolve, Continues, Start, Fail, Stop, Failures, Stopped, Ended
    <2> QED BY <2>1 DEF Pass, Continues, Rebuilt, Stop
  <1>2. TypeOK
    BY DEF ResolverInv
  <1>3. Unsettled' = {p \in Packages : ~IsRight(request \cup DepsOf(sel), sel, p)}
    BY <1>1 DEF Unsettled, IsRight, Allowed, On, Names, Published
  <1>4. \A p \in Unsettled' : \E q \in Unsettled : p \in MayNeed(q)
    <2>1. DOMAIN sel = Names(constraints)
      OBVIOUS
    <2> QED BY <2>1, <1>1, <1>3, UnsettledMoveOn DEF Continues
  <1>5. /\ InPlay \in SUBSET Packages /\ Unsettled \subseteq InPlay /\ IsClosed(InPlay)
    BY <1>2, InPlayIsLeast
  <1>6. \A S \in SUBSET Packages : Unsettled' \subseteq S /\ IsClosed(S) => InPlay' \subseteq S
    <2>1. \A q : MayNeed(q)' = MayNeed(q)
      BY <1>1 DEF MayNeed, Published
    <2>2. \A S : IsClosed(S)' <=> IsClosed(S)
      BY <2>1 DEF IsClosed
    <2>3. \A S \in SUBSET Packages : Unsettled' \subseteq S /\ IsClosed(S)' => InPlay' \subseteq S
      BY DEF InPlay
    <2> QED BY <2>2, <2>3
  <1>7. Unsettled' \subseteq InPlay /\ InPlay' \subseteq InPlay
    BY <1>4, <1>5, <1>6 DEF IsClosed
  <1>8. InPlay # {}
    BY <1>1, <1>5, SettledRepeats DEF Continues
  <1>9. PICK p \in InPlay : \A q \in InPlay : p \notin MayNeed(q)
    BY <1>5, <1>8, HasUnneeded
  <1>10. Unsettled' \subseteq InPlay \ {p} /\ IsClosed(InPlay \ {p})
    BY <1>4, <1>5, <1>7, <1>9 DEF IsClosed
  <1>11. InPlay' \subseteq InPlay \ {p}
    BY <1>5, <1>6, <1>10
  <1> QED BY <1>7, <1>9, <1>11

\* The passes settle.
THEOREM Settling == Spec => PassesSettle
  <1>1. ResolverInv /\ [Next]_vars =>
            [~MayRing /\ Continues => InPlay' \subseteq InPlay /\ InPlay' # InPlay]_vars
    BY PassSettles
  <1> QED BY <1>1, PassesHold, PTL DEF Spec, PassesSettle

\* The passes of a resolution, counted.
VARIABLE passes

Counts == passes' = IF Pass THEN passes + 1 ELSE passes
CountedSpec == /\ Init /\ passes = 0
               /\ [][Next /\ Counts]_<<vars, passes>>

\* A resolution without rings takes at most two passes more than there are packages: the
\* loop of `resolve` cannot run for ever.
PassesBounded == ~MayRing => passes <= Cardinality(Packages) + 2

PassesInv ==
    /\ passes \in Nat
    /\ previous = NoSignature /\ pc \in {"start", "passes"} => passes = 0
    /\ ~MayRing =>
         /\ pc = "passes" /\ previous # NoSignature =>
               passes + Cardinality(InPlay) <= Cardinality(Packages) + 1
         /\ PassesBounded

LEMMA FewerInPlay ==
    ASSUME NEW S \in SUBSET Packages, NEW T \in SUBSET S
    PROVE  /\ Cardinality(S) \in Nat /\ Cardinality(T) \in Nat
           /\ Cardinality(T) <= Cardinality(S)
           /\ T # S => Cardinality(T) + 1 <= Cardinality(S)
  <1>1. IsFiniteSet(S) /\ IsFiniteSet(T)
    BY FS_Subset, ResolverAssumption
  <1>2. Cardinality(S) \in Nat /\ Cardinality(T) \in Nat
    BY <1>1, FS_CardinalityType
  <1>3. Cardinality(T) <= Cardinality(S) /\ (Cardinality(S) = Cardinality(T) => S = T)
    BY <1>1, FS_Subset
  <1> QED BY <1>2, <1>3

LEMMA CountedStep ==
    ASSUME ResolverInv, PassesInv, [Next /\ Counts]_<<vars, passes>>
    PROVE  PassesInv'
  <1> DEFINE N == Cardinality(Packages)
  <1>1. N \in Nat /\ Cardinality(InPlay) \in Nat /\ Cardinality(InPlay) <= N
    BY FewerInPlay DEF InPlay
  <1>2. Cardinality(InPlay') \in Nat /\ Cardinality(InPlay') <= N
    <2>1. InPlay' \in SUBSET Packages
      BY DEF InPlay
    <2> QED BY <2>1, FewerInPlay
  <1>3. CASE UNCHANGED <<vars, passes>>
    <2>1. \A p : Published(p)' = Published(p) /\ MayNeed(p)' = MayNeed(p)
      BY <1>3 DEF vars, Published, MayNeed
    <2>2. MayRing' <=> MayRing
      BY <1>3, <2>1 DEF vars, MayRing
    <2>3. Unsettled' = Unsettled
      BY <1>3, <2>1 DEF vars, Unsettled, IsRight, Allowed, On, Names
    <2>4. InPlay' = InPlay
      BY <2>1, <2>3 DEF InPlay, IsClosed
    <2> QED BY <1>3, <2>2, <2>4 DEF vars, PassesInv, PassesBounded
  <1>4. CASE Next /\ Counts /\ ~Pass
    <2>1. passes' = passes /\ UNCHANGED <<catalogue, previous>>
      BY <1>4 DEF Counts, Next, Resolve, Start, Fail, Stop, Stopped, vars
    <2>2. MayRing' <=> MayRing
      BY <2>1 DEF MayRing, Published
    <2>3. pc' = "passes" => pc = "start"
      BY <1>4 DEF Next, Resolve, Start, Fail, Stop, Stopped, vars, Failures, Ended
    <2>4. pc' = "passes" => previous = NoSignature
      BY <2>3 DEF ResolverInv
    <2>5. pc' = "start" => pc = "start"
      BY <1>4 DEF Next, Resolve, Start, Fail, Stop, Stopped, vars, Failures, Ended
    <2> QED BY <2>1, <2>2, <2>3, <2>4, <2>5 DEF PassesInv, PassesBounded
  <1>5. CASE Counts /\ Pass
    <2>1. passes' = passes + 1 /\ catalogue' = catalogue /\ pc = "passes"
          /\ pc' \in {"passes", "locked"} \cup Failures
      BY <1>5 DEF Counts, Pass, Stop, Failures
    <2>2. MayRing' <=> MayRing
      BY <2>1 DEF MayRing, Published
    <2>3. pc' = "passes" => previous' # NoSignature
      BY <1>5 DEF Pass, Stop, Remembered, NoSignature
    <2>4. CASE previous = NoSignature
      <3>1. passes' = 1
        BY <2>1, <2>4 DEF PassesInv
      <3> QED BY <3>1, <2>1, <2>3, <1>1, <1>2 DEF PassesInv, PassesBounded, Failures
    <2>5. CASE previous # NoSignature /\ ~MayRing
      <3>1. passes + Cardinality(InPlay) <= N + 1 /\ passes \in Nat
        BY <2>1, <2>5 DEF PassesInv
      <3>2. ASSUME pc' = "passes" PROVE Cardinality(InPlay') + 1 <= Cardinality(InPlay)
        <4>1. Continues /\ [Next]_vars
          BY <3>2, <2>1, <2>5, <1>5 DEF Continues, Next, Resolve
        <4>2. ~UNCHANGED vars
          <5>1. previous' # previous
            BY <1>5, <3>2 DEF Pass, Stop, Failures, Remembered
          <5> QED BY <5>1 DEF vars
        <4>3. InPlay' \subseteq InPlay /\ InPlay' # InPlay
          BY <4>1, <4>2, <2>5, PassSettles
        <4>4. InPlay \in SUBSET Packages
          BY DEF InPlay
        <4> QED BY <4>3, <4>4, FewerInPlay
      <3> QED BY <3>1, <3>2, <2>1, <2>2, <2>3, <2>5, <1>1, <1>2
              DEF PassesInv, PassesBounded, Failures
    <2>6. CASE previous # NoSignature /\ MayRing
      BY <2>1, <2>2, <2>3, <2>6 DEF PassesInv, PassesBounded, Failures
    <2> QED BY <2>4, <2>5, <2>6
  <1> QED BY <1>3, <1>4, <1>5

\* The number of passes is bounded.
THEOREM Bounded == CountedSpec => []PassesBounded
  <1>1. Init /\ passes = 0 => ResolverInv /\ PassesInv
    <2> SUFFICES ASSUME Init, passes = 0 PROVE ResolverInv /\ PassesInv
      OBVIOUS
    <2>1. Cardinality(Packages) \in Nat
      BY FewerInPlay
    <2> QED BY <2>1, InitInv DEF Init, PassesInv, PassesBounded
  <1>2. ResolverInv /\ PassesInv /\ [Next /\ Counts]_<<vars, passes>> => ResolverInv' /\ PassesInv'
    <2> SUFFICES ASSUME ResolverInv, PassesInv, [Next /\ Counts]_<<vars, passes>>
                 PROVE  ResolverInv' /\ PassesInv'
      OBVIOUS
    <2>1. [Next]_vars
      BY DEF vars
    <2> QED BY <2>1, NextInv, CountedStep
  <1>3. PassesInv => PassesBounded
    BY DEF PassesInv, PassesBounded
  <1> QED BY <1>1, <1>2, <1>3, PTL DEF CountedSpec

-----------------------------------------------------------------------------
(* The search for rings.                                                   *)

\* Within a search, neither the registry nor the selection changes.
LEMMA SameChildren ==
    ASSUME UNCHANGED <<catalogue, choice>>
    PROVE  /\ \A p : ChildrenIn(choice, p)' = ChildrenIn(choice, p)
           /\ \A p : Children(choice, p)' = Children(choice, p)
  BY DEF ChildrenIn, Children

\* Without a search under way, there is nothing to say of it.
LEMMA QuietInv == Quiet => SearchInv
  <1> SUFFICES ASSUME Quiet PROVE SearchInv
    OBVIOUS
  <1>1. stack = <<>> /\ Len(stack) = 0 /\ DOMAIN choice = {} /\ visiting = {} /\ visited = {}
        /\ searching = FALSE /\ DOMAIN pending = {} /\ pending = [p \in {} |-> {}]
    BY DEF Quiet, NoSelection
  <1>2. SearchTypes
    <2>1. stack \in Seq(DOMAIN choice)
      BY <1>1
    <2> QED BY <1>1, <2>1 DEF SearchTypes
  <1>3. StackIsPath /\ NothingSkipped /\ VisitedIsClosed
    BY <1>1 DEF StackIsPath, NothingSkipped, VisitedIsClosed
  <1> QED BY <1>2, <1>3 DEF SearchInv

LEMMA ForgetInv == Forget => SearchInv'
  <1>1. Forget => Quiet'
    BY DEF Forget, Quiet, NoSelection
  <1> QED BY <1>1, QuietInv, PTL

LEMMA SelectInv ==
    ASSUME CheckedInv, Select PROVE SearchInv'
  <1>1. PICK sel \in [Names(constraints) -> Released] :
          /\ IsSelection(constraints, sel)
          /\ choice' = sel
          /\ pending' = [p \in DOMAIN sel |-> Children(sel, p)]
    BY DEF Select
  <1>2. /\ pc = "passes" /\ searching' = TRUE /\ UNCHANGED <<vars, visiting, visited, stack>>
        /\ visiting = {} /\ visited = {} /\ stack = <<>> /\ Len(stack) = 0
    BY DEF Select, CheckedInv, SearchInv, SearchTypes, Quiet
  <1>3. \A p : Children(choice, p)' = Children(sel, p)
    BY <1>1, <1>2 DEF vars, Children, ChildrenIn
  <1>4. SearchTypes'
    BY <1>1, <1>2, <1>3 DEF SearchTypes, vars, Names, Released, IsSelection, Allowed, On, Published
  <1>5. StackIsPath' /\ NothingSkipped' /\ VisitedIsClosed'
    BY <1>1, <1>2, <1>3 DEF StackIsPath, NothingSkipped, VisitedIsClosed
  <1> QED BY <1>4, <1>5 DEF SearchInv

\* While a search goes on, the selection stays that of the pass.
LEMMA SelectionStays ==
    ASSUME SearchTypes, searching, UNCHANGED <<vars, searching, choice>>
    PROVE  (searching /\ pc = "passes" /\ choice \in [Names(constraints) -> Released]
            /\ IsSelection(constraints, choice))'
  BY DEF SearchTypes, vars, Names, Released, IsSelection, Allowed, On, Published

\* Entering a call for a package that is neither on the path nor done with.
LEMMA EnterKeepsPath ==
    ASSUME SearchInv, NEW p \in DOMAIN choice, Enter(p), p \notin visiting,
           stack # <<>> => p \in Children(choice, Top)
    PROVE  /\ StackIsPath' /\ stack' \in Seq(DOMAIN choice)
           /\ Len(stack') = Len(stack) + 1 /\ Len(stack) \in Nat
           /\ stack'[Len(stack) + 1] = p
           /\ \A i \in 1..Len(stack) : stack'[i] = stack[i]
  <1>1. /\ stack' \in Seq(DOMAIN choice) /\ Len(stack') = Len(stack) + 1 /\ Len(stack) \in Nat
        /\ stack'[Len(stack) + 1] = p
        /\ \A i \in 1..Len(stack) : stack'[i] = stack[i]
    BY DEF SearchInv, SearchTypes, Enter
  <1>2. visiting' = {stack'[i] : i \in 1..Len(stack')}
    BY <1>1 DEF SearchInv, StackIsPath, Enter
  <1>3. \A i, k \in 1..Len(stack') : stack'[i] = stack'[k] => i = k
    BY <1>1 DEF SearchInv, StackIsPath
  <1>4. ASSUME NEW i \in 1..(Len(stack') - 1)
        PROVE  stack'[i + 1] \in Children(choice, stack'[i])
    <2>1. CASE i < Len(stack)
      BY <2>1, <1>1 DEF SearchInv, StackIsPath
    <2>2. CASE i = Len(stack)
      BY <2>2, <1>1 DEF Top
    <2> QED BY <2>1, <2>2, <1>1
  <1>5. \A q : Children(choice, q)' = Children(choice, q)
    BY SameChildren DEF Enter, vars
  <1> QED BY <1>1, <1>2, <1>3, <1>4, <1>5 DEF StackIsPath

LEMMA RootInv ==
    ASSUME SearchInv, NEW p \in Packages, Root(p) PROVE SearchInv'
  <1>1. /\ UNCHANGED <<vars, searching, choice, visited, pending>> /\ searching
        /\ stack = <<>> /\ Len(stack) = 0 /\ p \in DOMAIN choice /\ p \notin visited
        /\ Enter(p) /\ visiting' = visiting \cup {p}
    BY DEF Root, Enter, IsFirst
  <1>2. visiting = {}
    BY <1>1 DEF SearchInv, StackIsPath
  <1>3. StackIsPath' /\ stack' \in Seq(DOMAIN choice) /\ Len(stack') = 1 /\ stack'[1] = p
    BY <1>1, <1>2, EnterKeepsPath
  <1>4. /\ \A q : Children(choice, q)' = Children(choice, q)
        /\ \A q : ChildrenIn(choice, q)' = ChildrenIn(choice, q)
    BY <1>1, SameChildren DEF vars
  <1>5. SearchTypes'
    BY <1>1, <1>3, <1>4, SelectionStays DEF SearchInv, SearchTypes
  <1>6. NothingSkipped'
    <2>1. pending[p] = Children(choice, p)
      BY <1>1, <1>2 DEF SearchInv, NothingSkipped
    <2> QED BY <2>1, <1>1, <1>2, <1>3, <1>4 DEF SearchInv, NothingSkipped
  <1>7. VisitedIsClosed'
    BY <1>1, <1>2, <1>4 DEF SearchInv, VisitedIsClosed
  <1> QED BY <1>3, <1>5, <1>6, <1>7 DEF SearchInv

\* A look at a dependency d of the call on top.
LEMMA LookFacts ==
    ASSUME SearchInv, NEW d \in Packages, LookAt(d)
    PROVE  /\ Len(stack) \in Nat /\ Len(stack) > 0 /\ Len(stack) \in 1..Len(stack)
           /\ Top = stack[Len(stack)] /\ Top \in DOMAIN choice /\ Top \in visiting
           /\ \A i \in 1..Len(stack) : stack[i] \in DOMAIN choice /\ stack[i] \in visiting
           /\ \A i \in 1..Len(stack) : stack[i] = Top => i = Len(stack)
           /\ d \in Children(choice, Top) /\ d \in DOMAIN choice /\ d \in pending[Top]
  <1>1. Len(stack) \in Nat /\ Len(stack) > 0 /\ stack \in Seq(DOMAIN choice)
    BY DEF LookAt, SearchInv, SearchTypes
  <1> QED BY <1>1 DEF LookAt, IsFirst, SearchInv, SearchTypes, StackIsPath, Top, Children

LEMMA LookedFacts ==
    ASSUME SearchInv, NEW d \in Packages, LookAt(d), Looked(d)
    PROVE  /\ DOMAIN pending' = DOMAIN choice
           /\ pending' = [p \in DOMAIN choice |-> pending'[p]]
           /\ \A p \in DOMAIN choice :
                pending'[p] = IF p = Top THEN pending[Top] \ {d} ELSE pending[p]
  BY DEF SearchInv, SearchTypes, Looked

LEMMA ReturnInv ==
    ASSUME SearchInv, NEW d \in Packages, Return(d) PROVE SearchInv'
  <1>1. /\ UNCHANGED <<vars, searching, choice, visiting, visited, stack>>
        /\ LookAt(d) /\ Looked(d) /\ d \in visited /\ searching
    BY DEF Return, Done, LookAt
  <1>2. /\ DOMAIN pending' = DOMAIN choice
        /\ pending' = [p \in DOMAIN choice |-> pending'[p]]
        /\ \A p \in DOMAIN choice :
             pending'[p] = IF p = Top THEN pending[Top] \ {d} ELSE pending[p]
    BY <1>1, LookedFacts
  <1>3. /\ Top \in DOMAIN choice /\ Top \in visiting
        /\ \A i \in 1..Len(stack) : stack[i] \in DOMAIN choice /\ stack[i] \in visiting
    BY <1>1, LookFacts
  <1>4. /\ \A q : Children(choice, q)' = Children(choice, q)
        /\ \A q : ChildrenIn(choice, q)' = ChildrenIn(choice, q)
    BY <1>1, SameChildren DEF vars
  <1>5. SearchTypes'
    BY <1>1, <1>2, <1>3, <1>4, SelectionStays DEF SearchInv, SearchTypes
  <1>6. StackIsPath' /\ VisitedIsClosed'
    BY <1>1, <1>4 DEF SearchInv, StackIsPath, VisitedIsClosed
  <1>7. NothingSkipped'
    <2>1. \A p \in DOMAIN choice \ (visiting \cup visited) : pending'[p] = Children(choice, p)
      BY <1>2, <1>3 DEF SearchInv, NothingSkipped
    <2>2. ASSUME NEW i \in 1..Len(stack), NEW e \in Children(choice, stack[i]) \ pending'[stack[i]]
          PROVE  e \in visited \/ (i < Len(stack) /\ e = stack[i + 1])
      <3>1. e = d \/ e \notin pending[stack[i]]
        BY <2>2, <1>2, <1>3
      <3> QED BY <3>1, <1>1 DEF SearchInv, NothingSkipped
    <2> QED BY <2>1, <2>2, <1>1, <1>4 DEF NothingSkipped
  <1> QED BY <1>5, <1>6, <1>7 DEF SearchInv

LEMMA VisitInv ==
    ASSUME SearchInv, NEW d \in Packages, Visit(d) PROVE SearchInv'
  <1> DEFINE n == Len(stack)
  <1>1. /\ UNCHANGED <<vars, searching, choice, visited>> /\ searching
        /\ LookAt(d) /\ Looked(d) /\ d \notin visited /\ d \notin visiting
        /\ Enter(d) /\ visiting' = visiting \cup {d}
    BY DEF Visit, Done, LookAt, Enter
  <1>2. /\ DOMAIN pending' = DOMAIN choice
        /\ pending' = [p \in DOMAIN choice |-> pending'[p]]
        /\ \A p \in DOMAIN choice :
             pending'[p] = IF p = Top THEN pending[Top] \ {d} ELSE pending[p]
    BY <1>1, LookedFacts
  <1>3. /\ n \in Nat /\ n > 0 /\ n \in 1..n /\ Top = stack[n]
        /\ Top \in DOMAIN choice /\ Top \in visiting
        /\ \A i \in 1..n : stack[i] \in DOMAIN choice /\ stack[i] \in visiting
        /\ \A i \in 1..n : stack[i] = Top => i = n
        /\ d \in Children(choice, Top) /\ d \in DOMAIN choice
    BY <1>1, LookFacts
  <1>4. /\ \A q : Children(choice, q)' = Children(choice, q)
        /\ \A q : ChildrenIn(choice, q)' = ChildrenIn(choice, q)
    BY <1>1, SameChildren DEF vars
  <1>5. /\ StackIsPath' /\ stack' \in Seq(DOMAIN choice) /\ Len(stack') = n + 1
        /\ stack'[n + 1] = d /\ \A i \in 1..n : stack'[i] = stack[i]
    BY <1>1, <1>3, EnterKeepsPath
  <1>6. SearchTypes'
    BY <1>1, <1>2, <1>3, <1>4, <1>5, SelectionStays DEF SearchInv, SearchTypes
  <1>7. VisitedIsClosed'
    BY <1>1, <1>4 DEF SearchInv, VisitedIsClosed
  <1>8. pending'[d] = Children(choice, d)
    BY <1>1, <1>2, <1>3 DEF SearchInv, NothingSkipped
  <1>9. \A p \in DOMAIN choice \ (visiting' \cup visited) : pending'[p] = Children(choice, p)
    BY <1>1, <1>2, <1>3 DEF SearchInv, NothingSkipped
  <1>10. ASSUME NEW i \in 1..(n + 1),
                NEW e \in Children(choice, stack'[i]) \ pending'[stack'[i]]
         PROVE  e \in visited \/ (i < n + 1 /\ e = stack'[i + 1])
    <2>1. CASE i = n + 1
      BY <2>1, <1>10, <1>5, <1>8
    <2>2. CASE i = n
      <3>1. e = d \/ e \in Children(choice, stack[n]) \ pending[stack[n]]
        BY <2>2, <1>10, <1>2, <1>3, <1>5
      <3> QED BY <3>1, <2>2, <1>3, <1>5 DEF SearchInv, NothingSkipped
    <2>3. CASE i \in 1..n /\ i # n
      <3>1. e \in Children(choice, stack[i]) \ pending[stack[i]] /\ i < n /\ i + 1 \in 1..n
        BY <2>3, <1>10, <1>2, <1>3, <1>5
      <3>2. e \in visited \/ (i < n /\ e = stack[i + 1])
        BY <3>1, <2>3 DEF SearchInv, NothingSkipped
      <3> QED BY <3>1, <3>2, <1>5
    <2> QED BY <2>1, <2>2, <2>3, <1>3
  <1>11. NothingSkipped'
    BY <1>1, <1>4, <1>5, <1>9, <1>10 DEF NothingSkipped
  <1> QED BY <1>5, <1>6, <1>7, <1>11 DEF SearchInv

\* The package that is left has visited dependencies only: a set with it in which each
\* depends on another would be one without it.
LEMMA LeaveInv ==
    ASSUME SearchInv, Leave PROVE SearchInv'
  <1> DEFINE n == Len(stack)
  <1>1. /\ UNCHANGED <<vars, searching, choice, pending>> /\ searching
        /\ stack # <<>> /\ pending[Top] = {}
        /\ visiting' = visiting \ {Top} /\ visited' = visited \cup {Top}
        /\ stack' = SubSeq(stack, 1, n - 1)
    BY DEF Leave, AllVisited
  <1>2. /\ n \in Nat /\ n > 0 /\ n \in 1..n /\ Top = stack[n]
        /\ Top \in visiting /\ Top \in DOMAIN choice /\ stack \in Seq(DOMAIN choice)
    BY <1>1 DEF SearchInv, SearchTypes, Top, StackIsPath
  <1>3. /\ stack' \in Seq(DOMAIN choice) /\ Len(stack') = n - 1
        /\ \A i \in 1..(n - 1) : stack'[i] = stack[i]
    <2>1. \A i \in 1..(n - 1) : stack[i] \in DOMAIN choice
      BY <1>2
    <2>2. /\ SubSeq(stack, 1, n - 1) \in Seq(DOMAIN choice)
          /\ Len(SubSeq(stack, 1, n - 1)) = IF 1 <= n - 1 THEN (n - 1) - 1 + 1 ELSE 0
          /\ \A i \in 1..(n - 1) - 1 + 1 : SubSeq(stack, 1, n - 1)[i] = stack[1 + i - 1]
      BY <1>2, <2>1, SubSeqProperties
    <2>3. stack' = SubSeq(stack, 1, n - 1) /\ n \in Nat /\ n > 0
      BY <1>1, <1>2
    <2> HIDE DEF n
    <2>4. (n - 1) - 1 + 1 = n - 1 /\ \A i \in 1..(n - 1) : 1 + i - 1 = i
      BY <2>3
    <2>5. Len(stack') = n - 1
      BY <2>2, <2>3
    <2> QED BY <2>2, <2>3, <2>4, <2>5
  <1>4. /\ \A q : Children(choice, q)' = Children(choice, q)
        /\ \A q : ChildrenIn(choice, q)' = ChildrenIn(choice, q)
    BY <1>1, SameChildren DEF vars
  <1>5. SearchTypes'
    BY <1>1, <1>2, <1>3, <1>4, SelectionStays DEF SearchInv, SearchTypes
  <1>6. StackIsPath'
    <2>1. visiting' = {stack'[i] : i \in 1..Len(stack')}
      BY <1>1, <1>2, <1>3 DEF SearchInv, StackIsPath
    <2>2. \A i, j \in 1..Len(stack') : stack'[i] = stack'[j] => i = j
      BY <1>2, <1>3 DEF SearchInv, StackIsPath
    <2>3. \A i \in 1..(Len(stack') - 1) : stack'[i + 1] \in Children(choice, stack'[i])
      BY <1>2, <1>3 DEF SearchInv, StackIsPath
    <2> QED BY <2>1, <2>2, <2>3, <1>4 DEF StackIsPath
  <1>7. NothingSkipped'
    <2>1. ASSUME NEW i \in 1..(n - 1), NEW e \in Children(choice, stack[i]) \ pending[stack[i]]
          PROVE  e \in visited' \/ (i < n - 1 /\ e = stack'[i + 1])
      <3>1. e \in visited \/ (i < n /\ e = stack[i + 1])
        BY <2>1, <1>2 DEF SearchInv, NothingSkipped
      <3>2. CASE i = n - 1
        BY <3>1, <3>2, <1>1, <1>2
      <3>3. CASE i < n - 1
        BY <3>1, <3>3, <1>1, <1>2, <1>3
      <3> QED BY <3>2, <3>3, <1>2
    <2>2. \A p \in DOMAIN choice \ (visiting' \cup visited') : pending[p] = Children(choice, p)
      BY <1>1 DEF SearchInv, NothingSkipped
    <2> QED BY <2>1, <2>2, <1>1, <1>2, <1>3, <1>4 DEF NothingSkipped
  <1>8. Children(choice, Top) \subseteq visited
    BY <1>1, <1>2 DEF SearchInv, NothingSkipped
  <1>9. VisitedIsClosed'
    <2>1. Top \notin visited /\ visiting' \cap visited' = {}
      BY <1>1, <1>2 DEF SearchInv, VisitedIsClosed
    <2>2. \A p \in visited' : Children(choice, p) \subseteq visited'
      BY <1>1, <1>8 DEF SearchInv, VisitedIsClosed
    <2>3. ASSUME NEW S \in SUBSET visited', S # {}
          PROVE  \E p \in S : ChildrenIn(choice, p) \cap S = {}
      <3>1. S \subseteq DOMAIN choice
        BY <1>1, <1>2 DEF SearchInv, SearchTypes
      <3>2. CASE S = {Top}
        BY <3>1, <3>2, <1>8, <2>1 DEF Children
      <3>3. CASE S # {Top}
        <4>1. S \ {Top} # {} /\ S \ {Top} \in SUBSET visited
          BY <2>3, <3>3, <1>1
        <4>2. PICK p \in S \ {Top} : ChildrenIn(choice, p) \cap (S \ {Top}) = {}
          BY <4>1 DEF SearchInv, VisitedIsClosed
        <4>3. Children(choice, p) \subseteq visited
          BY <4>1, <4>2 DEF SearchInv, VisitedIsClosed
        <4>4. Top \notin ChildrenIn(choice, p)
          BY <4>3, <2>1, <1>2 DEF Children
        <4> QED BY <4>2, <4>4
      <3> QED BY <3>2, <3>3
    <2> QED BY <2>1, <2>2, <2>3, <1>1, <1>4 DEF VisitedIsClosed
  <1> QED BY <1>3, <1>5, <1>6, <1>7, <1>9 DEF SearchInv

\* A search that raises has met a ring: the part of the stack from the package it meets.
LEMMA RaiseIsRing ==
    ASSUME SearchInv, NEW d \in Packages, Raise(d) PROVE Cyclic(choice)
  <1> DEFINE n == Len(stack)
  <1>1. LookAt(d) /\ d \in visiting
    BY DEF Raise
  <1>2. /\ n \in Nat /\ n > 0 /\ Top = stack[n] /\ d \in Children(choice, Top)
        /\ \A i \in 1..n : stack[i] \in DOMAIN choice
    BY <1>1, LookFacts
  <1>3. PICK m \in 1..n : stack[m] = d
    BY <1>1 DEF SearchInv, StackIsPath
  <1> DEFINE S == {stack[i] : i \in m..n}
  <1>4. S \in SUBSET DOMAIN choice /\ S # {} /\ d \in S
    BY <1>2, <1>3
  <1>5. ASSUME NEW p \in S PROVE ChildrenIn(choice, p) \cap S # {}
    <2>1. PICK i \in m..n : p = stack[i]
      OBVIOUS
    <2>2. CASE i = n
      BY <2>1, <2>2, <1>2, <1>4 DEF Children
    <2>3. CASE i # n
      <3>1. i \in 1..(n - 1) /\ i + 1 \in m..n
        BY <2>3, <1>2, <1>3
      <3>2. stack[i + 1] \in Children(choice, p) /\ stack[i + 1] \in S
        BY <3>1, <2>1 DEF SearchInv, StackIsPath
      <3> QED BY <3>2 DEF Children
    <2> QED BY <2>2, <2>3
  <1> QED BY <1>4, <1>5 DEF Cyclic

\* A search that returns has visited everything, and found no ring.
LEMMA ConcludeIsClear ==
    ASSUME SearchInv, Conclude PROVE ~Cyclic(choice)
  BY DEF SearchInv, VisitedIsClosed, Conclude, Cyclic

\* So both ends of a search are a pass of Resolver.
LEMMA RaiseIsPass ==
    ASSUME SearchInv, NEW d \in Packages, Raise(d) PROVE Pass /\ Forget
  <1>1. Stop("cycle") /\ Forget /\ searching
    BY DEF Raise, LookAt
  <1>2. pc = "passes" /\ choice \in [Names(constraints) -> Released] /\ IsSelection(constraints, choice)
    BY <1>1 DEF SearchInv, SearchTypes
  <1> QED BY <1>1, <1>2, RaiseIsRing DEF Pass

LEMMA ConcludeIsPass ==
    ASSUME SearchInv, Conclude PROVE Pass /\ Forget
  <1>1. searching /\ Forget
    BY DEF Conclude
  <1>2. pc = "passes" /\ choice \in [Names(constraints) -> Released] /\ IsSelection(constraints, choice)
    BY <1>1 DEF SearchInv, SearchTypes
  <1> QED BY <1>1, <1>2, ConcludeIsClear DEF Pass, Conclude

LEMMA CheckedInitInv == CheckedInit => CheckedInv
  BY InitInv, QuietInv DEF CheckedInit, CheckedInv

\* Steps outside the search leave it as it is.
LEMMA SearchStays ==
    ASSUME SearchInv, UNCHANGED search, searching => UNCHANGED vars
    PROVE  SearchInv'
  <1>1. CASE ~searching
    <2>1. Quiet
      BY <1>1 DEF SearchInv, SearchTypes
    <2>2. Forget
      BY <2>1 DEF Quiet, Forget, search
    <2> QED BY <2>2, ForgetInv
  <1>2. CASE searching
    <2>1. /\ UNCHANGED <<vars, searching, choice, visiting, visited, stack, pending>> /\ searching
      BY <1>2 DEF search
    <2>2. /\ \A q : Children(choice, q)' = Children(choice, q)
          /\ \A q : ChildrenIn(choice, q)' = ChildrenIn(choice, q)
      BY <2>1, SameChildren DEF vars
    <2>3. SearchTypes'
      BY <2>1, <2>2, SelectionStays DEF SearchInv, SearchTypes
    <2> QED BY <2>1, <2>2, <2>3
            DEF SearchInv, StackIsPath, NothingSkipped, VisitedIsClosed
  <1> QED BY <1>1, <1>2 DEF SearchInv, SearchTypes

\* A step is a step of Resolver, or the search goes on and Resolver stands still.
LEMMA CheckedStep ==
    ASSUME CheckedInv, [CheckedNext]_checkedVars PROVE SearchInv' /\ [Next]_vars
  <1> USE DEF CheckedInv
  <1>1. CASE Start /\ UNCHANGED search
    <2>1. ~searching
      BY <1>1 DEF Start, SearchInv, SearchTypes
    <2> QED BY <1>1, <2>1, SearchStays DEF Next, Resolve
  <1>2. CASE Fail /\ ~searching /\ UNCHANGED search
    BY <1>2, SearchStays DEF Next, Resolve
  <1>3. CASE Select
    BY <1>3, SelectInv DEF Select
  <1>4. ASSUME NEW p \in Packages, Root(p) PROVE SearchInv' /\ [Next]_vars
    BY <1>4, RootInv DEF Root, Enter
  <1>5. ASSUME NEW p \in Packages, Return(p) PROVE SearchInv' /\ [Next]_vars
    BY <1>5, ReturnInv DEF Return
  <1>6. ASSUME NEW p \in Packages, Raise(p) PROVE SearchInv' /\ [Next]_vars
    BY <1>6, RaiseIsPass, ForgetInv DEF Next, Resolve
  <1>7. ASSUME NEW p \in Packages, Visit(p) PROVE SearchInv' /\ [Next]_vars
    BY <1>7, VisitInv DEF Visit, Enter
  <1>8. CASE Leave
    BY <1>8, LeaveInv DEF Leave
  <1>9. CASE Conclude
    BY <1>9, ConcludeIsPass, ForgetInv DEF Next, Resolve
  <1>10. CASE UNCHANGED <<vars, search>>
    BY <1>10, SearchStays
  <1> QED BY <1>1, <1>2, <1>3, <1>4, <1>5, <1>6, <1>7, <1>8, <1>9, <1>10
          DEF CheckedNext, CheckedResolve, Search, Stopped, checkedVars

\* Passes and search hold together throughout.
THEOREM SearchMarksHold == CheckedSpec => []CheckedInv
  <1>1. CheckedInv /\ [CheckedNext]_checkedVars => CheckedInv'
    BY CheckedStep, NextInv DEF CheckedInv
  <1> QED BY <1>1, CheckedInitInv, PTL DEF CheckedSpec

\* The search decides as Cyclic does: it misses no ring and invents none.
THEOREM SearchIsDecision == CheckedSpec => ImplementsResolver
  <1>1. CheckedInit => Init
    BY DEF CheckedInit
  <1>2. CheckedInv /\ [CheckedNext]_checkedVars => [Next]_vars
    BY CheckedStep
  <1> QED BY <1>1, <1>2, SearchMarksHold, PTL DEF CheckedSpec, ImplementsResolver, Spec

\* So no lockfile that the search has passed has a ring of dependencies.
THEOREM Acyclicity == CheckedSpec => []LockfileAcyclic
  <1>1. ASSUME ResolverInv, pc = "locked", NEW S \in (SUBSET DOMAIN selected) \ {{}}
        PROVE  \E p \in S : \A c \in catalogue[p][selected[p]] : c.on \notin S
    <2>1. PICK p \in S : ChildrenIn(selected, p) \cap S = {}
      BY <1>1 DEF ResolverInv, Cyclic
    <2> QED BY <2>1 DEF ChildrenIn
  <1>2. ResolverInv => LockfileAcyclic
    BY <1>1 DEF LockfileAcyclic
  <1> QED BY <1>2, PassesHold, SearchIsDecision, PTL DEF ImplementsResolver

=============================================================================
