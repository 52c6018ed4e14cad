------------------------------ MODULE Resolver ------------------------------
(***************************************************************************)
(* registry/resolver.py: DependencyResolver.resolve, pass by pass.         *)
(*                                                                         *)
(* The registry answers a resolve request within one turn of its event     *)
(* loop, so the catalogue does not change under it.  Packages are numbered *)
(* in name order.  The paths that constraints carry for error messages are *)
(* left out: they follow from the selections, and the passes in which      *)
(* nothing but a path changes select what was selected.                    *)
(***************************************************************************)
EXTENDS Semver, FiniteSets

CONSTANTS Packages,    \* package names, numbered in sort order
          Catalogues,  \* package -> published version -> its deps
          Requests     \* the deps of the pipelines considered

\* A dependency: a package and the constraint on its version, which may not parse.
Dependency == [on : Packages, constraint : Constraint]

\* What the registry holds of a package: its published versions and their deps.
IsCatalogue(c) ==
    \A p \in Packages :
        /\ DOMAIN c[p] \subseteq Version
        /\ \A v \in DOMAIN c[p] : c[p][v] \subseteq Dependency

ASSUME ResolverAssumption ==
    /\ Packages \subseteq Nat /\ IsFiniteSet(Packages)
    /\ \A r \in Requests : r \subseteq Dependency
    /\ \A c \in Catalogues : IsCatalogue(c)

VARIABLES
    catalogue,    \* artifact metadata: the records and their deps
    request,      \* root_deps
    constraints,  \* the constraints of the pass to come
    selected,     \* resolved: package -> version
    previous,     \* previous_signature, the selection and the constraints it led to
    pc            \* "start", "passes" or how the resolution ended

vars == <<catalogue, request, constraints, selected, previous, pc>>

Failures == {"invalid", "missing", "conflict", "cycle"}
Ended == {"locked"} \cup Failures

NoSelection == [p \in {} |-> 0]
NoSignature == <<>>

Init == /\ catalogue \in Catalogues /\ request \in Requests
        /\ constraints = {} /\ selected = NoSelection /\ previous = NoSignature
        /\ pc = "start"

-----------------------------------------------------------------------------
Published(p) == DOMAIN catalogue[p]
Released == UNION {Published(p) : p \in Packages}
Names(C) == {c.on : c \in C}
On(C, p) == {c \in C : c.on = p}

\* select_version: the published versions that meet all constraints on p.
Allowed(C, p) == {v \in Published(p) : \A c \in On(C, p) : Satisfies(v, c.constraint)}

\* The highest of them, for every constrained package.
Accepted(C, sel) == \A p \in Names(C) : sel[p] \in Allowed(C, p)        \* mutant: any of them
IsSelection(C, sel) ==
    \A p \in Names(C) :
        sel[p] \in Allowed(C, p) /\ \A v \in Allowed(C, p) : ~Less(sel[p], v)

DepsOf(sel) == UNION {catalogue[p][sel[p]] : p \in DOMAIN sel}

\* What detect_cycles looks for, a knotted set of packages among the selected; how
\* it looks for one is in CheckedResolver.
ChildrenIn(sel, p) == {c.on : c \in catalogue[p][sel[p]]}
Cyclic(sel) ==
    \E S \in SUBSET DOMAIN sel : S # {} /\ \A p \in S : ChildrenIn(sel, p) \cap S # {}

WellFormed(C) == \A c \in C : Parses(c.constraint)

Stop(how) == /\ pc' = how
             /\ UNCHANGED <<catalogue, request, constraints, selected, previous>>

\* _root_constraints parses the request.
Start ==
    /\ pc = "start"
    /\ IF WellFormed(request)
         THEN /\ constraints' = request /\ pc' = "passes"
              /\ UNCHANGED <<catalogue, request, selected, previous>>
         ELSE Stop("invalid")

\* The first package, in name order, without an allowed version stops the pass.
Fail ==
    /\ pc = "passes"
    /\ \E p \in Names(constraints) :
         /\ Allowed(constraints, p) = {}
         /\ \A q \in Names(constraints) : q < p => Allowed(constraints, q) # {}
         /\ Stop(IF Published(p) = {} THEN "missing" ELSE "conflict")

\* A pass that selects a version of every constrained package.  The next
\* constraints are the request's and those of the selected versions; the loop
\* ends when a pass repeats the signature of the one before it.
Accumulated(sel) == constraints \cup request \cup DepsOf(sel)            \* mutant: stale ones stay
Rebuilt(sel) == request \cup DepsOf(sel)
Forgotten(sel, next) == previous                                        \* mutant: no assignment
Remembered(sel, next) == <<sel, next>>

Pass ==
    /\ pc = "passes"
    /\ \E sel \in [Names(constraints) -> Released] :
         /\ IsSelection(constraints, sel)
         /\ LET next == Rebuilt(sel) IN
            IF Cyclic(sel) THEN Stop("cycle")
            ELSE IF ~WellFormed(next) THEN Stop("invalid")
            ELSE /\ selected' = sel /\ constraints' = next /\ previous' = Remembered(sel, next)
                 /\ pc' = IF previous = <<sel, next>> THEN "locked" ELSE "passes"
                 /\ UNCHANGED <<catalogue, request>>

Resolve == Start \/ Fail \/ Pass

Stopped == pc \in Ended /\ UNCHANGED vars

Next == Resolve \/ Stopped

Spec == Init /\ [][Next]_vars
FairSpec == Spec /\ WF_vars(Resolve)   \* the `while True` loop is never interrupted

-----------------------------------------------------------------------------
TypeOK ==
    /\ IsCatalogue(catalogue) /\ request \subseteq Dependency
    /\ constraints \subseteq Dependency
    /\ DOMAIN selected \subseteq Packages /\ selected \in [DOMAIN selected -> Version]
    /\ pc \in {"start", "passes"} \cup Ended

\* The passes hold together: but for the first one, the constraints of the pass to
\* come are those of the request and of the selection recorded with them, which is
\* of published versions and has no cycle.
ResolverInv ==
    /\ TypeOK
    /\ pc \in {"passes", "locked"} => WellFormed(constraints)
    /\ pc = "start" => previous = NoSignature
    /\ previous = NoSignature => selected = NoSelection
    /\ previous # NoSignature =>
         /\ previous = <<selected, constraints>>
         /\ constraints = request \cup DepsOf(selected)
         /\ \A p \in DOMAIN selected : selected[p] \in Published(p)
         /\ ~Cyclic(selected)
    /\ pc = "locked" =>
         /\ previous # NoSignature
         /\ DOMAIN selected = Names(constraints)
         /\ IsSelection(constraints, selected)

\* A selection is consistent when it is closed under the dependencies of the
\* selected versions and meets them and the request.
Consistent(sel) ==
    LET C == request \cup DepsOf(sel)
    IN  /\ DOMAIN sel = Names(C)
        /\ \A p \in DOMAIN sel : sel[p] \in Allowed(C, p)

\* The lockfile is consistent: it holds a published version of every package that
\* the request or a locked version asks for and of no other, and each meets every
\* constraint the request and the locked versions put on it, though the passes
\* selected against the constraints of the selection before.
LockfileConsistent == pc = "locked" => Consistent(selected)

\* No higher published version of a locked package meets those constraints (README:
\* "selects the highest published version satisfying all active constraints").
LockfileHighest ==
    pc = "locked" =>
        \A p \in DOMAIN selected :
            \A v \in Allowed(request \cup DepsOf(selected), p) : ~Less(selected[p], v)

\* What is locked for a caret or tilde range lies in that range, also where numbers
\* have two digits or the next major or minor number is published.
LockfileInRange ==
    pc = "locked" =>
        \A c \in request \cup DepsOf(selected) :
            IsRange(c.constraint) => InRange(selected[c.on], c.constraint[1])

\* A lockfile never holds packages that depend on one another in a ring, however
\* long (docs: "cyclic dependency graphs do not produce lockfiles").  Here it is the
\* guard of Pass; that the search of CheckedResolver keeps it is what is to be shown.
LockfileAcyclic ==
    pc = "locked" =>
        \A S \in (SUBSET DOMAIN selected) \ {{}} :
            \E p \in S : \A c \in catalogue[p][selected[p]] : c.on \notin S

\* The resolution ends when no package can come to depend on itself, whatever versions
\* are selected: the selections of the passes settle from the request down.
MayRing == \E S \in (SUBSET Packages) \ {{}} :
              \A p \in S : \E v \in Published(p) : \E d \in catalogue[p][v] : d.on \in S
ResolutionEndsWithoutRings == ~MayRing => <>(pc \in Ended)

\* Without such packages the registry and the request alone determine the lockfile
\* (resolver.py: "into a deterministic lockfile"): of all closed selections of published
\* versions it is the only one that takes the highest ones allowed, so that neither the
\* order of the passes nor the versions they tried on the way show in it.
IsBest(sel) ==
    /\ \A p \in DOMAIN sel : sel[p] \in Published(p)
    /\ Consistent(sel)
    /\ \A p \in DOMAIN sel : \A v \in Allowed(request \cup DepsOf(sel), p) : ~Less(sel[p], v)
LockfileDetermined ==
    pc = "locked" /\ ~MayRing =>
        \A names \in SUBSET Packages : \A sel \in [names -> Released] :
            IsBest(sel) <=> sel = selected

\* The resolution of any request ends (docs: "Repeat until the selected graph and
\* constraints stop changing").
ResolutionEnds == <>(pc \in Ended)

\* A conflict is reported only over active constraints: those of the request and of
\* the versions that this very pass selects again (README: "selects the highest
\* published version satisfying all active constraints").
Reselected == {p \in DOMAIN selected :
                 /\ selected[p] \in Allowed(constraints, p)
                 /\ \A v \in Allowed(constraints, p) : ~Less(selected[p], v)}
Active == request \cup UNION {catalogue[p][selected[p]] : p \in Reselected}
ConflictIsActive ==
    pc = "conflict" => \E p \in Names(constraints) : Allowed(Active, p) = {}
=============================================================================
