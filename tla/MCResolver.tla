----------------------------- MODULE MCResolver -----------------------------
(* Instances of Resolver for TLC. *)
EXTENDS Resolver, TLC

\* Two versions that compare number by number only, and three constraints, which
\* accept both, the lower one and the higher one.
Low == <<9, 10, 0>>
High == <<10, 9, 0>>
One(mark, v) == <<[mark |-> mark, version |-> v]>>
Both == One(">=", Low)
OnlyLow == One("^", Low)
OnlyHigh == One("~", High)
SomeConstraints == {Both, OnlyLow, OnlyHigh}
TwoRanges == OnlyLow \o OnlyHigh            \* does not parse

Dep(p, raw) == [on |-> p, constraint |-> raw]

\* Registries in which a published version has at most one dependency, on another
\* package; the higher version is published only after the lower one,
\* and package 3 has one version, which may depend on itself.
Histories == {{}, {Low}, {Low, High}}
OneDep(p) == {{}} \cup {{Dep(q, raw)} : q \in Packages \ {p}, raw \in SomeConstraints}
PackagesOf(p) == UNION {[vs -> OneDep(p)] : vs \in Histories}
OneDepCatalogues ==
    PackagesOf(1) \X PackagesOf(2) \X
        [{Low} -> OneDep(3) \cup {{Dep(1, TwoRanges)}, {Dep(3, Both)}}]

\* Registries whose packages depend only on packages later in name order, on any
\* number of them: no package ever depends on itself, however indirectly.
LaterDeps(p) ==
    {UNION {{Dep(q, raw) : raw \in g[q]} : q \in DOMAIN g} :
        g \in [{q \in Packages : q > p} -> {{}} \cup {{raw} : raw \in SomeConstraints}]}
LayersOf(p) == UNION {[vs -> LaterDeps(p)] : vs \in Histories}
LayeredCatalogues == LayersOf(1) \X LayersOf(2) \X LayersOf(3)

SomeCatalogues == OneDepCatalogues \cup LayeredCatalogues

PinFirst == {Dep(1, OnlyHigh), Dep(2, Both), Dep(3, Both)}
FirstTwo == {Dep(1, Both), Dep(2, Both)}
SomeRequests == {PinFirst, FirstTwo, {Dep(2, TwoRanges)}}
OnlyPinFirst == {PinFirst}
OnlyFirstTwo == {FirstTwo}
=============================================================================
