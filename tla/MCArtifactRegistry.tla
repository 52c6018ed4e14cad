------------------------- MODULE MCArtifactRegistry -------------------------
(* Instances of ArtifactRegistry for TLC. *)
EXTENDS ArtifactRegistry, TLC
CONSTANTS first, second, third, lib, app, one, two

Three(f, g, h) == (first :> f) @@ (second :> g) @@ (third :> h)
Sound(c, bytes) == [at |-> c, file |-> bytes, checksum |-> Sha256(bytes), valid |-> TRUE]
Mistaken == [at |-> lib, file |-> one, checksum |-> Unparsable, valid |-> TRUE]

\* Two uploads, valid or not, beside one that is refused.  Coordinates and contents are
\* interchangeable: the first upload brings `one` to `lib`.
Pairs == {Three(f, g, Mistaken) : f \in {f \in Form : f.at = lib /\ f.file = one}, g \in Form}

\* Two uploads race to a coordinate and one publishes the bytes of either elsewhere.
Races == {Three(Sound(lib, a), Sound(lib, b), f) :
             a \in Contents, b \in Contents, f \in {f \in Form : f.at = app}}

PairsAndRaces == Pairs \cup Races
=============================================================================
