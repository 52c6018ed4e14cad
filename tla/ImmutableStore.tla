--------------------------- MODULE ImmutableStore ---------------------------
(***************************************************************************)
(* What the artifact registry promises (README, "Artifact Registry"): the  *)
(* first upload to a coordinate wins and what it published stays, a later  *)
(* one is told of the conflict, and an answer says what happened.          *)
(***************************************************************************)
CONSTANTS Uploads,       \* upload requests
          Coordinates    \* (name, version)

VARIABLES
    target,       \* upload -> the coordinate it is for
    published,    \* coordinate -> the upload published there, as a set of at most one
    fate          \* upload -> what became of it

vars == <<target, published, fate>>

Init == /\ target \in [Uploads -> Coordinates]
        /\ published = [c \in Coordinates |-> {}]
        /\ fate = [u \in Uploads |-> "asked"]

Ends(u, from, to) ==
    /\ fate[u] \in from /\ fate' = [fate EXCEPT ![u] = to]
    /\ UNCHANGED <<target, published>>

Publish(u) ==
    /\ fate[u] = "asked" /\ published[target[u]] = {}
    /\ published' = [published EXCEPT ![target[u]] = {u}]
    /\ fate' = [fate EXCEPT ![u] = "published"]
    /\ UNCHANGED target

Created(u) == Ends(u, {"published"}, "created")
Conflict(u) == published[target[u]] # {} /\ Ends(u, {"asked"}, "conflict")
Refused(u) == Ends(u, {"asked"}, "refused")
Lost(u) == Ends(u, {"asked", "published"}, "lost")   \* no answer: it may have been published

Next == \E u \in Uploads : Publish(u) \/ Created(u) \/ Conflict(u) \/ Refused(u) \/ Lost(u)

Spec == Init /\ [][Next]_vars
=============================================================================
