--------------------------- MODULE CheckedResolver ---------------------------
(***************************************************************************)
(* registry/resolver.py: resolve with detect_cycles step by step, one look *)
(* at a dependency at a time.  The recursion of `visit` is the stack with  *)
(* what each call has left to visit; what the search leaves behind is gone *)
(* when it returns or raises.                                              *)
(***************************************************************************)
EXTENDS Resolver, Sequences

VARIABLES
    searching,  \* detect_cycles has been called and has not returned
    choice,     \* next_resolved, the selection of the pass
    visiting,   \* the packages on the stack
    visited,    \* those whose dependencies have all been visited
    stack,      \* the path of the search
    pending     \* package -> its dependencies that its call has not visited

search == <<searching, choice, visiting, visited, stack, pending>>
checkedVars == <<vars, search>>

Quiet == /\ searching = FALSE /\ choice = NoSelection
         /\ visiting = {} /\ visited = {} /\ stack = <<>>
         /\ pending = [p \in {} |-> {}]

CheckedInit == Init /\ Quiet

Forget == /\ searching' = FALSE /\ choice' = NoSelection
          /\ visiting' = {} /\ visited' = {} /\ stack' = <<>>
          /\ pending' = [p \in {} |-> {}]

-----------------------------------------------------------------------------
Top == stack[Len(stack)]
IsFirst(p, S) == p \in S /\ \A q \in S : p <= q   \* iteration in name order

\* `if child in graph`
Children(sel, p) == ChildrenIn(sel, p) \cap DOMAIN sel

\* The first half of a pass; Fail is the case where it raises.
Select ==
    /\ pc = "passes" /\ ~searching
    /\ \E sel \in [Names(constraints) -> Released] :
         /\ IsSelection(constraints, sel)
         /\ choice' = sel
         /\ pending' = [p \in DOMAIN sel |-> Children(sel, p)]
    /\ searching' = TRUE
    /\ UNCHANGED <<vars, visiting, visited, stack>>

\* visit(p): neither done with nor on the path.
Enter(p) ==
    /\ visiting' = visiting \cup {p}
    /\ stack' = Append(stack, p)
    /\ UNCHANGED <<vars, searching, choice, visited>>

\* The outer loop; for what has been visited, visit returns at once.
Root(p) ==
    /\ searching /\ stack = <<>>
    /\ IsFirst(p, DOMAIN choice \ visited)
    /\ Enter(p) /\ UNCHANGED pending

MetBefore(d) == d \in visited \cup visiting                     \* mutant
Done(d) == d \in visited

\* A call visits its next dependency: done with, on the path, or to be entered.
LookAt(d) == /\ searching /\ stack # <<>>
             /\ IsFirst(d, pending[Top])
Looked(d) == pending' = [pending EXCEPT ![Top] = @ \ {d}]

Return(d) ==
    /\ LookAt(d) /\ Done(d) /\ Looked(d)
    /\ UNCHANGED <<vars, searching, choice, visiting, visited, stack>>

Raise(d) ==
    /\ LookAt(d) /\ ~Done(d) /\ d \in visiting
    /\ Stop("cycle") /\ Forget

Visit(d) ==
    /\ LookAt(d) /\ ~Done(d) /\ d \notin visiting
    /\ Looked(d) /\ Enter(d)

\* stack.pop, visiting.remove, visited.add.
FirstVisited(p) == \/ pending[p] # Children(choice, p)          \* mutant
                   \/ Children(choice, p) = {}
AllVisited(p) == pending[p] = {}

Leave ==
    /\ searching /\ stack # <<>> /\ AllVisited(Top)
    /\ visiting' = visiting \ {Top} /\ visited' = visited \cup {Top}
    /\ stack' = SubSeq(stack, 1, Len(stack) - 1)
    /\ UNCHANGED <<vars, searching, choice, pending>>

\* The search returns, and the pass goes on to the next constraints.
Conclude ==
    /\ searching /\ stack = <<>> /\ visited = DOMAIN choice
    /\ LET next == Rebuilt(choice) IN
       IF ~WellFormed(next) THEN Stop("invalid")
       ELSE /\ selected' = choice /\ constraints' = next /\ previous' = Remembered(choice, next)
            /\ pc' = IF previous = <<choice, next>> THEN "locked" ELSE "passes"
            /\ UNCHANGED <<catalogue, request>>
    /\ Forget

Search == \/ \E p \in Packages : Root(p) \/ Return(p) \/ Raise(p) \/ Visit(p)
          \/ Leave

CheckedResolve ==
    \/ Start /\ UNCHANGED search
    \/ Fail /\ ~searching /\ UNCHANGED search
    \/ Select
    \/ Search
    \/ Conclude

CheckedNext == CheckedResolve \/ (Stopped /\ UNCHANGED search)

CheckedSpec == CheckedInit /\ [][CheckedNext]_checkedVars

\* As in Resolver: nothing interrupts the loop.
CheckedFairSpec == CheckedSpec /\ WF_checkedVars(CheckedResolve)

-----------------------------------------------------------------------------
\* A search is of the selection of a pass; the stack is a path in it, without
\* repetition, of just the packages marked `visiting`.
StackIsPath ==
    /\ visiting = {stack[i] : i \in 1..Len(stack)}
    /\ \A i, j \in 1..Len(stack) : stack[i] = stack[j] => i = j
    /\ \A i \in 1..(Len(stack) - 1) : stack[i + 1] \in Children(choice, stack[i])

\* What a call has behind it is visited, or is the call it is waiting for.
NothingSkipped ==
    /\ \A p \in DOMAIN choice \ (visiting \cup visited) : pending[p] = Children(choice, p)
    /\ \A i \in 1..Len(stack) : \A d \in Children(choice, stack[i]) \ pending[stack[i]] :
         d \in visited \/ (i < Len(stack) /\ d = stack[i + 1])

\* What is visited is closed and has no ring in it.
VisitedIsClosed ==
    /\ visiting \cap visited = {}
    /\ \A p \in visited : Children(choice, p) \subseteq visited
    /\ \A S \in SUBSET visited : S # {} => \E p \in S : ChildrenIn(choice, p) \cap S = {}

SearchTypes ==
    /\ searching \in BOOLEAN
    /\ visiting \subseteq DOMAIN choice /\ visited \subseteq DOMAIN choice
    /\ stack \in Seq(DOMAIN choice)
    /\ DOMAIN pending = DOMAIN choice /\ pending = [p \in DOMAIN choice |-> pending[p]]
    /\ \A p \in DOMAIN choice : pending[p] \subseteq Children(choice, p)
    /\ searching => /\ pc = "passes"
                    /\ choice \in [Names(constraints) -> Released]
                    /\ IsSelection(constraints, choice)
    /\ ~searching => Quiet

\* The passes fit together (ResolverInv), and so do the marks, the stack and the
\* iterations of a search under way, whatever the selection depends on: what
\* detect_cycles has visited holds no ring, and what it has not is still to come.
SearchInv == SearchTypes /\ StackIsPath /\ NothingSkipped /\ VisitedIsClosed
CheckedInv == ResolverInv /\ SearchInv

\* The steps of the search add up to one decision: a selection stops the resolution as
\* cyclic just if packages of it depend on one another in a ring, of any length, that
\* the search may meet anywhere, and otherwise the pass goes on (docs: "cyclic dependency
\* graphs do not produce lockfiles").
ImplementsResolver == Spec
=============================================================================
