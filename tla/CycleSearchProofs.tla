-------------------------- MODULE CycleSearchProofs --------------------------
(***************************************************************************)
(* Theorems about CycleSearch, for every finite set of jobs and all graphs *)
(* over them: the search neither misses a cycle nor invents one.           *)
(***************************************************************************)
EXTENDS CycleSearch, SequenceTheorems, FiniteSetTheorems, TLAPS

\* A visited job that waits for nothing but visited jobs ties no knot: a set with
\* it that were knotted would be knotted without it.
LEMMA NoNewKnot ==
    ASSUME NEW g \in [Jobs -> SUBSET Jobs], NEW V \in SUBSET Jobs, NEW t \in Jobs,
           t \notin V, g[t] \subseteq V,
           \A j \in V : g[j] \subseteq V,
           \A S \in SUBSET V : ~Knotted(g, S),
           NEW S \in SUBSET (V \cup {t})
    PROVE  ~Knotted(g, S)
  <1> SUFFICES ASSUME S # {}, \A j \in S : g[j] \cap S # {} PROVE FALSE
    BY DEF Knotted
  <1>1. t \in S
    BY DEF Knotted
  <1>2. S \ {t} \in SUBSET V /\ S \ {t} # {}
    BY <1>1
  <1>3. ASSUME NEW j \in S \ {t} PROVE g[j] \cap (S \ {t}) # {}
    BY <1>3
  <1> QED BY <1>2, <1>3 DEF Knotted

LEMMA InitInv == Init => SearchInv
  <1> SUFFICES ASSUME Init PROVE SearchInv
    OBVIOUS
  <1>1. graph \in [Jobs -> SUBSET Jobs] /\ stack = <<>> /\ Len(stack) = 0
    BY DEF Init, Start
  <1>2. TypeOK
    BY <1>1 DEF Init, Start, TypeOK
  <1>3. StackIsPath /\ NothingSkipped /\ VisitedIsClosed
    BY <1>1 DEF Init, Start, StackIsPath, NothingSkipped, VisitedIsClosed, Knotted
  <1> QED BY <1>2, <1>3 DEF SearchInv

\* Entering a frame for a job that is neither on the path nor done with.
LEMMA PushKeepsPath ==
    ASSUME TypeOK, StackIsPath, NEW j \in Jobs, Push(j), j \notin visiting, graph' = graph,
           stack # <<>> => j \in graph[Top]
    PROVE  /\ StackIsPath' /\ stack' \in Seq(Jobs)
           /\ Len(stack') = Len(stack) + 1 /\ Len(stack) \in Nat /\ Top' = j
           /\ stack'[Len(stack) + 1] = j
           /\ \A i \in 1..Len(stack) : stack'[i] = stack[i]
  <1>1. /\ stack' \in Seq(Jobs) /\ Len(stack') = Len(stack) + 1 /\ Len(stack) \in Nat
        /\ stack'[Len(stack) + 1] = j
        /\ \A i \in 1..Len(stack) : stack'[i] = stack[i]
    BY DEF TypeOK, Push
  <1>2. visiting' = {stack'[i] : i \in 1..Len(stack')}
    BY <1>1 DEF StackIsPath, Push
  <1>3. \A i, k \in 1..Len(stack') : stack'[i] = stack'[k] => i = k
    BY <1>1 DEF StackIsPath
  <1>4. ASSUME NEW i \in 1..(Len(stack') - 1) PROVE stack'[i + 1] \in graph[stack'[i]]
    <2>1. CASE i < Len(stack)
      BY <2>1, <1>1 DEF StackIsPath
    <2>2. CASE i = Len(stack)
      BY <2>2, <1>1 DEF Top
    <2> QED BY <2>1, <2>2, <1>1
  <1> QED BY <1>1, <1>2, <1>3, <1>4 DEF StackIsPath, Top

LEMMA RootInv ==
    ASSUME SearchInv, NEW j \in Jobs, Root(j) PROVE SearchInv'
  <1> USE DEF SearchInv
  <1>1. /\ graph' = graph /\ visited' = visited /\ pending' = pending /\ cycle' = cycle
        /\ found' = found /\ stack = <<>> /\ j \notin visited /\ Push(j) /\ Len(stack) = 0
    BY DEF Root, IsFirst
  <1>2. visiting = {} /\ j \notin visiting
    BY <1>1 DEF StackIsPath
  <1>3. /\ StackIsPath' /\ stack' \in Seq(Jobs) /\ Len(stack') = 1 /\ stack'[1] = j
        /\ visiting' = {j}
    BY <1>1, <1>2, PushKeepsPath DEF Push
  <1>4. TypeOK'
    BY <1>1, <1>3 DEF TypeOK
  <1>5. pending[j] = graph[j]
    BY <1>1, <1>2 DEF NothingSkipped
  <1>6. NothingSkipped'
    BY <1>1, <1>2, <1>3, <1>5 DEF NothingSkipped
  <1>7. VisitedIsClosed'
    BY <1>1, <1>3 DEF VisitedIsClosed
  <1> QED BY <1>3, <1>4, <1>6, <1>7

\* The path returned for a job on the stack: from its place to the top, and back.
LEMMA PathFromReal ==
    ASSUME TypeOK, StackIsPath, stack # <<>>, NEW d \in visiting
    PROVE  /\ PathFrom(d) \in Seq(Jobs)
           /\ Len(PathFrom(d)) > 1
           /\ PathFrom(d)[1] = d /\ PathFrom(d)[Len(PathFrom(d))] = d
           /\ PathFrom(d)[Len(PathFrom(d)) - 1] = Top
           /\ \A i \in 1..(Len(PathFrom(d)) - 2) :
                PathFrom(d)[i + 1] \in graph[PathFrom(d)[i]]
           /\ \A i, k \in 1..(Len(PathFrom(d)) - 1) : PathFrom(d)[i] = PathFrom(d)[k] => i = k
  <1> DEFINE m == CHOOSE i \in 1..Len(stack) : stack[i] = d
             n == Len(stack)
  <1>1. n \in Nat /\ stack \in Seq(Jobs) /\ n > 0
    BY DEF TypeOK
  <1>2. m \in 1..n /\ stack[m] = d /\ d \in Jobs
    BY <1>1 DEF StackIsPath, TypeOK
  <1> HIDE DEF m
  <1>3. n \in m - 1..n
    BY <1>1, <1>2
  <1>4. /\ SubSeq(stack, m, n) \in Seq(Jobs) /\ Len(SubSeq(stack, m, n)) = n - m + 1
        /\ \A i \in 1..(n - m + 1) : SubSeq(stack, m, n)[i] = stack[m + i - 1]
    BY <1>1, <1>2, <1>3, SubSeqProperties
  <1>5. PathFrom(d) = SubSeq(stack, m, n) \o <<d>>
    BY DEF PathFrom, m
  <1>6. /\ PathFrom(d) \in Seq(Jobs) /\ Len(PathFrom(d)) = n - m + 2
        /\ PathFrom(d)[n - m + 2] = d
        /\ \A i \in 1..(n - m + 1) : PathFrom(d)[i] = stack[m + i - 1]
    BY <1>1, <1>2, <1>4, <1>5
  <1>7. ASSUME NEW i \in 1..(n - m) PROVE PathFrom(d)[i + 1] \in graph[PathFrom(d)[i]]
    <2>1. m + i - 1 \in 1..(n - 1) /\ m + (i + 1) - 1 = (m + i - 1) + 1
      BY <1>1, <1>2
    <2>2. PathFrom(d)[i] = stack[m + i - 1] /\ PathFrom(d)[i + 1] = stack[(m + i - 1) + 1]
      BY <1>1, <1>2, <1>6
    <2> QED BY <2>1, <2>2 DEF StackIsPath
  <1>8. ASSUME NEW i \in 1..(n - m + 1), NEW k \in 1..(n - m + 1), PathFrom(d)[i] = PathFrom(d)[k]
        PROVE  i = k
    <2>1. m + i - 1 \in 1..n /\ m + k - 1 \in 1..n
      BY <1>1, <1>2
    <2>2. m + i - 1 = m + k - 1
      BY <2>1, <1>6, <1>8 DEF StackIsPath
    <2> QED BY <2>2, <1>1, <1>2
  <1>9. Len(PathFrom(d)) - 1 = n - m + 1 /\ Len(PathFrom(d)) - 2 = n - m /\ 1 \in 1..(n - m + 1)
    BY <1>1, <1>2, <1>6
  <1>10. PathFrom(d)[1] = d /\ PathFrom(d)[n - m + 1] = Top
    BY <1>1, <1>2, <1>6 DEF Top
  <1> QED BY <1>1, <1>2, <1>6, <1>7, <1>8, <1>9, <1>10

LEMMA LookInv ==
    ASSUME SearchInv, NEW d \in Jobs, Look(d) PROVE SearchInv'
  <1> USE DEF SearchInv
  <1> DEFINE n == Len(stack)
  <1>1. /\ stack # <<>> /\ graph' = graph /\ visited' = visited /\ found = "searching"
        /\ pending' = [pending EXCEPT ![Top] = @ \ {d}] /\ d \in pending[Top]
    BY DEF Look, IsFirst
  <1>2. /\ n \in Nat /\ n > 0 /\ Top = stack[n] /\ n \in 1..n /\ Top \in visiting /\ Top \in Jobs
        /\ \A i \in 1..n : stack[i] \in Jobs /\ stack[i] \in visiting
        /\ \A i \in 1..n : stack[i] = Top => i = n
    BY <1>1 DEF TypeOK, Top, StackIsPath
  <1>3. graph \in [Jobs -> SUBSET Jobs] /\ pending \in [Jobs -> SUBSET Jobs]
    BY DEF TypeOK
  <1>4. \A k \in Jobs : pending'[k] = IF k = Top THEN pending[Top] \ {d} ELSE pending[k]
    BY <1>1, <1>3
  <1>5. pending' \in [Jobs -> SUBSET Jobs]
    BY <1>1, <1>2, <1>3
  <1>6. ASSUME NEW e \in graph[Top] \ pending'[Top]
        PROVE  e = d \/ e \in visited
    <2>1. e \in graph[Top] \ pending[Top] \/ e = d
      BY <1>6, <1>4, <1>2
    <2> QED BY <2>1, <1>1, <1>2, <1>3 DEF NothingSkipped
  <1>7. ASSUME NEW i \in 1..n, i # n
        PROVE  stack[i] # Top /\ pending'[stack[i]] = pending[stack[i]] /\ i < n
    BY <1>7, <1>2, <1>4
  <1>8. CASE UNCHANGED <<visiting, stack>> /\ (d \in visiting \/ d \in visited)
             /\ found' \in {"searching", "cycle"} /\ cycle' \in Seq(Jobs)
             /\ (d \in visiting => found' = "cycle")
    <2>1. TypeOK' /\ StackIsPath' /\ VisitedIsClosed'
      BY <1>8, <1>1, <1>5 DEF TypeOK, StackIsPath, VisitedIsClosed
    <2>2. \A j \in Jobs \ (visiting' \cup visited') : pending'[j] = graph'[j]
      BY <1>8, <1>1, <1>2, <1>4 DEF NothingSkipped
    <2>3. ASSUME NEW i \in 1..n, NEW e \in Jobs, e \in graph[stack[i]] \ pending'[stack[i]]
          PROVE  e \in visited \/ (i < n /\ e = stack[i + 1]) \/ found' = "cycle"
      <3>1. CASE i = n
        BY <3>1, <2>3, <1>2, <1>6, <1>8
      <3>2. CASE i # n
        BY <3>2, <2>3, <1>7, <1>1 DEF NothingSkipped
      <3> QED BY <3>1, <3>2
    <2>4. NothingSkipped'
      BY <2>2, <2>3, <1>1, <1>8 DEF NothingSkipped
    <2> QED BY <2>1, <2>4
  <1>9. CASE d \notin visiting /\ d \notin visited /\ Push(d) /\ UNCHANGED <<cycle, found>>
    <2>1. d \in graph[Top]
      BY <1>1, <1>2 DEF NothingSkipped
    <2>2. /\ StackIsPath' /\ stack' \in Seq(Jobs) /\ Len(stack') = n + 1
          /\ stack'[n + 1] = d /\ \A i \in 1..n : stack'[i] = stack[i]
      BY <2>1, <1>1, <1>9, PushKeepsPath
    <2>3. visiting' = visiting \cup {d}
      BY <1>9 DEF Push
    <2>4. TypeOK' /\ VisitedIsClosed'
      BY <1>1, <1>5, <1>9, <2>2, <2>3 DEF TypeOK, VisitedIsClosed
    <2>5. pending'[d] = graph[d]
      BY <1>2, <1>4, <1>9 DEF NothingSkipped
    <2>6. \A j \in Jobs \ (visiting' \cup visited') : pending'[j] = graph'[j]
      BY <1>1, <1>2, <1>4, <2>3 DEF NothingSkipped
    <2>7. ASSUME NEW i \in 1..(n + 1), NEW e \in Jobs,
                 e \in graph[stack'[i]] \ pending'[stack'[i]]
          PROVE  e \in visited \/ (i < n + 1 /\ e = stack'[i + 1])
      <3>1. CASE i = n + 1
        BY <3>1, <2>7, <2>2, <2>5
      <3>2. CASE i = n
        BY <3>2, <2>7, <2>2, <1>2, <1>6
      <3>3. CASE i \in 1..n /\ i # n
        <4>1. e \in graph[stack[i]] \ pending[stack[i]]
          BY <3>3, <2>7, <2>2, <1>7
        <4>2. e \in visited \/ (i < n /\ e = stack[i + 1])
          BY <4>1, <3>3, <1>1 DEF NothingSkipped
        <4> QED BY <4>2, <2>2, <1>2, <3>3
      <3> QED BY <3>1, <3>2, <3>3, <1>2
    <2>8. NothingSkipped'
      BY <2>2, <2>6, <2>7, <1>1 DEF NothingSkipped
    <2> QED BY <2>2, <2>4, <2>8
  <1>10. CASE d \in visiting /\ cycle' = PathFrom(d) /\ found' = "cycle" /\ UNCHANGED <<visiting, stack>>
    <2>2. PathFrom(d) \in Seq(Jobs)
      BY <1>1, <1>10, PathFromReal
    <2> QED BY <2>2, <1>10, <1>8
  <1> QED BY <1>1, <1>8, <1>9, <1>10 DEF Look, TypeOK

LEMMA LeaveInv ==
    ASSUME SearchInv, Leave PROVE SearchInv'
  <1> USE DEF SearchInv
  <1> DEFINE n == Len(stack)
  <1>1. /\ stack # <<>> /\ graph' = graph /\ pending' = pending /\ cycle' = cycle
        /\ found' = found /\ found = "searching" /\ pending[Top] = {}
        /\ visiting' = visiting \ {Top} /\ visited' = visited \cup {Top}
        /\ stack' = SubSeq(stack, 1, n - 1)
    BY DEF Leave, AllLookedAt, Unmarked, Remembered
  <1>2. /\ n \in Nat /\ n > 0 /\ Top = stack[n] /\ n \in 1..n /\ Top \in visiting /\ Top \in Jobs
        /\ stack \in Seq(Jobs)
    BY <1>1 DEF TypeOK, Top, StackIsPath
  <1>3. /\ stack' \in Seq(Jobs) /\ Len(stack') = n - 1
        /\ \A i \in 1..(n - 1) : stack'[i] = stack[i]
    <2>1. 1 \in Int /\ n - 1 \in Int /\ \A i \in 1..(n - 1) : stack[i] \in Jobs
      BY <1>2
    <2>2. /\ SubSeq(stack, 1, n - 1) \in Seq(Jobs)
          /\ Len(SubSeq(stack, 1, n - 1)) = IF 1 <= n - 1 THEN (n - 1) - 1 + 1 ELSE 0
          /\ \A i \in 1..(n - 1) - 1 + 1 : SubSeq(stack, 1, n - 1)[i] = stack[1 + i - 1]
      BY <2>1, SubSeqProperties
    <2>3. stack' = SubSeq(stack, 1, n - 1)
      BY <1>1
    <2>4. n \in Nat /\ n > 0
      BY <1>2
    <2> HIDE DEF n
    <2>5. (n - 1) - 1 + 1 = n - 1 /\ \A i \in 1..(n - 1) : 1 + i - 1 = i
      BY <2>4
    <2>6. Len(stack') = n - 1
      BY <2>2, <2>3, <2>4
    <2> QED BY <2>2, <2>3, <2>5, <2>6
  <1>4. graph \in [Jobs -> SUBSET Jobs]
    BY DEF TypeOK
  <1>5. TypeOK'
    BY <1>1, <1>2, <1>3 DEF TypeOK
  <1>6. StackIsPath'
    <2>1. visiting' = {stack'[i] : i \in 1..Len(stack')}
      BY <1>1, <1>2, <1>3 DEF StackIsPath
    <2>2. \A i, j \in 1..Len(stack') : stack'[i] = stack'[j] => i = j
      BY <1>2, <1>3 DEF StackIsPath
    <2>3. \A i \in 1..(Len(stack') - 1) : stack'[i + 1] \in graph'[stack'[i]]
      BY <1>1, <1>2, <1>3 DEF StackIsPath
    <2> QED BY <2>1, <2>2, <2>3 DEF StackIsPath
  <1>7. NothingSkipped'
    <2>1. ASSUME NEW i \in 1..(n - 1), NEW e \in Jobs, e \in graph[stack[i]] \ pending[stack[i]]
          PROVE  e \in visited' \/ (i < n - 1 /\ e = stack'[i + 1])
      <3>1. e \in visited \/ (i < n /\ e = stack[i + 1])
        BY <2>1, <1>1, <1>2 DEF NothingSkipped
      <3>2. CASE i = n - 1
        BY <3>1, <3>2, <1>1, <1>2
      <3>3. CASE i < n - 1
        BY <3>1, <3>3, <1>1, <1>2, <1>3
      <3> QED BY <3>2, <3>3, <1>2
    <2> QED BY <2>1, <1>1, <1>2, <1>3 DEF NothingSkipped
  <1>8. graph[Top] \subseteq visited
    BY <1>1, <1>2, <1>4 DEF NothingSkipped
  <1>9. VisitedIsClosed'
    <2>1. Top \notin visited /\ visiting' \cap visited' = {}
      BY <1>1, <1>2 DEF VisitedIsClosed
    <2>2. \A j \in visited' : graph[j] \subseteq visited'
      BY <1>1, <1>8 DEF VisitedIsClosed
    <2>3. \A S \in SUBSET visited' : ~Knotted(graph, S)
      BY <2>1, <1>1, <1>2, <1>4, <1>8, NoNewKnot DEF VisitedIsClosed, TypeOK
    <2> QED BY <2>1, <2>2, <2>3, <1>1 DEF VisitedIsClosed, Knotted
  <1> QED BY <1>5, <1>6, <1>7, <1>9

LEMMA NextInv == SearchInv /\ [Next]_vars => SearchInv'
  <1> SUFFICES ASSUME SearchInv, [Next]_vars PROVE SearchInv'
    OBVIOUS
  <1>1. CASE \E j \in Jobs : Root(j)  BY <1>1, RootInv
  <1>2. CASE \E j \in Jobs : Look(j)  BY <1>2, LookInv
  <1>3. CASE Leave  BY <1>3, LeaveInv
  <1>4. CASE Exhausted \/ UNCHANGED vars
    <2>1. /\ UNCHANGED <<graph, visiting, visited, stack, pending, cycle>>
          /\ found' = found \/ (found = "searching" /\ found' = "none")
      BY <1>4 DEF Exhausted, vars
    <2> QED BY <2>1 DEF SearchInv, TypeOK, StackIsPath, NothingSkipped, VisitedIsClosed, Knotted
  <1> QED BY <1>1, <1>2, <1>3, <1>4 DEF Next, Search, Stopped

\* The invariant of the search holds throughout.
THEOREM SearchShape == Spec => []SearchInv
  BY InitInv, NextInv, PTL DEF Spec

\* No cycle is missed: the graphs the search passes have no knotted set of jobs,
\* which is what JobScheduler's plan rests on (HasCycle).
THEOREM Complete == Spec => []NoCycleMissed
  <1> DEFINE Done == found = "none" => visited = Jobs
  <1>1. Init => Done
    BY DEF Init, Start
  <1>2. Done /\ [Next]_vars => Done'
    BY DEF Next, Search, Root, Look, Leave, Exhausted, Stopped, vars
  <1>3. SearchInv /\ Done => NoCycleMissed
    BY DEF SearchInv, VisitedIsClosed, NoCycleMissed, HasCycle
  <1> QED BY <1>1, <1>2, <1>3, SearchShape, PTL DEF Spec

\* A step of the search keeps the path it returns real.
LEMMA NextReal == SearchInv /\ CycleIsReal /\ [Next]_vars => CycleIsReal'
  <1> SUFFICES ASSUME SearchInv, CycleIsReal, [Next]_vars, found' = "cycle" PROVE CycleIsReal'
    BY DEF CycleIsReal
  <1>1. CASE UNCHANGED <<graph, cycle, found>>
    BY <1>1 DEF CycleIsReal, Ends
  <1>2. ASSUME NEW d \in Jobs, Look(d), found # "cycle" PROVE CycleIsReal'
    <2>1. /\ graph' = graph /\ cycle' = PathFrom(d) /\ d \in visiting /\ stack # <<>>
          /\ d \in pending[Top]
      BY <1>2 DEF Look, IsFirst
    <2>2. Top \in Jobs
      BY <2>1 DEF SearchInv, TypeOK, Top
    <2>3. d \in graph[Top]
      BY <2>1, <2>2 DEF SearchInv, NothingSkipped
    <2> DEFINE p == PathFrom(d)
    <2>4. /\ p \in Seq(Jobs) /\ Len(p) > 1 /\ p[1] = d /\ p[Len(p)] = d /\ p[Len(p) - 1] = Top
          /\ \A i \in 1..(Len(p) - 2) : p[i + 1] \in graph[p[i]]
          /\ \A i, k \in 1..(Len(p) - 1) : p[i] = p[k] => i = k
      BY <2>1, PathFromReal DEF SearchInv
    <2> HIDE DEF p
    <2>5. ASSUME NEW i \in 1..(Len(p) - 1) PROVE p[i + 1] \in graph[p[i]]
      <3>1. CASE i = Len(p) - 1
        BY <3>1, <2>3, <2>4
      <3>2. CASE i # Len(p) - 1
        BY <3>2, <2>4
      <3> QED BY <3>1, <3>2
    <2>6. cycle' = p
      BY <2>1 DEF p
    <2> QED BY <2>1, <2>4, <2>5, <2>6 DEF CycleIsReal, Ends
  <1> QED BY <1>1, <1>2 DEF Next, Search, Root, Look, Leave, Exhausted, Stopped, vars

\* No cycle is invented: the path returned is a cycle of the graph.
THEOREM Sound == Spec => []CycleIsReal
  <1>1. Init => CycleIsReal
    BY DEF Init, Start, CycleIsReal
  <1> QED BY <1>1, NextReal, SearchShape, PTL DEF Spec

-----------------------------------------------------------------------------
(* The search is short *)

\* What is left to do: jobs to enter, dependencies to look at, frames to leave, and
\* the end to notice.
ToEnter == Jobs \ (visiting \cup visited)
ToLookAt == {e \in Jobs \X Jobs : e[2] \in pending[e[1]]}
ToLeave == Jobs \ visited
ToEnd == IF found = "searching" THEN 1 ELSE 0

SearchLeft ==
    Cardinality(ToEnter) + Cardinality(ToLookAt) + Cardinality(ToLeave) + ToEnd

\* No graph is too tangled: each step of the search leaves less to do, so that it
\* returns within MostSearchSteps steps, a look at a dependency counted as one (that
\* is, no dependency is looked at twice).
MostSearchSteps == Cardinality(Jobs) * Cardinality(Jobs) + 2 * Cardinality(Jobs) + 1

SearchCounted == SearchLeft \in 0..MostSearchSteps

SearchShortens ==
    /\ []SearchCounted
    /\ [][SearchLeft' < SearchLeft]_vars

\* A part counts no more than the whole, and less if something is missing.
LEMMA CountsLess ==
    ASSUME NEW S, IsFiniteSet(S), NEW T \in SUBSET S
    PROVE  /\ IsFiniteSet(T)
           /\ Cardinality(T) \in Nat /\ Cardinality(S) \in Nat
           /\ Cardinality(T) <= Cardinality(S)
           /\ T # S => Cardinality(T) < Cardinality(S)
  <1>1. /\ IsFiniteSet(T) /\ Cardinality(T) <= Cardinality(S)
        /\ Cardinality(S) = Cardinality(T) => S = T
    BY FS_Subset
  <1>2. Cardinality(T) \in Nat /\ Cardinality(S) \in Nat
    BY <1>1, FS_CardinalityType
  <1> QED BY <1>1, <1>2

\* What is left is bounded by the jobs and the pairs of jobs there are.
LEMMA SearchLeftBounded ==
    /\ IsFiniteSet(ToEnter) /\ IsFiniteSet(ToLookAt) /\ IsFiniteSet(ToLeave)
    /\ Cardinality(ToEnter) \in Nat /\ Cardinality(ToLookAt) \in Nat
    /\ Cardinality(ToLeave) \in Nat
    /\ SearchCounted /\ MostSearchSteps \in Nat
  <1> DEFINE n == Cardinality(Jobs)
  <1>1. IsFiniteSet(Jobs) /\ n \in Nat
    BY JobsAssumption, FS_CardinalityType
  <1>2. IsFiniteSet(Jobs \X Jobs) /\ Cardinality(Jobs \X Jobs) = n * n
    BY <1>1, FS_Product
  <1>3. /\ IsFiniteSet(ToEnter) /\ Cardinality(ToEnter) \in Nat /\ Cardinality(ToEnter) <= n
        /\ IsFiniteSet(ToLeave) /\ Cardinality(ToLeave) \in Nat /\ Cardinality(ToLeave) <= n
    BY <1>1, CountsLess DEF ToEnter, ToLeave
  <1>4. ToLookAt \in SUBSET (Jobs \X Jobs)
    BY DEF ToLookAt
  <1>5. /\ IsFiniteSet(ToLookAt) /\ Cardinality(ToLookAt) \in Nat
        /\ Cardinality(ToLookAt) <= n * n
    BY <1>2, <1>4, CountsLess
  <1>6. n * n \in Nat
    BY <1>1
  <1> DEFINE m == n * n
  <1>7. SearchLeft = Cardinality(ToEnter) + Cardinality(ToLookAt) + Cardinality(ToLeave) + ToEnd
        /\ MostSearchSteps = m + 2 * n + 1 /\ ToEnd \in {0, 1}
    BY DEF SearchLeft, MostSearchSteps, ToEnd
  <1> HIDE DEF m, n
  <1>8. m \in Nat /\ Cardinality(ToLookAt) <= m
    BY <1>5, <1>6 DEF m
  <1> QED BY <1>1, <1>3, <1>5, <1>7, <1>8 DEF SearchCounted

\* Less of one kind and no more of the others is less in all.
LEMMA LessLeft ==
    ASSUME ToEnter' \subseteq ToEnter, ToLookAt' \subseteq ToLookAt, ToLeave' \subseteq ToLeave,
           found' # found => found = "searching",
           \/ ToEnter' # ToEnter \/ ToLookAt' # ToLookAt
           \/ ToLeave' # ToLeave \/ found' # found
    PROVE  SearchLeft' < SearchLeft
  <1>1. /\ IsFiniteSet(ToEnter) /\ IsFiniteSet(ToLookAt) /\ IsFiniteSet(ToLeave)
    BY SearchLeftBounded
  <1>2. /\ Cardinality(ToEnter') <= Cardinality(ToEnter)
        /\ Cardinality(ToEnter') \in Nat /\ Cardinality(ToEnter) \in Nat
        /\ ToEnter' # ToEnter => Cardinality(ToEnter') < Cardinality(ToEnter)
    BY <1>1, CountsLess
  <1>3. /\ Cardinality(ToLookAt') <= Cardinality(ToLookAt)
        /\ Cardinality(ToLookAt') \in Nat /\ Cardinality(ToLookAt) \in Nat
        /\ ToLookAt' # ToLookAt => Cardinality(ToLookAt') < Cardinality(ToLookAt)
    BY <1>1, CountsLess
  <1>4. /\ Cardinality(ToLeave') <= Cardinality(ToLeave)
        /\ Cardinality(ToLeave') \in Nat /\ Cardinality(ToLeave) \in Nat
        /\ ToLeave' # ToLeave => Cardinality(ToLeave') < Cardinality(ToLeave)
    BY <1>1, CountsLess
  <1>5. ToEnd \in {0, 1} /\ ToEnd' \in {0, 1} /\ ToEnd' <= ToEnd
        /\ (found' # found => ToEnd' < ToEnd)
    BY DEF ToEnd
  <1>6. SearchLeft = Cardinality(ToEnter) + Cardinality(ToLookAt) + Cardinality(ToLeave) + ToEnd
    BY DEF SearchLeft
  <1>7. SearchLeft' =
          Cardinality(ToEnter') + Cardinality(ToLookAt') + Cardinality(ToLeave') + ToEnd'
    BY DEF SearchLeft
  <1> QED BY <1>2, <1>3, <1>4, <1>5, <1>6, <1>7

LEMMA StepShortens == ASSUME SearchInv, Search PROVE SearchLeft' < SearchLeft
  <1>1. ASSUME NEW j \in Jobs, Root(j) PROVE SearchLeft' < SearchLeft
    <2>1. /\ stack = <<>> /\ visiting' = visiting \cup {j} /\ j \notin visited
          /\ UNCHANGED <<visited, pending, found>>
      BY <1>1 DEF Root, Push, IsFirst
    <2>2. j \notin visiting
      BY <2>1 DEF SearchInv, StackIsPath
    <2> QED BY <2>1, <2>2, LessLeft DEF ToEnter, ToLookAt, ToLeave
  <1>2. ASSUME NEW d \in Jobs, Look(d) PROVE SearchLeft' < SearchLeft
    <2>1. /\ d \in pending[Top] /\ stack # <<>> /\ visited' = visited
          /\ pending' = [pending EXCEPT ![Top] = @ \ {d}]
          /\ visiting \subseteq visiting'
          /\ found' # found => found = "searching"
      BY <1>2 DEF Look, IsFirst, Push
    <2>2. Top \in Jobs /\ pending \in [Jobs -> SUBSET Jobs]
      BY <2>1 DEF SearchInv, TypeOK, Top
    <2>3. \A k \in Jobs : pending'[k] \subseteq pending[k] /\ (k = Top => d \notin pending'[k])
      BY <2>1, <2>2
    <2>4. ToLookAt' \subseteq ToLookAt
      BY <2>3 DEF ToLookAt
    <2>5. <<Top, d>> \in ToLookAt /\ <<Top, d>> \notin ToLookAt'
      BY <2>1, <2>2, <2>3 DEF ToLookAt
    <2>6. ToEnter' \subseteq ToEnter /\ ToLeave' \subseteq ToLeave
      BY <2>1 DEF ToEnter, ToLeave
    <2> QED BY <2>1, <2>4, <2>5, <2>6, LessLeft
  <1>3. ASSUME Leave PROVE SearchLeft' < SearchLeft
    <2>1. /\ stack # <<>> /\ visiting' = visiting \ {Top} /\ visited' = visited \cup {Top}
          /\ UNCHANGED <<pending, found>>
      BY <1>3 DEF Leave, Unmarked, Remembered
    <2>2. Top \in visiting /\ Top \in Jobs /\ Top \notin visited
      BY <2>1 DEF SearchInv, TypeOK, StackIsPath, VisitedIsClosed, Top
    <2> QED BY <2>1, <2>2, LessLeft DEF ToEnter, ToLookAt, ToLeave
  <1>4. ASSUME Exhausted PROVE SearchLeft' < SearchLeft
    BY <1>4, LessLeft DEF Exhausted, ToEnter, ToLookAt, ToLeave
  <1> QED BY <1>1, <1>2, <1>3, <1>4 DEF Search

\* The search ends on every graph, within a number of steps that the number of jobs
\* gives: what is left of SearchEnds is that the thread keeps running.
THEOREM SearchHalts == Spec => SearchShortens
  <1>1. SearchCounted
    BY SearchLeftBounded
  <1>2. SearchInv /\ [Next]_vars => [SearchLeft' < SearchLeft]_vars
    BY StepShortens DEF Next, Stopped
  <1> QED BY <1>1, <1>2, SearchShape, PTL DEF Spec, SearchShortens

=============================================================================
