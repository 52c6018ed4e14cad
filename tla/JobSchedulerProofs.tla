------------------------- MODULE JobSchedulerProofs -------------------------
(***************************************************************************)
(* Theorems about JobScheduler, for every finite set of jobs, every set of *)
(* graphs over them and every concurrency limit.                           *)
(***************************************************************************)
EXTENDS CheckedScheduler, FiniteSetTheorems, TLAPS

SearchProofs == INSTANCE CycleSearchProofs WITH graph <- needs

-----------------------------------------------------------------------------
(* Facts about sets and about sequences of batches *)

\* Taking the elements of R out of S leaves as many as there were less those of R.
LEMMA CardinalityMinus ==
    ASSUME NEW S, IsFiniteSet(S), NEW R
    PROVE  /\ Cardinality(S \ R) = Cardinality(S) - Cardinality(S \cap R)
           /\ Cardinality(S) \in Nat /\ Cardinality(S \ R) \in Nat
  <1>1. IsFiniteSet(S \ R) /\ IsFiniteSet(S \cap R)
    BY FS_Subset
  <1>2. (S \ R) \cup (S \cap R) = S /\ (S \ R) \cap (S \cap R) = {}
    OBVIOUS
  <1>3. /\ Cardinality(S) \in Nat /\ Cardinality(S \ R) \in Nat
        /\ Cardinality(S \cap R) \in Nat
    BY <1>1, FS_CardinalityType
  <1>4. Cardinality(S) = Cardinality(S \ R) + Cardinality(S \cap R) - 0
    BY <1>1, <1>2, FS_Union, FS_EmptySet
  <1> QED BY <1>3, <1>4

\* A set has no element exactly when it counts none.
LEMMA CardinalityZero ==
    ASSUME NEW S, IsFiniteSet(S)
    PROVE  Cardinality(S) = 0 <=> S = {}
  BY FS_EmptySet

\* A subset of the jobs is finite, and so is what an acceptable graph needs.
LEMMA NeedsFinite ==
    ASSUME TypeOK, NEW j \in Jobs
    PROVE  IsFiniteSet(needs[j]) /\ needs[j] \subseteq Jobs \cup {Unknown}
  <1>1. needs[j] \subseteq Jobs \cup {Unknown}
    BY SchedulerAssumption DEF TypeOK, AllGraphs
  <1>2. IsFiniteSet(Jobs \cup {Unknown})
    BY JobsAssumption, FS_AddElement
  <1> QED BY <1>1, <1>2, FS_Subset

\* In a graph without unknown names needs are jobs.
LEMMA NeedsAreJobs ==
    ASSUME TypeOK, ~HasUnknown(needs), NEW j \in Jobs
    PROVE  needs[j] \subseteq Jobs
  BY NeedsFinite DEF HasUnknown

\* Appending a batch adds its jobs to the planned ones.
LEMMA PlannedAppend ==
    ASSUME batches \in Seq(SUBSET Jobs), ready \subseteq Jobs, batches' = Append(batches, ready)
    PROVE  /\ Planned' = Planned \cup ready
           /\ batches' \in Seq(SUBSET Jobs)
           /\ DOMAIN batches = 1..Len(batches) /\ DOMAIN batches' = 1..(Len(batches) + 1)
           /\ \A i \in DOMAIN batches : batches'[i] = batches[i]
           /\ batches'[Len(batches) + 1] = ready
  <1>1. /\ Len(batches) \in Nat /\ DOMAIN batches = 1..Len(batches)
        /\ DOMAIN batches' = 1..(Len(batches) + 1)
        /\ \A i \in DOMAIN batches : batches'[i] = batches[i]
        /\ batches'[Len(batches) + 1] = ready
        /\ batches' \in Seq(SUBSET Jobs)
    OBVIOUS
  <1>2. ASSUME NEW j PROVE j \in Planned' <=> j \in Planned \cup ready
    <2>1. j \in Planned' <=> \E i \in DOMAIN batches' : j \in batches'[i]
      BY DEF Planned
    <2>2. j \in Planned <=> \E i \in DOMAIN batches : j \in batches[i]
      BY DEF Planned
    <2>3. DOMAIN batches' = DOMAIN batches \cup {Len(batches) + 1}
      BY <1>1
    <2> QED BY <2>1, <2>2, <2>3, <1>1
  <1> QED BY <1>1, <1>2

\* Taking the first batch off takes its jobs off the planned ones.
LEMMA PlannedTail ==
    ASSUME batches \in Seq(SUBSET Jobs), batches # <<>>, batches' = Tail(batches)
    PROVE  /\ Planned = Head(batches) \cup Planned'
           /\ Head(batches) \in SUBSET Jobs /\ batches' \in Seq(SUBSET Jobs)
           /\ 1 \in DOMAIN batches /\ Head(batches) = batches[1]
           /\ \A i \in DOMAIN batches' : i + 1 \in DOMAIN batches /\ batches'[i] = batches[i + 1]
           /\ DOMAIN batches' \subseteq Nat /\ DOMAIN batches \subseteq Nat
           /\ \A i \in DOMAIN batches' : i > 0
  <1>1. /\ Head(batches) \in SUBSET Jobs /\ batches' \in Seq(SUBSET Jobs)
        /\ Len(batches) \in Nat /\ Len(batches) > 0 /\ DOMAIN batches = 1..Len(batches)
        /\ DOMAIN batches' = 1..(Len(batches) - 1) /\ Head(batches) = batches[1]
        /\ \A i \in 1..(Len(batches) - 1) : batches'[i] = batches[i + 1]
    OBVIOUS
  <1>2. ASSUME NEW j PROVE j \in Planned <=> j \in Head(batches) \cup Planned'
    <2>1. j \in Planned' <=> \E i \in DOMAIN batches' : j \in batches'[i]
      BY DEF Planned
    <2>2. j \in Planned <=> \E i \in DOMAIN batches : j \in batches[i]
      BY DEF Planned
    <2>3. ASSUME NEW k \in DOMAIN batches, k # 1
          PROVE  k - 1 \in DOMAIN batches' /\ batches'[k - 1] = batches[k]
      BY <2>3, <1>1
    <2>4. ASSUME j \in Planned' PROVE j \in Planned
      BY <2>4, <2>1, <2>2, <1>1
    <2>5. ASSUME j \in Planned, j \notin Head(batches) PROVE j \in Planned'
      <3>1. PICK k \in DOMAIN batches : j \in batches[k]
        BY <2>5, <2>2
      <3>2. k # 1
        BY <3>1, <2>5, <1>1
      <3> QED BY <3>1, <3>2, <2>1, <2>3
    <2>6. ASSUME j \in Head(batches) PROVE j \in Planned
      BY <2>6, <2>2, <1>1
    <2> QED BY <2>4, <2>5, <2>6
  <1> QED BY <1>1, <1>2

-----------------------------------------------------------------------------
(* SchedulerInv holds initially and is preserved by every action *)

LEMMA InitInv == Init => SchedulerInv
  <1> SUFFICES ASSUME Init PROVE SchedulerInv
    OBVIOUS
  <1>1. ASSUME NEW j \in Jobs PROVE Cardinality(needs[j]) \in Nat
    <2>1. needs[j] \in SUBSET (Jobs \cup {Unknown})
      BY SchedulerAssumption DEF Init, AllGraphs
    <2> QED BY <2>1, JobsAssumption, FS_AddElement, FS_Subset, FS_CardinalityType
  <1>2. batches = <<>> /\ batches \in Seq(SUBSET Jobs) /\ DOMAIN batches = {}
    BY DEF Init
  <1>3. Planned = {}
    BY <1>2 DEF Planned
  <1>4. Cardinality(chunk) = 0 /\ limit \in Nat
    BY FS_EmptySet, SchedulerAssumption DEF Init
  <1>5. TypeOK
    BY <1>1, <1>2 DEF Init, TypeOK, PC, Status, Future
  <1>6. PlanInv /\ OrderInv /\ StatusInv
    BY <1>2, <1>3 DEF Init, PlanInv, OrderInv, StatusInv, Todo
  <1>7. LoopInv
    BY <1>4, <1>3 DEF Init, LoopInv
  <1> QED BY <1>5, <1>6, <1>7 DEF SchedulerInv

\* The batches are not disturbed by a step that leaves them alone.
LEMMA PlannedUnchanged ==
    batches' = batches => Planned' = Planned
  BY DEF Planned

LEMMA ConstructInv ==
    ASSUME SchedulerInv, Construct PROVE SchedulerInv'
  <1> USE DEF SchedulerInv
  <1>1. Planned' = Planned /\ Todo' = Todo
    BY PlannedUnchanged DEF Construct, Todo
  <1>2. Planned = {} /\ (Acceptable <=> Acceptable')
    BY DEF PlanInv, Construct, Planned, Acceptable, config
  <1>3. ASSUME NEW j \in Jobs
        PROVE  indegree[j] = Cardinality(needs[j]) /\ (indegree[j] = 0 <=> needs[j] = {})
    BY NeedsFinite, CardinalityZero DEF PlanInv, Construct
  <1>4. TypeOK'
    BY DEF TypeOK, Construct, config, PC
  <1>5. PlanInv'
    <2>1. needs' = needs /\ indegree' = indegree
      BY DEF Construct, config
    <2>2. \A j \in Jobs : needs[j] \ Planned = needs[j]
      BY <1>2
    <2>3. pc' = "plan" => ready' = {j \in Jobs \ Planned' : needs'[j] \subseteq Planned'}
      BY <1>1, <1>2, <1>3, <2>1 DEF Construct
    <2> QED BY <1>1, <1>2, <1>3, <2>1, <2>2, <2>3 DEF PlanInv, Construct
  <1>6. OrderInv' /\ StatusInv' /\ LoopInv'
    BY <1>1, <1>2 DEF OrderInv, StatusInv, LoopInv, Lost, Construct, config, PlanInv
  <1> QED BY <1>4, <1>5, <1>6

LEMMA PlaceBatchInv ==
    ASSUME SchedulerInv, PlaceBatch PROVE SchedulerInv'
  <1> USE DEF SchedulerInv
  <1>1. /\ Planned' = Planned \cup ready
        /\ batches' \in Seq(SUBSET Jobs)
        /\ DOMAIN batches = 1..Len(batches) /\ DOMAIN batches' = 1..(Len(batches) + 1)
        /\ \A i \in DOMAIN batches : batches'[i] = batches[i]
        /\ batches'[Len(batches) + 1] = ready
    BY PlannedAppend DEF TypeOK, PlaceBatch
  <1>2. /\ needs' = needs /\ limit' = limit /\ pc = "plan" /\ pc' = "plan"
        /\ rest' = {} /\ rest = {} /\ chunk' = chunk /\ failures' = failures
        /\ status' = status /\ future' = future
    BY DEF PlaceBatch, config, PlanInv
  <1>3. /\ ~HasUnknown(needs) /\ Acceptable /\ Acceptable'
        /\ \A j \in Jobs : needs[j] \subseteq Jobs
    BY <1>2, NeedsAreJobs DEF Acceptable, PlanInv
  <1>4. /\ ready = {j \in Jobs \ Planned : needs[j] \subseteq Planned}
        /\ \A j \in Planned : needs[j] \subseteq Planned
        /\ \A j \in Jobs : indegree[j] = Cardinality(needs[j] \ Planned)
    BY <1>2 DEF PlanInv
  <1>5. Planned \subseteq Jobs
    BY DEF TypeOK, Planned
  <1>6. ASSUME NEW j \in Jobs
        PROVE  /\ indegree'[j] = Cardinality(needs[j] \ Planned')
               /\ indegree'[j] \in Nat
               /\ indegree'[j] = 0 <=> needs[j] \subseteq Planned'
    <2>1. IsFiniteSet(needs[j]) /\ IsFiniteSet(needs[j] \ Planned)
      BY NeedsFinite, FS_Subset
    <2>2. needs[j] \cap ready = (needs[j] \ Planned) \cap ready
      BY <1>4
    <2>3. needs[j] \ Planned' = (needs[j] \ Planned) \ ready
      BY <1>1
    <2>4. /\ Cardinality((needs[j] \ Planned) \ ready) =
               Cardinality(needs[j] \ Planned) - Cardinality((needs[j] \ Planned) \cap ready)
          /\ Cardinality((needs[j] \ Planned) \ ready) \in Nat
      BY <2>1, CardinalityMinus
    <2>5. indegree'[j] = indegree[j] - Cardinality(needs[j] \cap ready)
      BY DEF PlaceBatch, PlacedNeeds
    <2>6. IsFiniteSet(needs[j] \ Planned')
      BY <2>1, FS_Subset
    <2>7. Cardinality(needs[j] \ Planned') = 0 <=> needs[j] \ Planned' = {}
      BY <2>6, CardinalityZero
    <2> QED BY <2>2, <2>3, <2>4, <2>5, <2>7, <1>4
  <1>7. ready' = {j \in Jobs \ Planned' : needs[j] \subseteq Planned'}
    <2>1. ready' = {j \in Jobs : needs[j] \cap ready # {} /\ indegree'[j] = 0}
      BY DEF PlaceBatch, Released
    <2>2. ASSUME NEW j \in Jobs, needs[j] \cap ready # {}, needs[j] \subseteq Planned'
          PROVE  j \notin Planned'
      BY <2>2, <1>1, <1>4
    <2>3. ASSUME NEW j \in Jobs \ Planned', needs[j] \subseteq Planned'
          PROVE  needs[j] \cap ready # {}
      BY <2>3, <1>1, <1>4
    <2> QED BY <2>1, <2>2, <2>3, <1>6
  <1>8. TypeOK'
    <2>1. indegree' \in [Jobs -> Nat]
      BY <1>6 DEF PlaceBatch
    <2> QED BY <2>1, <1>1, <1>2, <1>7 DEF TypeOK
  <1>9. PlanInv'
    <2>1. \A j \in Planned' : needs[j] \subseteq Planned'
      BY <1>1, <1>4
    <2> QED BY <2>1, <1>2, <1>3, <1>6, <1>7 DEF PlanInv
  <1>10. OrderInv'
    <2>1. ASSUME NEW i \in DOMAIN batches, NEW j \in batches[i]
          PROVE  j \in Planned
      BY DEF Planned
    <2>2. ready \cap Planned = {} /\ \A j \in ready : needs[j] \cap ready = {}
      BY <1>4
    <2>3. \A i, k \in DOMAIN batches' : i < k => batches'[i] \cap batches'[k] = {}
      <3> SUFFICES ASSUME NEW i \in DOMAIN batches', NEW k \in DOMAIN batches', i < k
                   PROVE  batches'[i] \cap batches'[k] = {}
        OBVIOUS
      <3>1. i \in DOMAIN batches /\ Len(batches) \in Nat
        BY <1>1 DEF TypeOK
      <3>2. CASE k \in DOMAIN batches
        BY <3>1, <3>2, <1>1 DEF OrderInv
      <3>3. CASE k = Len(batches) + 1
        BY <3>1, <3>3, <1>1, <2>1, <2>2
      <3> QED BY <3>1, <3>2, <3>3, <1>1
    <2>4. \A i, k \in DOMAIN batches' : i <= k =>
            \A j \in batches'[i] : needs[j] \cap batches'[k] = {}
      <3> SUFFICES ASSUME NEW i \in DOMAIN batches', NEW k \in DOMAIN batches', i <= k,
                          NEW j \in batches'[i]
                   PROVE  needs[j] \cap batches'[k] = {}
        OBVIOUS
      <3>1. Len(batches) \in Nat
        BY DEF TypeOK
      <3>2. CASE k \in DOMAIN batches
        BY <3>1, <3>2, <1>1 DEF OrderInv
      <3>3. CASE k = Len(batches) + 1 /\ i = k
        BY <3>1, <3>3, <1>1, <2>2
      <3>4. CASE k = Len(batches) + 1 /\ i # k
        <4>1. i \in DOMAIN batches /\ batches'[i] = batches[i]
          BY <3>4, <3>1, <1>1
        <4>2. needs[j] \subseteq Planned
          BY <4>1, <2>1, <1>4
        <4> QED BY <4>2, <3>4, <1>1, <2>2
      <3> QED BY <3>1, <3>2, <3>3, <3>4, <1>1
    <2>5. \A i \in DOMAIN batches' : batches'[i] # {}
      BY <1>1 DEF OrderInv, PlaceBatch, TypeOK
    <2> QED BY <2>3, <2>4, <2>5, <1>2 DEF OrderInv
  <1>11. StatusInv' /\ LoopInv'
    BY <1>2 DEF StatusInv, LoopInv, Lost
  <1> QED BY <1>8, <1>9, <1>10, <1>11

LEMMA PlanDoneInv ==
    ASSUME SchedulerInv, PlanDone PROVE SchedulerInv'
  <1> USE DEF SchedulerInv
  <1>1. Planned' = Planned /\ Todo' = Todo
    BY PlannedUnchanged DEF PlanDone, Todo
  <1>2. /\ needs' = needs /\ limit' = limit /\ pc = "plan" /\ pc' = "loop"
        /\ rest' = {} /\ rest = {} /\ chunk' = {} /\ chunk = {}
        /\ failures' = {} /\ failures = {} /\ ready = {}
        /\ status' = status /\ future' = future /\ batches' = batches
    BY DEF PlanDone, config, PlanInv
  <1>3. Acceptable /\ Acceptable' /\ \A j \in Jobs : needs[j] \subseteq Jobs
    BY <1>2, NeedsAreJobs DEF Acceptable, PlanInv
  <1>4. Todo = Jobs
    <2>1. Todo \subseteq Jobs
      BY <1>2 DEF TypeOK, Todo, Planned
    <2>2. SUFFICES ASSUME Jobs \ Todo # {} PROVE FALSE
      BY <2>1
    <2>3. ASSUME NEW j \in Jobs \ Todo PROVE needs[j] \cap (Jobs \ Todo) # {}
      BY <1>2, <1>3 DEF PlanInv, Todo
    <2>4. Knotted(needs, Jobs \ Todo)
      BY <2>2, <2>3 DEF Knotted
    <2>5. ~HasCycle(needs)
      BY <1>3 DEF Acceptable
    <2> QED BY <2>4, <2>5 DEF HasCycle
  <1>5. TypeOK'
    BY DEF TypeOK, PlanDone, config, planning, PC
  <1>6. PlanInv' /\ OrderInv' /\ StatusInv'
    BY <1>1, <1>2, <1>3 DEF PlanInv, OrderInv, StatusInv, Lost
  <1>7. LoopInv'
    BY <1>1, <1>2, <1>4 DEF LoopInv, PlanInv
  <1> QED BY <1>5, <1>6, <1>7

LEMMA EnterBatchInv ==
    ASSUME SchedulerInv, EnterBatch PROVE SchedulerInv'
  <1> USE DEF SchedulerInv
  <1>1. /\ Planned = rest' \cup Planned' /\ rest' = Head(batches) /\ rest' = batches[1]
        /\ 1 \in DOMAIN batches
        /\ rest' \subseteq Jobs /\ batches' \in Seq(SUBSET Jobs)
        /\ \A i \in DOMAIN batches' :
             i > 0 /\ i + 1 \in DOMAIN batches /\ batches'[i] = batches[i + 1]
        /\ DOMAIN batches' \subseteq Nat
    BY PlannedTail DEF EnterBatch, TypeOK
  <1>2. /\ needs' = needs /\ limit' = limit /\ pc = "loop" /\ pc' = "loop"
        /\ rest = {} /\ chunk' = chunk /\ failures' = failures
        /\ status' = status /\ future' = future
    BY DEF EnterBatch, config
  <1>3. Todo' = Todo
    BY <1>1, <1>2 DEF Todo
  <1>4. TypeOK'
    BY <1>1 DEF TypeOK, EnterBatch, config, planning
  <1>5. PlanInv' /\ StatusInv' /\ LoopInv'
    BY <1>2, <1>3 DEF PlanInv, StatusInv, LoopInv, Lost, Acceptable
  <1>6. OrderInv'
    <2>1. \A i, k \in DOMAIN batches' : i < k => batches'[i] \cap batches'[k] = {}
      BY <1>1 DEF OrderInv
    <2>2. \A i, k \in DOMAIN batches' : i <= k =>
            \A j \in batches'[i] : needs[j] \cap batches'[k] = {}
      BY <1>1 DEF OrderInv
    <2>3. ASSUME NEW j \in Planned' PROVE j \notin rest'
      <3>1. PICK i \in DOMAIN batches' : j \in batches'[i]
        BY <2>3 DEF Planned
      <3>2. i + 1 \in DOMAIN batches /\ 1 < i + 1 /\ j \in batches[i + 1]
        BY <3>1, <1>1
      <3> QED BY <3>2, <1>1 DEF OrderInv
    <2>4. ASSUME NEW j \in rest', NEW d \in needs[j] PROVE d \notin Todo
      <3>1. SUFFICES ASSUME d \in Planned PROVE FALSE
        BY <1>2 DEF Todo
      <3>2. PICK i \in DOMAIN batches : d \in batches[i]
        BY <3>1 DEF Planned
      <3>3. 1 <= i
        BY DEF TypeOK
      <3> QED BY <3>2, <3>3, <1>1, <2>4 DEF OrderInv
    <2>5. \A i \in DOMAIN batches' : batches'[i] # {}
      BY <1>1 DEF OrderInv
    <2> QED BY <2>1, <2>2, <2>3, <2>4, <2>5, <1>2, <1>3 DEF OrderInv
  <1> QED BY <1>4, <1>5, <1>6

LEMMA TakeChunkInv ==
    ASSUME SchedulerInv, TakeChunk PROVE SchedulerInv'
  <1> USE DEF SchedulerInv
  <1>1. PICK c \in SUBSET rest :
         /\ IsNextChunk(c)
         /\ rest' = rest \ c
         /\ chunk' = {j \in c : Runnable(j)}
         /\ status' = [j \in Jobs |-> IF j \notin c THEN status[j]
                                      ELSE IF Runnable(j) THEN "running" ELSE "skipped"]
         /\ future' = [j \in Jobs |-> IF j \in chunk' THEN "submitted" ELSE future[j]]
    BY DEF TakeChunk
  <1>2. /\ needs' = needs /\ limit' = limit /\ pc = "loop" /\ pc' = "pool"
        /\ indegree' = indegree /\ ready' = ready /\ batches' = batches
        /\ failures' = failures /\ failures = {} /\ chunk = {} /\ Planned' = Planned
    BY PlannedUnchanged DEF TakeChunk, config, planning, LoopInv
  <1>3. /\ Acceptable /\ Acceptable' /\ \A j \in Jobs : needs[j] \subseteq Jobs
        /\ rest \subseteq Jobs
    BY <1>2, NeedsAreJobs DEF Acceptable, PlanInv, TypeOK
  <1>4. Todo' \subseteq Todo /\ Todo \ Todo' = c
    BY <1>1, <1>2 DEF Todo, OrderInv
  <1>5. ASSUME NEW j \in c
        PROVE  /\ j \in Jobs /\ status[j] \in {"queued", "skipped"} /\ future[j] = "none"
               /\ \A d \in needs[j] : d \in Jobs /\ status[d] \in Terminal /\ d \notin c
    <2>1. j \in Jobs /\ j \in Todo /\ j \in rest
      BY <1>1, <1>3 DEF Todo
    <2>2. status[j] \in {"queued", "skipped"} /\ future[j] = "none"
      BY <2>1, <1>2 DEF LoopInv, StatusInv
    <2>3. ASSUME NEW d \in needs[j] PROVE d \in Jobs \ (Todo \cup chunk)
      BY <2>1, <1>2, <1>3 DEF OrderInv
    <2> QED BY <2>1, <2>2, <2>3, <1>2, <1>4 DEF LoopInv
  <1>6. ASSUME NEW j \in Jobs
        PROVE  /\ j \notin c => status'[j] = status[j] /\ future'[j] = future[j]
               /\ j \in chunk' <=> j \in c /\ Runnable(j)
               /\ j \in c /\ Runnable(j) => status'[j] = "running" /\ future'[j] = "submitted"
               /\ j \in c /\ ~Runnable(j) => status'[j] = "skipped" /\ future'[j] = future[j]
    BY <1>1
  <1>7. chunk' \subseteq Jobs /\ Cardinality(chunk') <= limit
    <2>1. IsFiniteSet(c) /\ Cardinality(c) \in Nat
      BY <1>1, <1>3, JobsAssumption, FS_Subset, FS_CardinalityType
    <2>2. chunk' \in SUBSET c
      BY <1>1
    <2>3. Cardinality(c) <= limit /\ limit \in Nat
      BY <1>1, <2>1, SchedulerAssumption DEF IsNextChunk, TypeOK
    <2>4. IsFiniteSet(chunk') /\ Cardinality(chunk') <= Cardinality(c) /\ Cardinality(chunk') \in Nat
      BY <2>1, <2>2, FS_Subset, FS_CardinalityType
    <2> QED BY <2>1, <2>2, <2>3, <2>4, <1>1, <1>3
  <1>8. TypeOK'
    <2>1. status \in [Jobs -> Status] /\ future \in [Jobs -> Future]
      BY DEF TypeOK
    <2>2. status' \in [Jobs -> Status]
      BY <2>1, <1>1 DEF Status, Terminal
    <2>3. future' \in [Jobs -> Future]
      BY <2>1, <1>1 DEF Future
    <2>4. rest' \subseteq Jobs
      BY <1>1, <1>3
    <2> QED BY <2>2, <2>3, <2>4, <1>2, <1>7 DEF TypeOK, PC
  <1>9. PlanInv'
    BY <1>2, <1>3 DEF PlanInv
  <1>10. OrderInv'
    BY <1>1, <1>2, <1>4 DEF OrderInv, Todo
  <1>11. StatusInv'
    <2> SUFFICES ASSUME NEW j \in Jobs
                 PROVE  /\ future'[j] = "none" <=> status'[j] \in {"queued", "skipped"}
                        /\ status'[j] = "skipped" => \E d \in needs[j] : d \in Jobs /\ Lost(d)'
                        /\ status'[j] = "succeeded" => future'[j] = "clean"
                        /\ status'[j] = "failed" => future'[j] = "faulty"
                        /\ future'[j] # "none" =>
                             \A d \in needs[j] : d \in Jobs /\ status'[d] = "succeeded"
      BY <1>2 DEF StatusInv
    <2>1. ASSUME NEW d \in Jobs, status[d] \in Terminal, d \notin c PROVE status'[d] = status[d]
      BY <2>1, <1>6
    <2>2. CASE j \in c /\ Runnable(j)
      BY <2>1, <2>2, <1>5, <1>6 DEF Runnable
    <2>3. CASE j \in c /\ ~Runnable(j)
      <3>1. PICK d \in needs[j] : status[d] # "succeeded"
        BY <2>3 DEF Runnable
      <3>2. d \in Jobs /\ status'[d] = status[d] /\ status[d] \in Terminal
        BY <2>1, <2>3, <1>5
      <3>3. Lost(d)'
        BY <3>1, <3>2 DEF Lost, Terminal
      <3> QED BY <3>2, <3>3, <2>3, <1>5, <1>6
    <2>4. CASE j \notin c
      <3>1. ASSUME NEW d \in Jobs, Lost(d), status'[d] = status[d] PROVE Lost(d)'
        BY <3>1 DEF Lost
      <3>2. ASSUME NEW d \in Jobs, Lost(d) PROVE Lost(d)'
        <4>1. CASE d \notin c
          BY <4>1, <3>1, <3>2, <1>6
        <4>2. CASE d \in c
          <5>1. ~Runnable(d)
            BY <4>2, <3>2, <1>5, <1>2, <1>3 DEF Runnable, Lost, StatusInv
          <5> QED BY <5>1, <4>2, <1>6 DEF Lost
        <4> QED BY <4>1, <4>2
      <3>3. future[j] # "none" => \A d \in needs[j] : d \in Jobs /\ status'[d] = "succeeded"
        BY <1>5, <1>6 DEF StatusInv
      <3> QED BY <2>4, <3>2, <3>3, <1>6 DEF StatusInv
    <2> QED BY <2>2, <2>3, <2>4
  <1>12. LoopInv'
    <2>1. \A j \in Todo' : status'[j] \in {"queued", "skipped"}
      BY <1>2, <1>4, <1>6, <1>8 DEF LoopInv, TypeOK, Todo, Planned
    <2>2. \A j \in Jobs \ (Todo' \cup chunk') : status'[j] \in Terminal
      BY <1>2, <1>4, <1>6 DEF LoopInv, Terminal
    <2>3. \A j \in Jobs : j \in chunk' <=> status'[j] = "running"
      BY <1>2, <1>6 DEF LoopInv
    <2> QED BY <2>1, <2>2, <2>3, <1>2, <1>7 DEF LoopInv
  <1> QED BY <1>8, <1>9, <1>10, <1>11, <1>12

LEMMA ThreadInv ==
    ASSUME SchedulerInv, NEW j \in Jobs, Thread(j) PROVE SchedulerInv'
  <1> USE DEF SchedulerInv
  <1>1. PICK r \in {"executing"} \cup Finished :
          future' = [future EXCEPT ![j] = r] /\ future[j] \in {"submitted", "executing"}
    BY DEF Thread, Begin, End
  <1>2. /\ needs' = needs /\ limit' = limit /\ pc' = pc
        /\ indegree' = indegree /\ ready' = ready /\ batches' = batches
        /\ rest' = rest /\ chunk' = chunk /\ failures' = failures /\ status' = status
        /\ Planned' = Planned /\ Todo' = Todo
    BY PlannedUnchanged DEF Thread, Begin, End, config, planning, Todo
  <1>3. /\ future \in [Jobs -> Future]
        /\ \A k \in Jobs : future'[k] = IF k = j THEN r ELSE future[k]
    BY <1>1 DEF TypeOK
  <1>4. TypeOK'
    BY <1>1, <1>2 DEF TypeOK, Future
  <1>5. PlanInv' /\ OrderInv'
    BY <1>2 DEF PlanInv, OrderInv, Acceptable
  <1>6. status[j] = "running"
    <2>1. future[j] # "none" /\ future[j] \notin {"clean", "faulty"}
      BY <1>1
    <2>2. status[j] \in Status
      BY DEF TypeOK
    <2> QED BY <2>1, <2>2 DEF StatusInv, Status, Terminal
  <1>7. StatusInv'
    <2>1. r # "none"
      BY DEF Finished, Results
    <2> QED BY <2>1, <1>1, <1>2, <1>3, <1>6 DEF StatusInv, Lost
  <1>8. LoopInv'
    <2>1. pc # "crashed"
      BY <1>1 DEF LoopInv, Finished, Results
    <2> QED BY <2>1, <1>2 DEF LoopInv
  <1> QED BY <1>4, <1>5, <1>7, <1>8

LEMMA CollectInv ==
    ASSUME SchedulerInv, NEW j \in Jobs, Collect(j) PROVE SchedulerInv'
  <1> USE DEF SchedulerInv
  <1>1. /\ needs' = needs /\ limit' = limit /\ pc' = pc /\ pc = "pool"
        /\ indegree' = indegree /\ ready' = ready /\ batches' = batches
        /\ rest' = rest /\ future' = future
        /\ Planned' = Planned /\ Todo' = Todo
    BY PlannedUnchanged DEF Collect, config, planning, Todo
  <1>2. j \in chunk /\ chunk' = chunk \ {j} /\ future[j] \in Results
    BY DEF Collect, NextToCollect
  <1>3. PICK s \in {"succeeded", "failed"} :
          /\ s = "succeeded" <=> future[j] = "clean"
          /\ status' = [status EXCEPT ![j] = s]
          /\ failures' = IF s = "succeeded" THEN failures ELSE failures \cup {j}
    BY <1>2 DEF Collect, Coerce
  <1>4. \A k \in Jobs : status'[k] = IF k = j THEN s ELSE status[k]
    BY <1>3 DEF TypeOK
  <1>5. status[j] = "running" /\ j \notin Todo
    BY <1>1, <1>2 DEF LoopInv
  <1>6. TypeOK'
    BY <1>1, <1>2, <1>3 DEF TypeOK, Status, Terminal
  <1>7. PlanInv' /\ OrderInv'
    BY <1>1 DEF PlanInv, OrderInv, Acceptable
  <1>8. StatusInv'
    BY <1>1, <1>2, <1>3, <1>4, <1>5 DEF StatusInv, Lost, Results
  <1>9. LoopInv'
    <2>1. Cardinality(chunk') <= limit
      <3>1. IsFiniteSet(chunk) /\ chunk' \in SUBSET chunk /\ limit \in Nat
        BY <1>2, JobsAssumption, SchedulerAssumption, FS_Subset DEF TypeOK
      <3>2. /\ Cardinality(chunk') <= Cardinality(chunk)
            /\ Cardinality(chunk') \in Nat /\ Cardinality(chunk) \in Nat
        BY <3>1, FS_Subset, FS_CardinalityType
      <3> QED BY <3>1, <3>2 DEF LoopInv
    <2>2. \A k \in Jobs : k \in chunk' <=> status'[k] = "running"
      BY <1>2, <1>4 DEF LoopInv
    <2>3. \A k \in Todo' : status'[k] \in {"queued", "skipped"}
      BY <1>1, <1>4, <1>5 DEF LoopInv, Todo, Planned, TypeOK
    <2>4. \A k \in Jobs \ (Todo' \cup chunk') : status'[k] \in Terminal
      BY <1>1, <1>2, <1>4 DEF LoopInv, Terminal
    <2>5. \A k \in failures' : status'[k] = "failed"
      BY <1>3, <1>4, <1>5 DEF LoopInv, TypeOK
    <2> QED BY <2>1, <2>2, <2>3, <2>4, <2>5, <1>1 DEF LoopInv
  <1> QED BY <1>6, <1>7, <1>8, <1>9

\* The steps that move DAGScheduler on and touch no job.
LEMMA ControlInv ==
    ASSUME SchedulerInv,
           (\E j \in Jobs : CollectRaised(j)) \/ Unwind \/ Return
    PROVE  SchedulerInv'
  <1> USE DEF SchedulerInv
  <1>1. /\ needs' = needs /\ limit' = limit /\ indegree' = indegree /\ ready' = ready
        /\ batches' = batches /\ rest' = rest /\ chunk' = chunk
        /\ failures' = failures /\ status' = status /\ future' = future
        /\ Planned' = Planned /\ Todo' = Todo
        /\ \/ pc = "pool" /\ pc' = "unwind"
           \/ pc = "unwind" /\ pc' = "crashed" /\ PoolDrained
           \/ pc = "loop" /\ pc' = "done" /\ rest = {} /\ batches = <<>>
    BY PlannedUnchanged DEF CollectRaised, Unwind, Return, config, planning, Todo
  <1>2. TypeOK'
    BY <1>1 DEF TypeOK, PC
  <1>3. PlanInv' /\ OrderInv' /\ StatusInv'
    BY <1>1 DEF PlanInv, OrderInv, StatusInv, Lost, Acceptable
  <1>4. LoopInv'
    <2>1. pc' = "done" => Todo = {}
      BY <1>1 DEF Todo, Planned
    <2>2. ASSUME pc' = "crashed", NEW j \in Jobs PROVE future[j] \in {"none"} \cup Finished
      BY <2>2, <1>1 DEF TypeOK, Future, PoolDrained
    <2> QED BY <1>1, <2>1, <2>2 DEF LoopInv
  <1> QED BY <1>2, <1>3, <1>4

\* A job given up by the propagation has a need that failed or is given up too:
\* otherwise the descendants without it would be closed as well.
LEMMA DescendantsHaveReason ==
    ASSUME NEW F \in SUBSET Jobs, NEW j \in Descendants(F)
    PROVE  j \in Jobs /\ status[j] = "queued" /\ needs[j] \cap (F \cup Descendants(F)) # {}
  <1>1. j \in Jobs /\ \A C \in SUBSET Jobs : ClosedUnderDependents(F, C) => j \in C
    BY DEF Descendants
  <1>2. SUFFICES ASSUME ~(status[j] = "queued" /\ needs[j] \cap (F \cup Descendants(F)) # {})
                 PROVE  FALSE
    BY <1>1
  <1>3. ASSUME NEW k \in Jobs, status[k] = "queued",
               needs[k] \cap (F \cup (Descendants(F) \ {j})) # {}
        PROVE  k \in Descendants(F) \ {j}
    <2>1. k # j
      BY <1>2, <1>3
    <2>2. ASSUME NEW C \in SUBSET Jobs, ClosedUnderDependents(F, C) PROVE k \in C
      <3>1. Descendants(F) \subseteq C
        BY <2>2 DEF Descendants
      <3> QED BY <3>1, <2>2, <1>3 DEF ClosedUnderDependents
    <2> QED BY <2>1, <2>2 DEF Descendants
  <1>4. ClosedUnderDependents(F, Descendants(F) \ {j})
    BY <1>3 DEF ClosedUnderDependents
  <1>5. Descendants(F) \ {j} \in SUBSET Jobs
    BY DEF Descendants
  <1> QED BY <1>1, <1>4, <1>5

LEMMA PropagateInv ==
    ASSUME SchedulerInv, Propagate PROVE SchedulerInv'
  <1> USE DEF SchedulerInv
  <1> DEFINE D == Descendants(failures)
  <1>1. /\ needs' = needs /\ limit' = limit /\ pc = "pool" /\ pc' = "loop"
        /\ indegree' = indegree /\ ready' = ready /\ batches' = batches
        /\ rest' = rest /\ chunk' = {} /\ chunk = {} /\ failures' = {} /\ future' = future
        /\ Planned' = Planned /\ Todo' = Todo
    BY PlannedUnchanged DEF Propagate, config, planning, Todo
  <1>2. status' = [j \in Jobs |-> IF j \in D THEN "skipped" ELSE status[j]]
    BY DEF Propagate
  <1>3. failures \in SUBSET Jobs /\ \A j \in failures : status[j] = "failed"
    BY DEF TypeOK, LoopInv
  <1>4. ASSUME NEW j \in D
        PROVE  j \in Jobs /\ status[j] = "queued" /\ needs[j] \cap (failures \cup D) # {}
    BY <1>3, DescendantsHaveReason
  <1>5. \A j \in Jobs : status'[j] = IF j \in D THEN "skipped" ELSE status[j]
    BY <1>2
  <1>6. TypeOK'
    BY <1>1, <1>2 DEF TypeOK, PC, Status, Terminal
  <1>7. PlanInv' /\ OrderInv'
    BY <1>1 DEF PlanInv, OrderInv, Acceptable
  <1>8. \A d \in Jobs : Lost(d) \/ d \in D => Lost(d)'
    BY <1>5 DEF Lost
  <1>9. \A d \in failures : Lost(d) /\ d \in Jobs
    BY <1>3 DEF Lost
  <1>10. StatusInv'
    <2> SUFFICES ASSUME NEW j \in Jobs
                 PROVE  /\ future[j] = "none" <=> status'[j] \in {"queued", "skipped"}
                        /\ status'[j] = "skipped" => \E d \in needs[j] : d \in Jobs /\ Lost(d)'
                        /\ status'[j] = "succeeded" => future[j] = "clean"
                        /\ status'[j] = "failed" => future[j] = "faulty"
                        /\ future[j] # "none" =>
                             \A d \in needs[j] : d \in Jobs /\ status'[d] = "succeeded"
      BY <1>1 DEF StatusInv
    <2>1. CASE j \in D
      <3>1. PICK d \in needs[j] : d \in failures \/ d \in D
        BY <2>1, <1>4
      <3>2. d \in Jobs /\ Lost(d)'
        BY <3>1, <1>4, <1>8, <1>9
      <3> QED BY <3>2, <2>1, <1>4, <1>5 DEF StatusInv
    <2>2. CASE j \notin D
      <3>1. \A d \in Jobs : status[d] = "succeeded" => status'[d] = "succeeded"
        BY <1>4, <1>5
      <3> QED BY <3>1, <2>2, <1>5, <1>8 DEF StatusInv
    <2> QED BY <2>1, <2>2
  <1>11. LoopInv'
    <2>1. \A j \in Todo' : status'[j] \in {"queued", "skipped"}
      BY <1>1, <1>5 DEF LoopInv, TypeOK, Todo, Planned
    <2>2. \A j \in Jobs \ (Todo' \cup chunk') : status'[j] \in Terminal
      BY <1>1, <1>4, <1>5 DEF LoopInv, Terminal
    <2>3. \A j \in Jobs : j \in chunk' <=> status'[j] = "running"
      BY <1>1, <1>4, <1>5 DEF LoopInv
    <2> QED BY <2>1, <2>2, <2>3, <1>1 DEF LoopInv
  <1> QED BY <1>6, <1>7, <1>10, <1>11

LEMMA NextInv == SchedulerInv /\ [Next]_vars => SchedulerInv'
  <1> SUFFICES ASSUME SchedulerInv, [Next]_vars PROVE SchedulerInv'
    OBVIOUS
  <1>1. CASE Construct  BY <1>1, ConstructInv
  <1>2. CASE PlaceBatch  BY <1>2, PlaceBatchInv
  <1>3. CASE PlanDone  BY <1>3, PlanDoneInv
  <1>4. CASE EnterBatch  BY <1>4, EnterBatchInv
  <1>5. CASE TakeChunk  BY <1>5, TakeChunkInv
  <1>6. CASE \E j \in Jobs : Collect(j)  BY <1>6, CollectInv
  <1>7. CASE (\E j \in Jobs : CollectRaised(j)) \/ Unwind \/ Return  BY <1>7, ControlInv
  <1>8. CASE Propagate  BY <1>8, PropagateInv
  <1>9. CASE \E j \in Jobs : Thread(j)  BY <1>9, ThreadInv
  <1>10. CASE UNCHANGED vars
    <2>1. Planned' = Planned /\ Todo' = Todo
      BY <1>10, PlannedUnchanged DEF vars, Todo
    <2> QED BY <1>10, <2>1 DEF vars, config, planning, SchedulerInv, TypeOK, PlanInv, OrderInv,
                               StatusInv, LoopInv, Lost, Acceptable
  <1> QED BY <1>1, <1>2, <1>3, <1>4, <1>5, <1>6, <1>7, <1>8, <1>9, <1>10
          DEF Next, Schedule, Run, Stopped

\* The invariant the other theorems rest on: the shape of a run holds throughout.
THEOREM Shape == Spec => []SchedulerInv
  BY InitInv, NextInv, PTL DEF Spec

\* Every variable has its type throughout.
THEOREM TypeCorrect == Spec => []TypeOK
  <1>1. SchedulerInv => TypeOK
    BY DEF SchedulerInv
  <1> QED BY <1>1, Shape, PTL

-----------------------------------------------------------------------------
(* The properties *)

\* On every graph and at every limit a job's executor starts only after the
\* executors of all it needs have returned cleanly.
THEOREM NeedsFirst == Spec => []StartsAfterNeeds
  <1>1. SchedulerInv => StartsAfterNeeds
    BY DEF SchedulerInv, StatusInv, StartsAfterNeeds, Started
  <1> QED BY <1>1, Shape, PTL

\* At most `limit` executors are ever at work.
THEOREM LimitHolds == Spec => []WithinLimit
  <1>1. ASSUME SchedulerInv PROVE WithinLimit
    <2>1. \A j \in Executing : status[j] = "running" /\ j \in chunk
      BY <1>1 DEF SchedulerInv, StatusInv, LoopInv, Executing, TypeOK, Status, Terminal
    <2>2. Executing \in SUBSET chunk /\ IsFiniteSet(chunk) /\ limit \in Nat
      BY <1>1, <2>1, JobsAssumption, SchedulerAssumption, FS_Subset DEF SchedulerInv, TypeOK
    <2>3. Cardinality(Executing) <= Cardinality(chunk) /\ Cardinality(chunk) \in Nat
          /\ Cardinality(Executing) \in Nat
      BY <2>2, FS_Subset, FS_CardinalityType
    <2> QED BY <1>1, <2>2, <2>3 DEF SchedulerInv, LoopInv, WithinLimit
  <1> QED BY <1>1, Shape, PTL

\* No job of a cyclic pipeline, or of one with an unknown need, is ever started.
THEOREM BadGraphsRefused == Spec => []BadGraphRunsNothing
  <1>1. SchedulerInv => BadGraphRunsNothing
    BY DEF SchedulerInv, PlanInv, StatusInv, BadGraphRunsNothing, Started, Acceptable, TypeOK, PC
  <1> QED BY <1>1, Shape, PTL

\* The jobs run() returns as skipped are those downstream of a failed one.  Nobody with
\* such a need has run, and skipped jobs without one would need each other in a circle.
LEMMA SkipsAreDownstream == ASSUME SchedulerInv, pc = "done" PROVE Skipped = Downstream
  <1> DEFINE S == Skipped
             F == Failed
             D == Downstream
  <1>1. HoldsDependents(F, S)
    <2> SUFFICES ASSUME NEW j \in Jobs, NEW d \in needs[j], d \in F \cup S PROVE j \in S
      BY DEF HoldsDependents
    <2>1. status[d] # "succeeded"
      BY DEF Failed, Skipped
    <2>2. future[j] = "none" /\ status[j] \in Terminal
      BY <2>1 DEF SchedulerInv, StatusInv, LoopInv
    <2> QED BY <2>2 DEF SchedulerInv, StatusInv, Terminal, Skipped
  <1>2. D \subseteq S
    BY <1>1 DEF Downstream, Skipped
  <1>3. ASSUME NEW j \in Jobs, needs[j] \cap (F \cup D) # {} PROVE j \in D
    <2> SUFFICES ASSUME NEW C \in SUBSET Jobs, HoldsDependents(F, C) PROVE j \in C
      BY DEF Downstream
    <2>1. D \subseteq C
      BY DEF Downstream
    <2> QED BY <1>3, <2>1 DEF HoldsDependents
  <1>4. ASSUME NEW j \in S \ D PROVE needs[j] \cap (S \ D) # {}
    <2>1. PICK d \in needs[j] : d \in Jobs /\ Lost(d)
      BY DEF Skipped, SchedulerInv, StatusInv
    <2>2. d \in F \cup S
      BY <2>1 DEF Lost, Failed, Skipped
    <2>3. d \notin F \cup D
      BY <1>3, <2>1 DEF Skipped
    <2> QED BY <2>2, <2>3
  <1>5. S \ D = {}
    <2>1. ~HasCycle(needs) /\ S \ D \in SUBSET Jobs
      BY DEF SchedulerInv, PlanInv, Acceptable, Skipped
    <2> HIDE DEF S, D
    <2> QED BY <1>4, <2>1 DEF HasCycle, Knotted
  <1> QED BY <1>2, <1>5

\* When run() returns every job has the outcome its executor and its needs earned
\* it; that the plan forgets no job of an acyclic graph is part of it, and that a
\* failure reaches all jobs downstream of it and no other.
THEOREM FullOutcome == Spec => []ReturnsFullOutcome
  <1>1. SchedulerInv => ReturnsFullOutcome
    BY SkipsAreDownstream
       DEF SchedulerInv, LoopInv, StatusInv, ReturnsFullOutcome, Outcome, Terminal
  <1> QED BY <1>1, Shape, PTL

\* What run() returns is an outcome as PipelineRun takes it (its Outcomes): every
\* job has a terminal status, and where a job was skipped one has failed.  If
\* none had, the skipped jobs would need each other in a circle.
ReturnsOutcome ==
    pc = "done" =>
      /\ status \in [Jobs -> Terminal]
      /\ (\E j \in Jobs : status[j] = "skipped") => \E j \in Jobs : status[j] = "failed"

THEOREM SkipsHaveFailure == Spec => []ReturnsOutcome
  <1>1. SchedulerInv => ReturnsOutcome
    <2> SUFFICES ASSUME SchedulerInv, pc = "done" PROVE ReturnsOutcome
      BY DEF ReturnsOutcome
    <2>1. status \in [Jobs -> Terminal]
      BY DEF SchedulerInv, TypeOK, LoopInv
    <2>2. SUFFICES ASSUME NEW j \in Jobs, status[j] = "skipped",
                          \A d \in Jobs : status[d] # "failed"
                   PROVE  FALSE
      BY <2>1 DEF ReturnsOutcome
    <2> DEFINE S == {d \in Jobs : status[d] = "skipped"}
    <2>3. \A d \in S : needs[d] \cap S # {}
      BY <2>2 DEF SchedulerInv, StatusInv, Lost
    <2>4. S \in SUBSET Jobs /\ j \in S
      BY <2>2
    <2>5. ~HasCycle(needs)
      BY DEF SchedulerInv, PlanInv, Acceptable
    <2> HIDE DEF S
    <2> QED BY <2>3, <2>4, <2>5 DEF HasCycle, Knotted
  <1> QED BY <1>1, Shape, PTL

\* Nothing is at work when the scheduler returns or raises.
THEOREM QuietAtEnd == Spec => []NothingRunsAfterEnd
  <1>1. SchedulerInv => NothingRunsAfterEnd
    BY DEF SchedulerInv, PlanInv, LoopInv, StatusInv, NothingRunsAfterEnd, Ended, Terminal,
           Finished, Results
  <1> QED BY <1>1, Shape, PTL

\* No executor is started twice for a job.
THEOREM OnlyOnce == Spec => RunsOnce
  <1>1. ASSUME SchedulerInv, [Next]_vars, NEW j \in Jobs, future[j] \in Finished
        PROVE  future'[j] = future[j]
    <2>1. future \in [Jobs -> Future] /\ future[j] \notin {"none", "submitted", "executing"}
      BY <1>1 DEF SchedulerInv, TypeOK, Finished, Results
    <2>2. CASE TakeChunk
      <3>1. j \notin rest
        BY <1>1, <2>1, <2>2 DEF SchedulerInv, LoopInv, StatusInv, TakeChunk, Todo
      <3> QED BY <2>1, <2>2, <3>1 DEF TakeChunk
    <2>3. CASE \E k \in Jobs : Thread(k)
      BY <2>1, <2>3 DEF Thread, Begin, End
    <2> QED BY <1>1, <2>1, <2>2, <2>3
            DEF Next, Schedule, Run, Construct, PlaceBatch, PlanDone, EnterBatch, Collect,
                CollectRaised, Unwind, Propagate, Return, Stopped, vars
  <1>2. SchedulerInv /\ [Next]_vars =>
          [\A j \in Jobs : future[j] \in Finished => future'[j] = future[j]]_vars
    BY <1>1
  <1> QED BY <1>2, Shape, PTL DEF Spec, RunsOnce

-----------------------------------------------------------------------------
(* A run is short *)

\* What is left to do: jobs to place in a batch, to enter a batch for, to take into a
\* chunk, to begin, to end and to settle, and the stages DAGScheduler has before it.
Unplanned == pc \in {"construct", "plan"}
ToPlace == IF Unplanned THEN Jobs \ Planned ELSE {}
ToEnter == IF Unplanned THEN Jobs ELSE Planned
ToTake == IF Unplanned THEN Jobs ELSE Todo
ToBegin == {j \in Jobs : future[j] \in {"none", "submitted"}}
ToEnd == {j \in Jobs : future[j] \notin Finished}
ToSettle == {j \in Jobs : status[j] \notin Terminal}
Stage == IF pc = "construct" THEN 4
         ELSE IF pc = "plan" THEN 3
         ELSE IF pc = "pool" THEN 2
         ELSE IF pc \in Ended THEN 0 ELSE 1   \* "loop" and "unwind"

\* A chunk taken brings a pool with it, so that a job to take counts for two.
Left == Cardinality(ToPlace) + Cardinality(ToEnter) + 2 * Cardinality(ToTake)
        + Cardinality(ToBegin) + Cardinality(ToEnd) + Cardinality(ToSettle) + Stage

\* No pipeline takes long of itself: each step of the scheduler and of the threads
\* leaves less to do, whatever the graph, the limit and the executors' results, so
\* that no more than MostSteps are taken.
MostSteps == 7 * Cardinality(Jobs) + 4

StepsCounted == Left \in 0..MostSteps

RunShortens ==
    /\ []StepsCounted
    /\ [][Left' < Left]_vars

\* A set of jobs counts at most the jobs there are, and less if something is missing.
LEMMA JobsCount ==
    ASSUME NEW S \in SUBSET Jobs, NEW T \in SUBSET S
    PROVE  /\ Cardinality(T) \in Nat /\ Cardinality(S) \in Nat /\ Cardinality(Jobs) \in Nat
           /\ Cardinality(S) <= Cardinality(Jobs)
           /\ Cardinality(T) <= Cardinality(S)
           /\ T # S => Cardinality(T) < Cardinality(S)
  <1>1. IsFiniteSet(Jobs) /\ IsFiniteSet(S) /\ IsFiniteSet(T)
    BY JobsAssumption, FS_Subset
  <1>2. /\ Cardinality(T) \in Nat /\ Cardinality(S) \in Nat /\ Cardinality(Jobs) \in Nat
    BY <1>1, FS_CardinalityType
  <1>3. /\ Cardinality(T) <= Cardinality(S) /\ Cardinality(S) <= Cardinality(Jobs)
        /\ Cardinality(S) = Cardinality(T) => S = T
    BY <1>1, FS_Subset
  <1> QED BY <1>2, <1>3

LEMMA LeftSets ==
    TypeOK => /\ ToPlace \in SUBSET Jobs /\ ToEnter \in SUBSET Jobs /\ ToTake \in SUBSET Jobs
              /\ ToBegin \in SUBSET Jobs /\ ToEnd \in SUBSET Jobs /\ ToSettle \in SUBSET Jobs
              /\ Stage \in 0..4
  <1> SUFFICES ASSUME TypeOK
               PROVE  /\ ToPlace \in SUBSET Jobs /\ ToEnter \in SUBSET Jobs
                      /\ ToTake \in SUBSET Jobs /\ ToBegin \in SUBSET Jobs
                      /\ ToEnd \in SUBSET Jobs /\ ToSettle \in SUBSET Jobs /\ Stage \in 0..4
    OBVIOUS
  <1>1. Planned \subseteq Jobs /\ Todo \subseteq Jobs
    BY DEF TypeOK, Planned, Todo
  <1>2. Stage \in 0..4
    BY DEF TypeOK, Stage, PC, Ended
  <1> QED BY <1>1, <1>2 DEF ToPlace, ToEnter, ToTake, ToBegin, ToEnd, ToSettle

LEMMA LeftBounded == TypeOK => StepsCounted /\ MostSteps \in Nat
  <1> SUFFICES ASSUME TypeOK PROVE StepsCounted /\ MostSteps \in Nat
    OBVIOUS
  <1> DEFINE n == Cardinality(Jobs)
  <1>1. ASSUME NEW S \in SUBSET Jobs PROVE Cardinality(S) \in Nat /\ Cardinality(S) <= n
    BY JobsCount
  <1>2. n \in Nat
    BY JobsAssumption, FS_CardinalityType
  <1> HIDE DEF n
  <1>3. /\ Cardinality(ToPlace) \in 0..n /\ Cardinality(ToEnter) \in 0..n
        /\ Cardinality(ToTake) \in 0..n /\ Cardinality(ToBegin) \in 0..n
        /\ Cardinality(ToEnd) \in 0..n /\ Cardinality(ToSettle) \in 0..n /\ Stage \in 0..4
    BY <1>1, <1>2, LeftSets
  <1>4. MostSteps = 7 * n + 4
    BY DEF MostSteps, n
  <1> QED BY <1>2, <1>3, <1>4 DEF Left, StepsCounted

\* A step that leaves the scheduler alone leaves as much to do.
LEMMA StillLeft == UNCHANGED vars => Left' = Left
  BY PlannedUnchanged
     DEF vars, Left, ToPlace, ToEnter, ToTake, ToBegin, ToEnd, ToSettle, Stage, Todo, Unplanned

\* Less of one kind and no more of the others is less in all; the stage may rise by
\* one where jobs are taken.
LEMMA LessLeft ==
    ASSUME TypeOK, TypeOK',
           ToPlace' \subseteq ToPlace, ToEnter' \subseteq ToEnter, ToTake' \subseteq ToTake,
           ToBegin' \subseteq ToBegin, ToEnd' \subseteq ToEnd, ToSettle' \subseteq ToSettle,
           \/ ToTake' # ToTake /\ Stage' <= Stage + 1
           \/ Stage' < Stage
           \/ /\ Stage' = Stage
              /\ \/ ToPlace' # ToPlace \/ ToEnter' # ToEnter \/ ToBegin' # ToBegin
                 \/ ToEnd' # ToEnd \/ ToSettle' # ToSettle
    PROVE  Left' < Left
  <1>1. ASSUME NEW S \in SUBSET Jobs, NEW T \in SUBSET S
        PROVE  /\ Cardinality(T) \in Nat /\ Cardinality(S) \in Nat
               /\ Cardinality(T) <= Cardinality(S)
               /\ T # S => Cardinality(T) < Cardinality(S)
    BY JobsCount
  <1>2. /\ ToPlace \in SUBSET Jobs /\ ToEnter \in SUBSET Jobs /\ ToTake \in SUBSET Jobs
        /\ ToBegin \in SUBSET Jobs /\ ToEnd \in SUBSET Jobs /\ ToSettle \in SUBSET Jobs
        /\ Stage \in 0..4
    BY LeftSets
  <1>3. Stage' \in 0..4
    BY DEF TypeOK, Stage, PC, Ended
  <1>4. /\ Cardinality(ToPlace') \in Nat /\ Cardinality(ToPlace) \in Nat
        /\ Cardinality(ToPlace') <= Cardinality(ToPlace)
        /\ ToPlace' # ToPlace => Cardinality(ToPlace') < Cardinality(ToPlace)
    BY <1>1, <1>2
  <1>5. /\ Cardinality(ToEnter') \in Nat /\ Cardinality(ToEnter) \in Nat
        /\ Cardinality(ToEnter') <= Cardinality(ToEnter)
        /\ ToEnter' # ToEnter => Cardinality(ToEnter') < Cardinality(ToEnter)
    BY <1>1, <1>2
  <1>6. /\ Cardinality(ToTake') \in Nat /\ Cardinality(ToTake) \in Nat
        /\ Cardinality(ToTake') <= Cardinality(ToTake)
        /\ ToTake' # ToTake => Cardinality(ToTake') < Cardinality(ToTake)
    BY <1>1, <1>2
  <1>7. /\ Cardinality(ToBegin') \in Nat /\ Cardinality(ToBegin) \in Nat
        /\ Cardinality(ToBegin') <= Cardinality(ToBegin)
        /\ ToBegin' # ToBegin => Cardinality(ToBegin') < Cardinality(ToBegin)
    BY <1>1, <1>2
  <1>8. /\ Cardinality(ToEnd') \in Nat /\ Cardinality(ToEnd) \in Nat
        /\ Cardinality(ToEnd') <= Cardinality(ToEnd)
        /\ ToEnd' # ToEnd => Cardinality(ToEnd') < Cardinality(ToEnd)
    BY <1>1, <1>2
  <1>9. /\ Cardinality(ToSettle') \in Nat /\ Cardinality(ToSettle) \in Nat
        /\ Cardinality(ToSettle') <= Cardinality(ToSettle)
        /\ ToSettle' # ToSettle => Cardinality(ToSettle') < Cardinality(ToSettle)
    BY <1>1, <1>2
  <1>10. Left' = Cardinality(ToPlace') + Cardinality(ToEnter') + 2 * Cardinality(ToTake')
                 + Cardinality(ToBegin') + Cardinality(ToEnd') + Cardinality(ToSettle') + Stage'
    BY DEF Left
  <1> QED BY <1>2, <1>3, <1>4, <1>5, <1>6, <1>7, <1>8, <1>9, <1>10 DEF Left

\* Planning: every turn places the jobs of a batch, until there are none to place.
LEMMA PlanningShortens ==
    ASSUME SchedulerInv, SchedulerInv', Construct \/ PlaceBatch \/ PlanDone
    PROVE  Left' < Left
  <1> USE DEF SchedulerInv
  <1>1. status' = status /\ future' = future /\ rest' = rest
    BY DEF Construct, PlaceBatch, PlanDone
  <1>2. ToBegin' = ToBegin /\ ToEnd' = ToEnd /\ ToSettle' = ToSettle
    BY <1>1 DEF ToBegin, ToEnd, ToSettle
  <1>3. Planned' \subseteq Jobs /\ Todo' \subseteq Jobs
    BY DEF TypeOK, Planned, Todo
  <1>4. CASE Construct
    <2>1. Planned' = Planned /\ Todo' = Todo
      BY <1>4, PlannedUnchanged DEF Construct, Todo
    <2>2. Stage' < Stage /\ Unplanned
      BY <1>4 DEF Construct, Stage, Ended, Unplanned
    <2> QED BY <2>1, <2>2, <1>2, <1>3, LessLeft DEF ToPlace, ToEnter, ToTake
  <1>5. CASE PlaceBatch
    <2>1. Planned' = Planned \cup ready /\ ready # {} /\ pc = "plan" /\ pc' = "plan"
      BY <1>5, PlannedAppend DEF PlaceBatch, TypeOK
    <2>2. ready \cap Planned = {} /\ ready \subseteq Jobs
      BY <2>1 DEF PlanInv, TypeOK
    <2>3. ToPlace' = ToPlace \ ready /\ ready \subseteq ToPlace
      BY <2>1, <2>2 DEF ToPlace, Unplanned
    <2>4. ToPlace' \subseteq ToPlace /\ ToPlace' # ToPlace
      BY <2>1, <2>3
    <2>5. ToEnter' = ToEnter /\ ToTake' = ToTake /\ Stage' = Stage
      BY <2>1 DEF ToEnter, ToTake, Unplanned, Stage
    <2> QED BY <2>4, <2>5, <1>2, LessLeft
  <1>6. CASE PlanDone
    <2>1. Stage' < Stage /\ Unplanned
      BY <1>6 DEF PlanDone, Stage, Ended, Unplanned
    <2>2. pc' = "loop"
      BY <1>6 DEF PlanDone
    <2> QED BY <2>1, <2>2, <1>2, <1>3, LessLeft DEF ToPlace, ToEnter, ToTake, Unplanned
  <1> QED BY <1>4, <1>5, <1>6

\* Entering a batch, which is not empty, leaves fewer to enter.
LEMMA EnterBatchShortens ==
    ASSUME SchedulerInv, SchedulerInv', EnterBatch PROVE Left' < Left
  <1> USE DEF SchedulerInv
  <1>1. /\ Planned = rest' \cup Planned' /\ rest' = batches[1] /\ 1 \in DOMAIN batches
    BY PlannedTail DEF EnterBatch, TypeOK
  <1>2. rest' # {} /\ rest' \cap Planned' = {}
    BY <1>1 DEF OrderInv
  <1>3. /\ pc = "loop" /\ pc' = "loop" /\ rest = {}
        /\ status' = status /\ future' = future
    BY DEF EnterBatch
  <1>4. ToEnter' \subseteq ToEnter /\ ToEnter' # ToEnter /\ ToTake' = ToTake
    BY <1>1, <1>2, <1>3 DEF ToEnter, ToTake, Todo, Unplanned
  <1>5. ToPlace' = ToPlace /\ Stage' = Stage
        /\ ToBegin' = ToBegin /\ ToEnd' = ToEnd /\ ToSettle' = ToSettle
    BY <1>3 DEF ToPlace, Unplanned, Stage, ToBegin, ToEnd, ToSettle
  <1> QED BY <1>4, <1>5, LessLeft

\* A chunk is not empty, and none of its jobs is taken, begun or settled again.
LEMMA TakeChunkShortens ==
    ASSUME SchedulerInv, SchedulerInv', TakeChunk PROVE Left' < Left
  <1> USE DEF SchedulerInv
  <1>1. PICK c \in SUBSET rest :
         /\ IsNextChunk(c)
         /\ rest' = rest \ c
         /\ chunk' = {j \in c : Runnable(j)}
         /\ status' = [j \in Jobs |-> IF j \notin c THEN status[j]
                                      ELSE IF Runnable(j) THEN "running" ELSE "skipped"]
         /\ future' = [j \in Jobs |-> IF j \in chunk' THEN "submitted" ELSE future[j]]
    BY DEF TakeChunk
  <1>2. /\ pc = "loop" /\ pc' = "pool" /\ rest # {} /\ rest \subseteq Jobs
        /\ Planned' = Planned /\ Acceptable
    BY PlannedUnchanged DEF TakeChunk, TypeOK, PlanInv
  <1>3. c # {}
    <2>1. limit >= 1 /\ limit \in Nat
      BY <1>2, SchedulerAssumption DEF Acceptable, TypeOK
    <2> QED BY <2>1, <1>1, <1>2, FS_EmptySet DEF IsNextChunk
  <1>4. ToTake' = ToTake \ c /\ c \subseteq ToTake
    BY <1>1, <1>2 DEF ToTake, Todo, Unplanned, OrderInv
  <1>5. ToTake' \subseteq ToTake /\ ToTake' # ToTake
    BY <1>3, <1>4
  <1>6. ToPlace' = ToPlace /\ ToEnter' = ToEnter /\ Stage = 1 /\ Stage' = 2
    BY <1>2 DEF ToPlace, ToEnter, Unplanned, Stage, Ended
  <1>7. ASSUME NEW j \in c
        PROVE  status[j] \in {"queued", "skipped"} /\ j \in Jobs /\ future[j] = "none"
    BY <1>1, <1>2 DEF LoopInv, StatusInv, Todo
  <1>8. ASSUME NEW j \in c, status[j] = "skipped" PROVE ~Runnable(j)
    BY <1>7, <1>8 DEF StatusInv, Runnable, Lost
  <1>9. ToBegin' \subseteq ToBegin /\ ToEnd' \subseteq ToEnd
    BY <1>1, <1>7 DEF ToBegin, ToEnd, Finished, Results
  <1>10. ToSettle' \subseteq ToSettle
    BY <1>1, <1>7, <1>8 DEF ToSettle, Terminal
  <1> QED BY <1>5, <1>6, <1>9, <1>10, LessLeft

\* Threads and futures: a job begins, ends and is settled once.
LEMMA JobShortens ==
    ASSUME SchedulerInv, SchedulerInv', NEW j \in Jobs, Thread(j) \/ Collect(j)
    PROVE  Left' < Left
  <1> USE DEF SchedulerInv
  <1>1. pc' = pc /\ batches' = batches /\ rest' = rest
    BY DEF Thread, Begin, End, Collect
  <1>2. ToPlace' = ToPlace /\ ToEnter' = ToEnter /\ ToTake' = ToTake /\ Stage' = Stage
    BY <1>1, PlannedUnchanged DEF ToPlace, ToEnter, ToTake, Todo, Unplanned, Stage
  <1>3. future \in [Jobs -> Future] /\ status \in [Jobs -> Status]
    BY DEF TypeOK
  <1>4. CASE Begin(j)
    <2>1. j \in ToBegin /\ j \notin ToBegin' /\ ToBegin' \subseteq ToBegin
      BY <1>3, <1>4 DEF Begin, ToBegin
    <2>2. ToEnd' = ToEnd /\ ToSettle' = ToSettle
      BY <1>3, <1>4 DEF Begin, ToEnd, ToSettle, Finished, Results
    <2> QED BY <2>1, <2>2, <1>2, LessLeft
  <1>5. CASE End(j)
    <2>1. j \in ToEnd /\ j \notin ToEnd' /\ ToEnd' \subseteq ToEnd
      BY <1>3, <1>5 DEF End, ToEnd, Finished, Results
    <2>2. ToBegin' = ToBegin /\ ToSettle' = ToSettle
      BY <1>3, <1>5 DEF End, ToBegin, ToSettle, Finished, Results
    <2> QED BY <2>1, <2>2, <1>2, LessLeft
  <1>6. CASE Collect(j)
    <2>1. status[j] = "running"
      BY <1>6 DEF Collect, NextToCollect, LoopInv
    <2>2. PICK s \in {"succeeded", "failed"} : status' = [status EXCEPT ![j] = s]
      BY <1>6 DEF Collect, Coerce
    <2>3. j \in ToSettle /\ j \notin ToSettle' /\ ToSettle' \subseteq ToSettle
      BY <1>3, <2>1, <2>2 DEF ToSettle, Terminal
    <2>4. ToBegin' = ToBegin /\ ToEnd' = ToEnd
      BY <1>6 DEF Collect, ToBegin, ToEnd
    <2> QED BY <2>3, <2>4, <1>2, LessLeft
  <1> QED BY <1>4, <1>5, <1>6 DEF Thread

\* A pool that is left is not entered again without a chunk.
LEMMA ControlShortens ==
    ASSUME SchedulerInv, SchedulerInv',
           (\E j \in Jobs : CollectRaised(j)) \/ Unwind \/ Propagate \/ Return
    PROVE  Left' < Left
  <1> USE DEF SchedulerInv
  <1>1. /\ batches' = batches /\ rest' = rest /\ future' = future
        /\ pc \in {"pool", "unwind", "loop"} /\ pc' \in {"unwind", "crashed", "loop", "done"}
        /\ pc = "pool" \/ pc' \in Ended
        /\ pc' \in {"unwind", "loop"} => pc = "pool"
    BY DEF CollectRaised, Unwind, Propagate, Return, Ended
  <1>2. ToPlace' = ToPlace /\ ToEnter' = ToEnter /\ ToTake' = ToTake
    BY <1>1, PlannedUnchanged DEF ToPlace, ToEnter, ToTake, Todo, Unplanned
  <1>3. Stage' < Stage
    BY <1>1 DEF Stage, Ended
  <1>4. ToBegin' = ToBegin /\ ToEnd' = ToEnd
    BY <1>1 DEF ToBegin, ToEnd
  <1>5. \A j \in Jobs : status'[j] = status[j] \/ status'[j] = "skipped"
    BY DEF CollectRaised, Unwind, Propagate, Return, TypeOK
  <1>6. ToSettle' \subseteq ToSettle
    BY <1>5 DEF ToSettle, Terminal
  <1> QED BY <1>2, <1>3, <1>4, <1>6, LessLeft

LEMMA StepShortens == SchedulerInv /\ [Next]_vars => [Left' < Left]_vars
  <1> SUFFICES ASSUME SchedulerInv, Next PROVE Left' < Left \/ UNCHANGED vars
    OBVIOUS
  <1>1. SchedulerInv'
    BY NextInv
  <1> QED BY <1>1, PlanningShortens, EnterBatchShortens, TakeChunkShortens, JobShortens,
             ControlShortens
          DEF Next, Schedule, Run, Stopped

\* Whatever a pipeline asks for, its run takes a number of steps that the number of its
\* jobs gives: what is left of Termination is that the threads keep running and the
\* executors return.
THEOREM RunHalts == Spec => RunShortens
  <1>1. SchedulerInv => StepsCounted
    BY LeftBounded DEF SchedulerInv
  <1> QED BY <1>1, StepShortens, Shape, PTL DEF Spec, RunShortens

-----------------------------------------------------------------------------
(* The scheduler implements DagExecution *)

\* The abstract state of a job: what status says, but queued until its thread runs.
AbsState == [j \in Jobs |-> IF status[j] = "running" /\ future[j] = "submitted"
                           THEN "queued" ELSE status[j]]

\* The instance reads graphs and counts the way this module does.
LEMMA SameCount == ASSUME NEW S PROVE Promise!Cardinality(S) = Cardinality(S)
  BY Zenon DEF Promise!Cardinality, Cardinality

LEMMA SameGraphs ==
    ASSUME NEW g
    PROVE  (Promise!HasUnknown(g) <=> HasUnknown(g)) /\ (Promise!HasCycle(g) <=> HasCycle(g))
  BY Zenon DEF Promise!HasUnknown, HasUnknown, Promise!HasCycle, HasCycle, Promise!Knotted, Knotted

\* Launching a thread is the abstract start of its job.
LEMMA BeginStarts ==
    ASSUME SchedulerInv, NEW j \in Jobs, Begin(j)
    PROVE  Promise!Start(j) /\ UNCHANGED <<needs, limit>>
  <1>1. status' = status /\ future' = [future EXCEPT ![j] = "executing"]
        /\ future[j] = "submitted" /\ UNCHANGED <<needs, limit>>
    BY DEF Begin, config
  <1>2. status[j] = "running" /\ status \in [Jobs -> Status] /\ future \in [Jobs -> Future]
    BY <1>1 DEF SchedulerInv, TypeOK, StatusInv, Status, Terminal
  <1>3. AbsState[j] = "queued" /\ AbsState' = [AbsState EXCEPT ![j] = "running"]
    BY <1>1, <1>2 DEF AbsState
  <1>4. needs[j] \subseteq {d \in Jobs : AbsState[d] = "succeeded"}
    BY <1>1 DEF SchedulerInv, StatusInv, AbsState
  <1>5. Cardinality({d \in Jobs : AbsState[d] = "running"}) < limit
    <2> DEFINE R == {d \in Jobs : AbsState[d] = "running"}
    <2>1. R \in SUBSET (chunk \ {j}) /\ j \in chunk
      BY <1>1, <1>2 DEF SchedulerInv, LoopInv, AbsState
    <2>2. IsFiniteSet(chunk) /\ IsFiniteSet(chunk \ {j}) /\ limit \in Nat
      BY JobsAssumption, SchedulerAssumption, FS_Subset DEF SchedulerInv, TypeOK
    <2>3. Cardinality(chunk \ {j}) = Cardinality(chunk) - 1
      BY <2>1, <2>2, FS_RemoveElement
    <2>4. Cardinality(R) <= Cardinality(chunk \ {j}) /\ Cardinality(R) \in Nat
          /\ Cardinality(chunk) \in Nat
      BY <2>1, <2>2, FS_Subset, FS_CardinalityType
    <2>5. Cardinality(R) < limit
      BY <2>2, <2>3, <2>4 DEF SchedulerInv, LoopInv
    <2> QED BY <2>5
  <1>6. Promise!Cardinality(Promise!In("running")) < limit
    BY <1>5, SameCount DEF Promise!In, AbsState
  <1> QED BY <1>1, <1>3, <1>4, <1>6 DEF Promise!Start, Promise!In, AbsState

\* Collecting a future is the abstract finish of its job.
LEMMA CollectFinishes ==
    ASSUME SchedulerInv, NEW j \in Jobs, Collect(j)
    PROVE  Promise!Finish(j) /\ UNCHANGED <<needs, limit>>
  <1>1. PICK s \in {"succeeded", "failed"} : status' = [status EXCEPT ![j] = s]
    BY DEF Collect, Coerce
  <1>2. future' = future /\ future[j] \in Results /\ j \in chunk /\ UNCHANGED <<needs, limit>>
    BY DEF Collect, NextToCollect, config
  <1>3. status[j] = "running" /\ status \in [Jobs -> Status]
    BY <1>2 DEF SchedulerInv, TypeOK, LoopInv
  <1>4. AbsState[j] = "running" /\ AbsState' = [AbsState EXCEPT ![j] = s]
    BY <1>1, <1>2, <1>3 DEF AbsState, Results
  <1> QED BY <1>2, <1>4 DEF Promise!Finish, AbsState

\* Propagating a failure gives up the descendants.
LEMMA PropagateSkips ==
    ASSUME SchedulerInv, Propagate
    PROVE  (\E S \in SUBSET Jobs : Promise!Skip(S)) /\ UNCHANGED <<needs, limit>>
  <1> DEFINE D == Descendants(failures)
  <1>1. /\ status' = [j \in Jobs |-> IF j \in D THEN "skipped" ELSE status[j]]
        /\ future' = future /\ UNCHANGED <<needs, limit>>
    BY DEF Propagate, config
  <1>2. failures \in SUBSET Jobs /\ \A j \in failures : status[j] = "failed"
    BY DEF SchedulerInv, TypeOK, LoopInv
  <1>3. ASSUME NEW j \in D
        PROVE  j \in Jobs /\ status[j] = "queued" /\ needs[j] \cap (failures \cup D) # {}
    BY <1>2, DescendantsHaveReason
  <1>4. D \subseteq {j \in Jobs : AbsState[j] = "queued"}
    BY <1>3 DEF AbsState
  <1>5. failures \subseteq {j \in Jobs : AbsState[j] = "failed"}
    BY <1>2 DEF AbsState
  <1>6. AbsState' = [j \in Jobs |-> IF j \in D THEN "skipped" ELSE AbsState[j]]
    BY <1>1, <1>3 DEF AbsState
  <1>7. D \in SUBSET Jobs
    BY <1>3
  <1> HIDE DEF D
  <1> QED BY <1>1, <1>3, <1>4, <1>5, <1>6, <1>7 DEF Promise!Skip, Promise!In, AbsState

\* Taking a chunk gives up those of its jobs that lost a need; the others stay
\* queued until their threads run.
LEMMA TakeChunkSkips ==
    ASSUME SchedulerInv, TakeChunk
    PROVE  (\E S \in SUBSET Jobs : Promise!Skip(S)) /\ UNCHANGED <<needs, limit>>
  <1> DEFINE S == {j \in Jobs : status[j] = "queued" /\ status'[j] = "skipped"}
  <1>1. PICK c \in SUBSET rest :
         /\ chunk' = {j \in c : Runnable(j)}
         /\ status' = [j \in Jobs |-> IF j \notin c THEN status[j]
                                      ELSE IF Runnable(j) THEN "running" ELSE "skipped"]
         /\ future' = [j \in Jobs |-> IF j \in chunk' THEN "submitted" ELSE future[j]]
    BY DEF TakeChunk
  <1>2. UNCHANGED <<needs, limit>> /\ pc = "loop" /\ chunk = {}
    BY DEF TakeChunk, config, SchedulerInv, LoopInv
  <1>3. SchedulerInv'
    BY TakeChunkInv
  <1>4. ASSUME NEW j \in c
        PROVE  /\ status[j] \in {"queued", "skipped"} /\ j \in Jobs /\ future[j] = "none"
               /\ \A d \in needs[j] : d \notin c
    BY <1>1, <1>2, <1>4 DEF SchedulerInv, LoopInv, TypeOK, StatusInv, OrderInv, Todo
  <1>5. ASSUME NEW j \in S PROVE \E d \in needs[j] : d \in Jobs /\ Lost(d)
    <2>1. j \in c
      BY <1>1, <1>5
    <2>2. PICK d \in needs[j] : d \in Jobs /\ Lost(d)'
      BY <1>2, <1>3, <1>5 DEF SchedulerInv, StatusInv
    <2>3. d \notin c
      BY <2>1, <1>4
    <2>4. status'[d] = status[d]
      BY <1>1, <2>2, <2>3
    <2> QED BY <2>2, <2>4 DEF Lost
  <1>6. ASSUME NEW j \in Jobs
        PROVE  /\ AbsState'[j] = IF j \in S THEN "skipped" ELSE AbsState[j]
               /\ j \in S => AbsState[j] = "queued"
    <2>1. CASE j \in c
      <3>1. /\ status'[j] = "running" => future'[j] = "submitted"
            /\ status'[j] \in {"running", "skipped"}
            /\ status'[j] = "running" => Runnable(j)
        BY <2>1, <1>1, <1>4
      <3>2. Runnable(j) => status[j] = "queued"
        BY <2>1, <1>4 DEF Runnable, SchedulerInv, StatusInv, Lost
      <3> QED BY <2>1, <3>1, <3>2, <1>4 DEF AbsState
    <2>2. CASE j \notin c
      <3>1. status'[j] = status[j] /\ future'[j] = future[j]
        BY <2>2, <1>1
      <3>2. j \notin S
        BY <3>1
      <3> QED BY <3>1, <3>2 DEF AbsState
    <2> QED BY <2>1, <2>2
  <1>7. AbsState' = [j \in Jobs |-> IF j \in S THEN "skipped" ELSE AbsState[j]]
    BY <1>6 DEF AbsState
  <1>8. S \subseteq {j \in Jobs : AbsState[j] = "queued"}
    BY <1>6
  <1>9. \A j \in S : needs[j] \cap ({d \in Jobs : AbsState[d] = "failed"}
                                   \cup {d \in Jobs : AbsState[d] = "skipped"} \cup S) # {}
    BY <1>5 DEF Lost, AbsState
  <1>10. S \in SUBSET Jobs
    OBVIOUS
  <1> HIDE DEF S
  <1> QED BY <1>2, <1>7, <1>8, <1>9, <1>10 DEF Promise!Skip, Promise!In, AbsState

\* Every behaviour of the scheduler is one of the abstract DAG execution.
THEOREM Implementation == Spec => ImplementsDagExecution
  <1>1. Init => Promise!Init
    BY DEF Init, Promise!Init
  <1>2. SchedulerInv /\ [Next]_vars => [Promise!Next]_(Promise!vars)
    <2> SUFFICES ASSUME SchedulerInv, [Next]_vars
                 PROVE  Promise!Next \/ UNCHANGED <<needs, limit, AbsState>>
      BY DEF Promise!vars, AbsState
    <2>1. ASSUME pc \notin {"construct", "refused"} PROVE ~Promise!HasUnknown(needs) /\ ~Promise!HasCycle(needs)
      BY <2>1, SameGraphs DEF SchedulerInv, PlanInv, Acceptable
    <2>2. CASE TakeChunk
      <3>1. \E S \in SUBSET Jobs : Promise!Skip(S)
        BY <2>2, TakeChunkSkips
      <3>2. pc = "loop" /\ UNCHANGED <<needs, limit>>
        BY <2>2, TakeChunkSkips DEF TakeChunk
      <3> QED BY <2>1, <3>1, <3>2 DEF Promise!Next
    <2>3. CASE Propagate
      <3>2. \E S \in SUBSET Jobs : Promise!Skip(S)
        BY <2>3, PropagateSkips
      <3>3. pc = "pool" /\ UNCHANGED <<needs, limit>>
        BY <2>3, PropagateSkips DEF Propagate
      <3> QED BY <2>1, <3>2, <3>3 DEF Promise!Next
    <2>4. CASE \E j \in Jobs : Collect(j)
      BY <2>1, <2>4, CollectFinishes DEF Promise!Next, Collect
    <2>5. CASE \E j \in Jobs : Begin(j)
      <3>1. pc \notin {"construct", "refused"}
        BY <2>5 DEF Begin, SchedulerInv, PlanInv, StatusInv
      <3> QED BY <2>1, <2>5, <3>1, BeginStarts DEF Promise!Next
    <2>6. CASE \E j \in Jobs : End(j)
      <3>1. PICK j \in Jobs, r \in Finished :
              future[j] = "executing" /\ future' = [future EXCEPT ![j] = r]
        BY <2>6 DEF End
      <3>2. status' = status /\ UNCHANGED <<needs, limit>> /\ r # "submitted"
            /\ future \in [Jobs -> Future]
        BY <2>6 DEF End, config, Finished, Results, SchedulerInv, TypeOK
      <3>3. AbsState' = AbsState
        BY <3>1, <3>2 DEF AbsState
      <3> QED BY <3>2, <3>3
    <2>7. CASE UNCHANGED <<needs, limit, status, future>>
      BY <2>7 DEF AbsState
    <2> QED BY <2>2, <2>3, <2>4, <2>5, <2>6, <2>7
            DEF Next, Schedule, Run, Thread, Construct, PlaceBatch, PlanDone, EnterBatch,
                CollectRaised, Unwind, Return, Stopped, vars, config
  <1> QED BY <1>1, <1>2, Shape, PTL DEF Spec, ImplementsDagExecution, Promise!Spec

-----------------------------------------------------------------------------
(* The search, step by step, within the scheduler *)

\* The theorems about the search are about the search of this scheduler.
LEMMA SameStart == Search!Start => SearchProofs!Start
  BY DEF Search!Start, SearchProofs!Start

LEMMA SameInv == SearchProofs!SearchInv <=> Search!SearchInv
  BY Zenon DEF SearchProofs!SearchInv, Search!SearchInv, SearchProofs!TypeOK, Search!TypeOK,
        SearchProofs!StackIsPath, Search!StackIsPath,
        SearchProofs!NothingSkipped, Search!NothingSkipped,
        SearchProofs!VisitedIsClosed, Search!VisitedIsClosed,
        SearchProofs!Knotted, Search!Knotted

LEMMA SamePath == SearchProofs!CycleIsReal <=> Search!CycleIsReal
  BY Zenon DEF SearchProofs!CycleIsReal, Search!CycleIsReal, SearchProofs!Ends, Search!Ends

LEMMA SameSteps == Search!Search => SearchProofs!Search
  BY Zenon DEF SearchProofs!Search, Search!Search, SearchProofs!Root, Search!Root,
        SearchProofs!Look, Search!Look, SearchProofs!Leave, Search!Leave,
        SearchProofs!Exhausted, Search!Exhausted, SearchProofs!Push, Search!Push,
        SearchProofs!IsFirst, Search!IsFirst, SearchProofs!Top, Search!Top,
        SearchProofs!PathFrom, Search!PathFrom, SearchProofs!AllLookedAt, Search!AllLookedAt,
        SearchProofs!Unmarked, Search!Unmarked, SearchProofs!Remembered, Search!Remembered

LEMMA SearchInit == SearchProofs!Init => SearchProofs!SearchInv
  BY JobsAssumption, SearchProofs!InitInv DEF SearchProofs!IsFiniteSet, IsFiniteSet

LEMMA SearchStep ==
    /\ SearchProofs!SearchInv /\ [SearchProofs!Next]_(SearchProofs!vars)
         => SearchProofs!SearchInv'
    /\ SearchProofs!SearchInv /\ SearchProofs!CycleIsReal
         /\ [SearchProofs!Next]_(SearchProofs!vars) => SearchProofs!CycleIsReal'
  BY JobsAssumption, SearchProofs!NextInv, SearchProofs!NextReal
     DEF SearchProofs!IsFiniteSet, IsFiniteSet

\* What holds of the search within the scheduler: its own invariant, what it returns,
\* and the counts that planning starts from.
CheckedInv ==
    /\ needs \in Graphs
    /\ SearchHolds /\ ReportedCycleIsReal
    /\ found = "none" => visited = Jobs

LEMMA KnownGraph ==
    ASSUME needs \in Graphs, ~HasUnknown(needs) PROVE needs \in [Jobs -> SUBSET Jobs]
  BY SchedulerAssumption DEF AllGraphs, HasUnknown

LEMMA CheckedInitInv == CheckedInit => CheckedInv
  <1> SUFFICES ASSUME CheckedInit PROVE CheckedInv
    OBVIOUS
  <1>1. needs \in Graphs /\ Search!Start
    BY DEF CheckedInit, Init
  <1>2. ASSUME ~HasUnknown(needs) PROVE Search!SearchInv
    <2>1. SearchProofs!Init
      BY <1>1, <1>2, KnownGraph, SameStart DEF SearchProofs!Init
    <2> QED BY <2>1, SearchInit, SameInv
  <1>3. found = "searching"
    BY <1>1 DEF Search!Start
  <1>4. Search!CycleIsReal
    BY <1>3 DEF Search!CycleIsReal
  <1> QED BY <1>1, <1>2, <1>3, <1>4 DEF CheckedInv, SearchHolds, ReportedCycleIsReal

LEMMA CheckedNextInv == CheckedInv /\ [CheckedNext]_checkedVars => CheckedInv'
  <1> SUFFICES ASSUME CheckedInv, [CheckedNext]_checkedVars PROVE CheckedInv'
    OBVIOUS
  <1>1. CASE SearchOn
    <2>1. Search!Search /\ needs' = needs /\ ~HasUnknown(needs) /\ Search!SearchInv
      BY <1>1 DEF SearchOn, vars, config, Searchable, CheckedInv, SearchHolds
    <2>2. SearchProofs!Search /\ SearchProofs!SearchInv /\ SearchProofs!CycleIsReal
      BY <2>1, SameSteps, SameInv, SamePath DEF CheckedInv, ReportedCycleIsReal
    <2>3. SearchProofs!Next
      BY <2>2 DEF SearchProofs!Next
    <2>4. SearchProofs!SearchInv' /\ SearchProofs!CycleIsReal'
      BY <2>2, <2>3, SearchStep
    <2>5. Search!SearchInv' /\ Search!CycleIsReal'
      BY <2>4, SameInv, SamePath, PTL
    <2>6. found' = "none" => visited' = Jobs
      BY <2>1 DEF Search!Search, Search!Root, Search!Look, Search!Leave, Search!Exhausted
    <2> QED BY <2>1, <2>5, <2>6 DEF CheckedInv, SearchHolds, ReportedCycleIsReal
  <1>2. CASE UNCHANGED <<needs, searching>>
    BY <1>2 DEF CheckedInv, searching, SearchHolds, ReportedCycleIsReal, HasUnknown,
                Search!SearchInv, Search!TypeOK, Search!StackIsPath, Search!NothingSkipped,
                Search!VisitedIsClosed, Search!Knotted, Search!CycleIsReal, Search!Ends
  <1> QED BY <1>1, <1>2
          DEF CheckedNext, CheckedSchedule, CheckedThread, checkedVars, vars, config,
              RefuseEarly, Decide, Stopped, Run, Thread, PlaceBatch, PlanDone, EnterBatch,
              TakeChunk, Collect, CollectRaised, Unwind, Propagate, Return, Begin, End

\* The search, within the scheduler, is where its stack says.
THEOREM SearchSound == CheckedSpec => []SearchHolds
  <1>1. CheckedInv => SearchHolds
    BY DEF CheckedInv
  <1> QED BY <1>1, CheckedInitInv, CheckedNextInv, PTL DEF CheckedSpec

\* The path a pipeline is refused with is a cycle of its jobs.
THEOREM RefusedForCycle == CheckedSpec => []ReportedCycleIsReal
  <1>1. CheckedInv => ReportedCycleIsReal
    BY DEF CheckedInv
  <1> QED BY <1>1, CheckedInitInv, CheckedNextInv, PTL DEF CheckedSpec

\* The search passes acyclic graphs only ...
LEMMA PassedIsAcyclic ==
    ASSUME CheckedInv, Searchable, found = "none" PROVE Acceptable
  <1>1. Search!SearchInv /\ visited = Jobs
    BY DEF CheckedInv, SearchHolds, Searchable
  <1>2. \A S \in SUBSET Jobs : ~Knotted(needs, S)
    BY <1>1 DEF Search!SearchInv, Search!VisitedIsClosed, Search!Knotted, Knotted
  <1> QED BY <1>2 DEF HasCycle, Acceptable, Searchable

\* ... and refuses cyclic ones only: the jobs of the path are knotted.
LEMMA RefusedIsCyclic ==
    ASSUME CheckedInv, Searchable, found = "cycle" PROVE HasCycle(needs)
  <1> DEFINE n == Len(cycle)
             S == {cycle[i] : i \in 1..(n - 1)}
  <1>1. cycle \in Seq(Jobs) /\ n \in Nat
    BY DEF CheckedInv, SearchHolds, Searchable, Search!SearchInv, Search!TypeOK
  <1>2. /\ n > 1 /\ cycle[1] = cycle[n]
        /\ \A i \in 1..(n - 1) : cycle[i + 1] \in needs[cycle[i]]
    BY DEF CheckedInv, ReportedCycleIsReal, Search!CycleIsReal, Search!Ends
  <1>3. S \in SUBSET Jobs /\ cycle[1] \in S
    BY <1>1, <1>2
  <1>4. ASSUME NEW i \in 1..(n - 1) PROVE needs[cycle[i]] \cap S # {}
    <2>1. CASE i = n - 1
      BY <2>1, <1>1, <1>2, <1>3
    <2>2. CASE i # n - 1
      <3>1. i + 1 \in 1..(n - 1)
        BY <2>2, <1>1
      <3> QED BY <3>1, <1>2, <1>4
    <2> QED BY <2>1, <2>2
  <1>5. S # {} /\ \A j \in S : needs[j] \cap S # {}
    BY <1>3, <1>4
  <1> HIDE DEF S
  <1> QED BY <1>3, <1>5 DEF HasCycle, Knotted

\* The search adds up to the one decision of JobScheduler, so that all that is
\* proved of JobScheduler holds of the scheduler with its search.
THEOREM SearchIsDecision == CheckedSpec => ImplementsScheduler
  <1>1. CheckedInit => Init
    BY DEF CheckedInit
  <1>2. CheckedInv /\ [CheckedNext]_checkedVars => [Next]_vars
    <2> SUFFICES ASSUME CheckedInv, [CheckedNext]_checkedVars PROVE [Next]_vars
      OBVIOUS
    <2>1. CASE RefuseEarly
      <3>1. pc = "construct" /\ ~Acceptable /\ pc' = "refused"
            /\ UNCHANGED <<config, planning, batches, rest, chunk, failures, status, future>>
        BY <2>1 DEF RefuseEarly, Searchable, Acceptable
      <3>2. Construct
        BY <3>1 DEF Construct, planning
      <3> QED BY <3>2 DEF Next, Schedule
    <2>2. CASE Decide
      <3>1. /\ pc = "construct" /\ Searchable /\ found # "searching"
            /\ UNCHANGED <<config, indegree, batches, rest, chunk, failures, status, future>>
            /\ IF found = "none" THEN pc' = "plan" /\ ready' = {j \in Jobs : indegree[j] = 0}
                                 ELSE pc' = "refused" /\ UNCHANGED ready
        BY <2>2 DEF Decide
      <3>2. found \in {"none", "cycle"}
        BY <3>1 DEF CheckedInv, SearchHolds, Searchable, Search!SearchInv, Search!TypeOK
      <3>3. Acceptable <=> found = "none"
        BY <3>1, <3>2, PassedIsAcyclic, RefusedIsCyclic DEF Acceptable
      <3>4. Construct
        BY <3>1, <3>3 DEF Construct
      <3> QED BY <3>4 DEF Next, Schedule
    <2>3. CASE SearchOn
      BY <2>3 DEF SearchOn
    <2> QED BY <2>1, <2>2, <2>3
            DEF CheckedNext, CheckedSchedule, CheckedThread, checkedVars, Next, Schedule, Stopped
  <1> QED BY <1>1, <1>2, CheckedInitInv, CheckedNextInv, PTL
          DEF CheckedSpec, ImplementsScheduler, Spec

\* Plan, chunks, statuses and threads agree with the search in between, too.
THEOREM CheckedShape == CheckedSpec => []SchedulerInv
  BY SearchIsDecision, Shape, PTL DEF ImplementsScheduler

\* The scheduler with its search: what is left to search and what is left to run.
CheckedLeft == Left + SearchProofs!SearchLeft

MostCheckedSteps == MostSteps + SearchProofs!MostSearchSteps

CheckedRunShortens ==
    /\ [](CheckedLeft \in 0..MostCheckedSteps)
    /\ [][CheckedLeft' < CheckedLeft]_checkedVars

LEMMA SearchLeftCounts ==
    /\ SearchProofs!SearchCounted /\ SearchProofs!SearchCounted'
    /\ SearchProofs!MostSearchSteps \in Nat
  <1>1. SearchProofs!SearchCounted
    BY JobsAssumption, SearchProofs!SearchLeftBounded DEF SearchProofs!IsFiniteSet, IsFiniteSet
  <1>2. SearchProofs!SearchCounted'
    BY <1>1, PTL
  <1>3. SearchProofs!MostSearchSteps \in Nat
    BY JobsAssumption, SearchProofs!SearchLeftBounded DEF SearchProofs!IsFiniteSet, IsFiniteSet
  <1> QED BY <1>1, <1>2, <1>3

LEMMA SearchStepShortens ==
    ASSUME SearchProofs!SearchInv, SearchProofs!Search
    PROVE  SearchProofs!SearchLeft' < SearchProofs!SearchLeft
  BY JobsAssumption, SearchProofs!StepShortens DEF SearchProofs!IsFiniteSet, IsFiniteSet

LEMMA SumIsLess ==
    ASSUME NEW a \in Nat, NEW b \in Nat, NEW c \in Nat, NEW d \in Nat,
           (a < c /\ b = d) \/ (a = c /\ b < d)
    PROVE  a + b < c + d
  OBVIOUS

LEMMA CheckedStepShortens ==
    CheckedInv /\ SchedulerInv /\ SchedulerInv' /\ [Next]_vars /\ [CheckedNext]_checkedVars
      => [CheckedLeft' < CheckedLeft]_checkedVars
  <1> SUFFICES ASSUME CheckedInv, SchedulerInv, SchedulerInv', [Next]_vars, CheckedNext
               PROVE  CheckedLeft' < CheckedLeft \/ UNCHANGED checkedVars
    OBVIOUS
  <1>1. /\ Left \in Nat /\ Left' \in Nat
        /\ SearchProofs!SearchLeft \in Nat /\ SearchProofs!SearchLeft' \in Nat
    <2>1. TypeOK /\ TypeOK'
      BY DEF SchedulerInv
    <2>2. StepsCounted /\ MostSteps \in Nat
      BY <2>1, LeftBounded
    <2>3. StepsCounted'
      BY <2>1, LeftBounded, PTL
    <2> QED BY <2>2, <2>3, SearchLeftCounts DEF StepsCounted, SearchProofs!SearchCounted
  <1>2. CASE SearchOn
    <2>1. SearchProofs!Search /\ SearchProofs!SearchInv /\ UNCHANGED vars
      BY <1>2, SameSteps, SameInv DEF SearchOn, Searchable, CheckedInv, SearchHolds
    <2>2. SearchProofs!SearchLeft' < SearchProofs!SearchLeft
      BY <2>1, SearchStepShortens
    <2>3. Left' = Left
      BY <2>1, StillLeft
    <2>4. Left' + SearchProofs!SearchLeft' < Left + SearchProofs!SearchLeft
      BY <1>1, <2>2, <2>3, SumIsLess, Zenon
    <2> QED BY <2>4, Zenon DEF CheckedLeft
  <1>3. CASE UNCHANGED searching
    <2>1. SearchProofs!SearchLeft' = SearchProofs!SearchLeft
      BY <1>3 DEF searching, SearchProofs!SearchLeft, SearchProofs!ToEnter,
                  SearchProofs!ToLookAt, SearchProofs!ToLeave, SearchProofs!ToEnd
    <2>2. Left' < Left \/ UNCHANGED vars
      BY StepShortens
    <2>3. CASE UNCHANGED vars
      BY <1>3, <2>3 DEF checkedVars
    <2>4. CASE Left' < Left
      <3>1. Left' + SearchProofs!SearchLeft' < Left + SearchProofs!SearchLeft
        BY <1>1, <2>1, <2>4, SumIsLess, Zenon
      <3> QED BY <3>1, Zenon DEF CheckedLeft
    <2> QED BY <2>2, <2>3, <2>4
  <1> QED BY <1>2, <1>3 DEF CheckedNext, CheckedSchedule, CheckedThread, RefuseEarly, Decide

\* Also with the search, a run takes a number of steps that the number of its jobs
\* gives.
THEOREM CheckedRunHalts == CheckedSpec => CheckedRunShortens
  <1>1. CheckedInv /\ SchedulerInv => CheckedLeft \in 0..MostCheckedSteps
    BY LeftBounded, SearchLeftCounts
       DEF SchedulerInv, StepsCounted, SearchProofs!SearchCounted, CheckedLeft, MostCheckedSteps
  <1> QED BY <1>1, CheckedStepShortens, CheckedInitInv, CheckedNextInv, CheckedShape,
             SearchIsDecision, PTL
          DEF CheckedSpec, CheckedRunShortens, ImplementsScheduler, Spec

=============================================================================
