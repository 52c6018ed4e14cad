-------------------------- MODULE JobRunnerProofs --------------------------
(***************************************************************************)
(* Theorems about JobRunner, for any number of parallel jobs, any leftover *)
(* networks and any Docker calls that may fail.                            *)
(***************************************************************************)
EXTENDS JobRunner, FiniteSetTheorems, TLAPS

LEMMA InitInv == Init => RunnerInv
  <1> SUFFICES ASSUME Init PROVE RunnerInv
    OBVIOUS
  <1>1. TypeOK
    BY DEF Init, TypeOK, Networks
  <1>2. NetworksInv
    <2>1. \A n \in Networks : \A j \in Jobs : j \notin attached[n]
      BY RunnerAssumption DEF Init
    <2>2. \A n, m \in networks : Name(n) = Name(m) => n = m
      BY RunnerAssumption DEF Init, Name
    <2> QED BY <2>1, <2>2 DEF Init, NetworksInv
  <1>3. ASSUME NEW j \in Jobs PROVE JobInv(j) /\ CleanInv(j)
    <2>1. j \notin networks /\ 999 \notin Codes
      BY RunnerAssumption DEF Init
    <2> QED BY <2>1 DEF Init, JobInv, CleanInv, Before, Following, None
  <1> QED BY <1>1, <1>2, <1>3 DEF RunnerInv

-----------------------------------------------------------------------------
\* What a step of another job leaves of job k: its own state, and its network as long
\* as something is attached to it.
Undisturbed(k) ==
    /\ pc'[k] = pc[k] /\ container'[k] = container[k] /\ code'[k] = code[k]
    /\ holds'[k] = holds[k] /\ result'[k] = result[k]
    /\ attached'[k] = attached[k]
    /\ k \in networks' => k \in networks
    /\ k \in networks /\ attached[k] # {} => k \in networks'

LEMMA OthersKept ==
    ASSUME RunnerInv, NEW k \in Jobs, Undisturbed(k)
    PROVE  JobInv(k)' /\ (Faults[k] = {} => CleanInv(k)')
  <1>1. JobInv(k) /\ (Faults[k] = {} => CleanInv(k))
    BY DEF RunnerInv
  <1>2. JobInv(k)'
    BY <1>1 DEF Undisturbed, JobInv, Before, Following
  <1>3. ASSUME Faults[k] = {} PROVE CleanInv(k)'
    BY <1>1, <1>3 DEF Undisturbed, CleanInv, Decided, Following, Locals
  <1> QED BY <1>2, <1>3

\* So a step of job j keeps the invariant if it disturbs no other job and does right by
\* j and the networks.
LEMMA Kept ==
    ASSUME RunnerInv, NEW j \in Jobs,
           TypeOK', NetworksInv', JobInv(j)', Faults[j] = {} => CleanInv(j)',
           \A k \in Jobs \ {j} : Undisturbed(k)
    PROVE  RunnerInv'
  <1>1. ASSUME NEW k \in Jobs PROVE JobInv(k)' /\ (Faults[k] = {} => CleanInv(k)')
    BY OthersKept
  <1> QED BY <1>1 DEF RunnerInv

\* Only job j is attached to its network, besides the registry's container.
LEMMA Alone ==
    ASSUME RunnerInv, NEW j \in Jobs
    PROVE  /\ j \in Networks /\ attached[j] \subseteq {Registry, j}
           /\ \A n \in Networks : n # j => attached[n] \ {j} = attached[n]
  <1>1. TypeOK /\ j \in Networks
    BY DEF RunnerInv, Networks
  <1>2. \A n \in Networks : \A k \in Jobs : k \in attached[n] => n = k
    BY DEF RunnerInv, NetworksInv
  <1>3. \A n \in Networks : attached[n] \subseteq {Registry} \cup Jobs
    BY <1>1 DEF TypeOK
  <1>4. attached[j] \subseteq {Registry, j}
    BY <1>1, <1>2, <1>3
  <1>5. ASSUME NEW n \in Networks, n # j PROVE attached[n] \ {j} = attached[n]
    <2>1. j \notin attached[n]
      BY <1>2, <1>5
    <2> QED BY <2>1
  <1> QED BY <1>1, <1>4, <1>5

\* Detaching a container that is about not to run.
LEMMA Detached ==
    ASSUME RunnerInv, NEW j \in Jobs, NEW c \in {"exited", "removed"},
           container' = [container EXCEPT ![j] = c],
           attached' = [n \in Networks |-> attached[n] \ {j}],
           networks' = networks
    PROVE  /\ NetworksInv'
           /\ attached' \in [Networks -> SUBSET ({Registry} \cup Jobs)]
           /\ container' \in [Jobs -> {"none", "created", "running", "exited", "removed"}]
           /\ attached'[j] = attached[j] \ {j} /\ container'[j] = c
           /\ \A k \in Jobs \ {j} : attached'[k] = attached[k] /\ container'[k] = container[k]
  <1>1. TypeOK /\ NetworksInv /\ j \in Networks /\ Jobs \subseteq Networks
    BY DEF RunnerInv, Networks
  <1>2. /\ attached' \in [Networks -> SUBSET ({Registry} \cup Jobs)]
        /\ container' \in [Jobs -> {"none", "created", "running", "exited", "removed"}]
        /\ attached'[j] = attached[j] \ {j} /\ container'[j] = c
    BY <1>1 DEF TypeOK
  <1>3. \A k \in Jobs \ {j} : attached'[k] = attached[k] /\ container'[k] = container[k]
    BY <1>1, Alone DEF TypeOK
  <1>4. \A n \in Networks : \A k \in Jobs :
            k \in attached'[n] => n = k /\ container'[k] = "running"
    BY <1>1, <1>3 DEF NetworksInv
  <1>5. \A n \in Networks \ networks' : attached'[n] = {}
    BY <1>1 DEF NetworksInv
  <1>6. \A n, m \in networks' : Name(n) = Name(m) => n = m
    BY <1>1 DEF NetworksInv
  <1> QED BY <1>2, <1>3, <1>4, <1>5, <1>6 DEF NetworksInv

\* Removing networks that nothing is attached to.
LEMMA Dropped ==
    ASSUME RunnerInv, NEW j \in Jobs, NEW n, Drop(j, n), UNCHANGED <<attached, container>>
    PROVE  /\ NetworksInv' /\ networks' \subseteq networks
           /\ \A m \in networks : attached[m] # {} => m \in networks'
           /\ \A k \in Jobs : attached'[k] = attached[k] /\ container'[k] = container[k]
  <1>1. /\ networks' \subseteq networks /\ networks \subseteq Networks
        /\ \A m \in networks : attached[m] # {} => m \in networks'
    BY DEF Drop, Unattached, RunnerInv, TypeOK
  <1>2. NetworksInv
    BY DEF RunnerInv
  <1>3. \A m \in Networks \ networks' : attached'[m] = {}
    BY <1>1, <1>2 DEF NetworksInv
  <1>4. \A m, l \in networks' : Name(m) = Name(l) => m = l
    BY <1>1, <1>2 DEF NetworksInv
  <1>5. \A m \in Networks : \A k \in Jobs :
            k \in attached'[m] => m = k /\ container'[k] = "running"
    BY <1>2 DEF NetworksInv
  <1> QED BY <1>1, <1>3, <1>4, <1>5 DEF NetworksInv

-----------------------------------------------------------------------------
LEMMA Distinct ==
    /\ None \notin Codes \cup {Failed, Raised, TimedOut}
    /\ {Failed, Raised, TimedOut} \cap Codes = {}
  BY RunnerAssumption DEF None, Failed, Raised, TimedOut

LEMMA Returned ==
    ASSUME RunnerInv, NEW j \in Jobs, NEW from, NEW how \in Codes \cup {Failed, Raised, TimedOut},
           Return(j, from, how)
    PROVE  /\ pc[j] = from /\ pc'[j] = "remove" /\ result'[j] = how /\ how # None
           /\ \A k \in Jobs \ {j} : pc'[k] = pc[k] /\ result'[k] = result[k]
           /\ result' \in [Jobs -> Codes \cup {None, Raised, Failed, TimedOut}]
           /\ pc' \in [Jobs -> {"waiting", "list", "prune", "connect", "registry", "launch",
                                "stream", "wait", "remove", "disconnect", "remove_network",
                                "done"}]
  BY Distinct DEF Return, Goto, RunnerInv, TypeOK

\* A step that only makes job j return leaves the rest to `finally`.
LEMMA OnlyReturned ==
    ASSUME RunnerInv, NEW j \in Jobs, NEW from, NEW how \in Codes \cup {Failed, Raised, TimedOut},
           Return(j, from, how), UNCHANGED <<networks, attached, container, code, holds>>,
           listed' \in {listed, [listed EXCEPT ![j] = {}]},
           Faults[j] = {} => /\ how = Decided(j) /\ container[j] # "running"
                            /\ \/ holds[j] = {} /\ j \notin networks /\ container[j] = "none"
                               \/ holds[j] = Locals
    PROVE  RunnerInv'
  <1>1. TypeOK /\ NetworksInv /\ JobInv(j) /\ (Faults[j] = {} => CleanInv(j))
    BY DEF RunnerInv
  <1>2. /\ pc'[j] = "remove" /\ result'[j] = how /\ how # None
        /\ \A k \in Jobs \ {j} : pc'[k] = pc[k] /\ result'[k] = result[k]
    BY Returned
  <1>3. TypeOK'
    <2>1. listed' \in [Jobs -> SUBSET Networks]
      BY <1>1 DEF TypeOK
    <2> QED BY <2>1, <1>1, Returned DEF TypeOK
  <1>4. NetworksInv'
    BY <1>1 DEF NetworksInv
  <1>5. JobInv(j)'
    BY <1>1, <1>2 DEF JobInv, Before, Following
  <1>6. Faults[j] = {} => CleanInv(j)'
    BY <1>1, <1>2 DEF CleanInv, Decided, Following
  <1>7. \A k \in Jobs \ {j} : Undisturbed(k)
    BY <1>2 DEF Undisturbed
  <1> QED BY <1>3, <1>4, <1>5, <1>6, <1>7, Kept

\* For a job whose calls may fail, so does one that does not change what Docker holds.
LEMMA OnlyBroken ==
    ASSUME RunnerInv, NEW j \in Jobs, NEW from, Broken(j, from) \/ Return(j, from, Raised),
           UNCHANGED <<networks, attached, container, code, holds>>,
           listed' \in {listed, [listed EXCEPT ![j] = {}]},
           Faults[j] # {}
    PROVE  RunnerInv'
  <1>1. PICK how \in {Failed, Raised} : Return(j, from, how)
    BY DEF Broken
  <1> QED BY <1>1, OnlyReturned

\* Nor one that ends `finally`.
LEMMA OnlyEscaped ==
    ASSUME RunnerInv, NEW j \in Jobs, NEW from \in {"remove", "disconnect", "remove_network"},
           Escape(j, from), UNCHANGED <<docker, listed, holds>>, Faults[j] # {}
    PROVE  RunnerInv'
  <1>1. TypeOK /\ NetworksInv /\ JobInv(j) /\ Raised # None
    BY Distinct DEF RunnerInv
  <1>2. /\ pc[j] = from /\ pc'[j] = "done" /\ result'[j] = Raised
        /\ \A k \in Jobs \ {j} : pc'[k] = pc[k] /\ result'[k] = result[k]
    BY <1>1 DEF Escape, Goto, TypeOK
  <1>3. TypeOK'
    BY <1>1 DEF Escape, Goto, docker, TypeOK
  <1>4. NetworksInv'
    BY <1>1 DEF docker, NetworksInv
  <1>5. JobInv(j)'
    BY <1>1, <1>2 DEF docker, JobInv, Before, Following
  <1>6. \A k \in Jobs \ {j} : Undisturbed(k)
    BY <1>2 DEF docker, Undisturbed
  <1> QED BY <1>3, <1>4, <1>5, <1>6, Kept

LEMMA BeginInv == ASSUME RunnerInv, NEW j \in Jobs, Begin(j) PROVE RunnerInv'
  <1>1. /\ pc[j] = "waiting" /\ pc' = [pc EXCEPT ![j] = "list"]
        /\ UNCHANGED <<networks, attached, container, code, listed, holds, result>>
    BY DEF Begin, Goto, docker
  <1>2. TypeOK /\ NetworksInv /\ JobInv(j) /\ (Faults[j] = {} => CleanInv(j))
    BY DEF RunnerInv
  <1>3. pc'[j] = "list" /\ \A k \in Jobs \ {j} : pc'[k] = pc[k]
    BY <1>1, <1>2 DEF TypeOK
  <1>4. TypeOK'
    BY <1>1, <1>2 DEF TypeOK
  <1>5. NetworksInv'
    BY <1>1, <1>2 DEF NetworksInv
  <1>6. JobInv(j)' /\ (Faults[j] = {} => CleanInv(j)')
    BY <1>1, <1>2, <1>3 DEF JobInv, CleanInv, Decided, Before, Following
  <1>7. \A k \in Jobs \ {j} : Undisturbed(k)
    BY <1>1, <1>3 DEF Undisturbed
  <1> QED BY <1>4, <1>5, <1>6, <1>7, Kept

LEMMA ListInv == ASSUME RunnerInv, NEW j \in Jobs, List(j) PROVE RunnerInv'
  <1>1. UNCHANGED <<networks, attached, container, code, holds>>
    BY DEF List, docker
  <1>2. TypeOK /\ NetworksInv /\ JobInv(j) /\ (Faults[j] = {} => CleanInv(j))
    BY DEF RunnerInv
  <1>3. CASE /\ Goto(j, "list", "prune") /\ UNCHANGED result
             /\ listed' = [listed EXCEPT ![j] = networks] \/ listed' = listed
    <2>1. /\ pc[j] = "list" /\ pc'[j] = "prune" /\ result' = result
          /\ \A k \in Jobs \ {j} : pc'[k] = pc[k]
      BY <1>2, <1>3 DEF Goto, TypeOK
    <2>2. TypeOK'
      BY <1>1, <1>2, <1>3 DEF Goto, TypeOK
    <2>3. NetworksInv'
      BY <1>1, <1>2 DEF NetworksInv
    <2>4. JobInv(j)' /\ (Faults[j] = {} => CleanInv(j)')
      BY <1>1, <1>2, <2>1 DEF JobInv, CleanInv, Decided, Before, Following
    <2>5. \A k \in Jobs \ {j} : Undisturbed(k)
      BY <1>1, <2>1 DEF Undisturbed
    <2> QED BY <2>2, <2>3, <2>4, <2>5, Kept
  <1>4. CASE "list" \in Faults[j] /\ Return(j, "list", Raised) /\ UNCHANGED listed
    BY <1>1, <1>4, OnlyBroken
  <1> QED BY <1>3, <1>4 DEF List

LEMMA PruneInv == ASSUME RunnerInv, NEW j \in Jobs, Prune(j) PROVE RunnerInv'
  <1>1. PICK n \in listed[j] : Drop(j, n) /\ listed' = [listed EXCEPT ![j] = @ \ {n}]
    BY DEF Prune
  <1>2. pc[j] = "prune" /\ UNCHANGED <<attached, container, code, holds, result, pc>>
    BY DEF Prune
  <1>3. TypeOK /\ JobInv(j) /\ (Faults[j] = {} => CleanInv(j))
    BY DEF RunnerInv
  <1>4. /\ NetworksInv' /\ networks' \subseteq networks
        /\ \A m \in networks : attached[m] # {} => m \in networks'
    BY <1>1, <1>2, Dropped
  <1>5. TypeOK'
    BY <1>1, <1>2, <1>3, <1>4 DEF TypeOK
  <1>6. JobInv(j)' /\ (Faults[j] = {} => CleanInv(j)')
    BY <1>2, <1>3, <1>4 DEF JobInv, CleanInv, Decided, Before, Following
  <1>7. \A k \in Jobs \ {j} : Undisturbed(k)
    BY <1>2, <1>4 DEF Undisturbed
  <1> QED BY <1>4, <1>5, <1>6, <1>7, Kept

LEMMA PruneBreaksInv == ASSUME RunnerInv, NEW j \in Jobs, PruneBreaks(j) PROVE RunnerInv'
  BY OnlyBroken DEF PruneBreaks, docker

LEMMA CreateInv == ASSUME RunnerInv, NEW j \in Jobs, Create(j) PROVE RunnerInv'
  <1>1. pc[j] = "prune" /\ UNCHANGED <<attached, container, code, listed, holds>>
    BY DEF Create, Goto, Return, Broken, Lost
  <1>2. TypeOK /\ NetworksInv /\ JobInv(j) /\ (Faults[j] = {} => CleanInv(j))
    BY DEF RunnerInv
  <1>3. CASE /\ NameFree(j) /\ networks' = networks \cup {j}
             /\ \/ Goto(j, "prune", "connect") /\ UNCHANGED result
                \/ "create" \in Faults[j] /\ Lost(j, "prune")
    <2>1. /\ \/ pc'[j] = "connect" /\ result' = result
             \/ pc'[j] = "remove" /\ result'[j] = Raised /\ Raised # None /\ Faults[j] # {}
          /\ \A k \in Jobs \ {j} : pc'[k] = pc[k] /\ result'[k] = result[k]
      BY <1>2, <1>3, Returned DEF Goto, Lost, TypeOK
    <2>2. TypeOK'
      BY <1>1, <1>2, <1>3 DEF Goto, Lost, Return, TypeOK, Networks
    <2>3. NetworksInv'
      <3>1. \A n, m \in networks' : Name(n) = Name(m) => n = m
        BY <1>2, <1>3 DEF NetworksInv, NameFree
      <3>2. \A n \in Networks \ networks' : attached'[n] = {}
        BY <1>1, <1>2, <1>3 DEF NetworksInv
      <3>3. \A n \in Networks : \A k \in Jobs :
               k \in attached'[n] => n = k /\ container'[k] = "running"
        BY <1>1, <1>2 DEF NetworksInv
      <3> QED BY <3>1, <3>2, <3>3 DEF NetworksInv
    <2>4. JobInv(j)'
      BY <2>1, <1>1, <1>2 DEF JobInv, Before, Following
    <2>5. Faults[j] = {} => CleanInv(j)'
      BY <2>1, <1>1, <1>2 DEF CleanInv, Decided, Following
    <2>6. \A k \in Jobs \ {j} : Undisturbed(k)
      BY <2>1, <1>1, <1>3 DEF Undisturbed
    <2> QED BY <2>2, <2>3, <2>4, <2>5, <2>6, Kept
  <1>4. CASE Return(j, "prune", Failed) /\ UNCHANGED networks
    <2>1. Faults[j] = {} => /\ Failed = Decided(j) /\ container[j] = "none"
                           /\ holds[j] = {} /\ j \notin networks
      BY <1>1, <1>2 DEF JobInv, CleanInv, Decided, Before
    <2> QED BY <2>1, <1>1, <1>4, OnlyReturned
  <1>5. CASE "create" \in Faults[j] /\ Broken(j, "prune") /\ UNCHANGED networks
    BY <1>1, <1>5, OnlyBroken
  <1> QED BY <1>3, <1>4, <1>5 DEF Create

LEMMA ConnectInv == ASSUME RunnerInv, NEW j \in Jobs, Connect(j) PROVE RunnerInv'
  <1>1. pc[j] = "connect" /\ UNCHANGED <<networks, container, code, listed>>
    BY DEF Connect, Goto, Return, Broken, Lost
  <1>2. TypeOK /\ NetworksInv /\ JobInv(j) /\ (Faults[j] = {} => CleanInv(j)) /\ j \in Networks
    BY DEF RunnerInv, Networks
  <1>3. CASE /\ j \in networks /\ Attach(j, Registry)
             /\ \/ Goto(j, "connect", "registry") /\ Hold(j, "network") /\ UNCHANGED result
                \/ "connect" \in Faults[j] /\ Lost(j, "connect")
    <2>1. /\ attached' = [attached EXCEPT ![j] = @ \cup {Registry}]
          /\ attached'[j] = attached[j] \cup {Registry}
          /\ \A n \in Networks \ {j} : attached'[n] = attached[n]
      BY <1>2, <1>3 DEF Attach, TypeOK
    <2>2. /\ \/ /\ pc'[j] = "registry" /\ holds'[j] = holds[j] \cup {"network"}
                /\ result' = result
             \/ /\ pc'[j] = "remove" /\ holds' = holds /\ result'[j] = Raised
                /\ Raised # None /\ Faults[j] # {}
          /\ \A k \in Jobs \ {j} : /\ pc'[k] = pc[k] /\ holds'[k] = holds[k]
                                   /\ result'[k] = result[k]
      BY <1>2, <1>3, Returned DEF Goto, Hold, Lost, TypeOK
    <2>3. TypeOK'
      BY <2>1, <1>1, <1>2, <1>3 DEF Goto, Hold, Lost, Return, TypeOK
    <2>4. NetworksInv'
      <3>1. \A n \in Networks : \A k \in Jobs :
               k \in attached'[n] => n = k /\ container'[k] = "running"
        BY <2>1, <1>1, <1>2, RunnerAssumption DEF NetworksInv
      <3> QED BY <3>1, <2>1, <1>1, <1>2, <1>3 DEF NetworksInv
    <2>5. JobInv(j)'
      BY <2>1, <2>2, <1>1, <1>2, <1>3 DEF JobInv, Before, Following
    <2>6. Faults[j] = {} => CleanInv(j)'
      BY <2>1, <2>2, <1>1, <1>2 DEF CleanInv, Decided, Following
    <2>7. \A k \in Jobs \ {j} : Undisturbed(k)
      BY <2>1, <2>2, <1>1 DEF Undisturbed, Networks
    <2> QED BY <2>3, <2>4, <2>5, <2>6, <2>7, Kept
  <1>4. CASE j \notin networks /\ Return(j, "connect", Failed) /\ UNCHANGED <<attached, holds>>
    <2>1. Faults[j] = {} => /\ Failed = Decided(j) /\ container[j] = "none"
                           /\ holds[j] = {} /\ j \notin networks
      BY <1>1, <1>2, <1>4 DEF JobInv, CleanInv, Decided, Before
    <2> QED BY <2>1, <1>1, <1>4, OnlyReturned
  <1>5. CASE /\ Faults[j] \cap {"registry", "connect"} # {}
             /\ Broken(j, "connect") /\ UNCHANGED <<attached, holds>>
    BY <1>1, <1>5, OnlyBroken
  <1> QED BY <1>3, <1>4, <1>5 DEF Connect

LEMMA FindRegistryInv == ASSUME RunnerInv, NEW j \in Jobs, FindRegistry(j) PROVE RunnerInv'
  <1>1. UNCHANGED <<networks, attached, container, code, listed>>
    BY DEF FindRegistry, docker
  <1>2. TypeOK /\ NetworksInv /\ JobInv(j) /\ (Faults[j] = {} => CleanInv(j))
    BY DEF RunnerInv
  <1>3. CASE Goto(j, "registry", "launch") /\ Hold(j, "registry_attached") /\ UNCHANGED result
    <2>1. /\ pc[j] = "registry" /\ pc' = [pc EXCEPT ![j] = "launch"] /\ result' = result
          /\ holds' = [holds EXCEPT ![j] = @ \cup {"registry_attached"}]
      BY <1>3 DEF Goto, Hold
    <2>2. /\ pc'[j] = "launch" /\ holds'[j] = holds[j] \cup {"registry_attached"}
          /\ \A k \in Jobs \ {j} : pc'[k] = pc[k] /\ holds'[k] = holds[k]
      BY <2>1, <1>2 DEF TypeOK
    <2>3. TypeOK'
      BY <2>1, <1>1, <1>2 DEF TypeOK
    <2>4. NetworksInv'
      BY <1>1, <1>2 DEF NetworksInv
    <2>5. JobInv(j)' /\ (Faults[j] = {} => CleanInv(j)')
      BY <2>1, <2>2, <1>1, <1>2 DEF JobInv, CleanInv, Decided, Before, Following
    <2>6. \A k \in Jobs \ {j} : Undisturbed(k)
      BY <2>1, <2>2, <1>1 DEF Undisturbed
    <2> QED BY <2>3, <2>4, <2>5, <2>6, Kept
  <1>4. CASE "registry" \in Faults[j] /\ Broken(j, "registry") /\ UNCHANGED holds
    BY <1>1, <1>4, OnlyBroken
  <1> QED BY <1>3, <1>4 DEF FindRegistry

LEMMA LaunchInv == ASSUME RunnerInv, NEW j \in Jobs, Launch(j) PROVE RunnerInv'
  <1>1. pc[j] = "launch" /\ UNCHANGED <<networks, code, listed>>
    BY DEF Launch, Goto, Return, Broken, Lost
  <1>2. TypeOK /\ NetworksInv /\ JobInv(j) /\ (Faults[j] = {} => CleanInv(j)) /\ j \in Networks
    BY DEF RunnerInv, Networks
  <1>3. /\ j \in networks /\ Registry \in attached[j] /\ container[j] = "none"
        /\ result[j] = None /\ ~NameFree(j)
    BY <1>1, <1>2 DEF JobInv, Before, NameFree
  <1>4. CASE \E n \in networks :
               /\ Name(n) = Name(j)
               /\ Attach(n, j) /\ container' = [container EXCEPT ![j] = "running"]
               /\ \/ Goto(j, "launch", "stream") /\ Hold(j, "container") /\ UNCHANGED result
                  \/ "start" \in Faults[j] /\ Lost(j, "launch")
    <2>1. /\ attached' = [attached EXCEPT ![j] = @ \cup {j}]
          /\ container' = [container EXCEPT ![j] = "running"]
      BY <1>2, <1>3, <1>4 DEF Attach, NetworksInv
    <2>2. /\ attached'[j] = attached[j] \cup {j} /\ container'[j] = "running"
          /\ \A n \in Networks \ {j} : attached'[n] = attached[n]
          /\ \A k \in Jobs \ {j} : container'[k] = container[k]
      BY <2>1, <1>2 DEF TypeOK
    <2>3. /\ \/ /\ pc'[j] = "stream" /\ holds'[j] = holds[j] \cup {"container"}
                /\ result' = result
             \/ /\ pc'[j] = "remove" /\ holds' = holds /\ result'[j] = Raised
                /\ Raised # None /\ Faults[j] # {}
          /\ \A k \in Jobs \ {j} : /\ pc'[k] = pc[k] /\ holds'[k] = holds[k]
                                   /\ result'[k] = result[k]
      BY <1>2, <1>4, Returned DEF Goto, Hold, Lost, TypeOK
    <2>4. TypeOK'
      BY <2>1, <1>1, <1>2, <1>4 DEF Goto, Hold, Lost, Return, TypeOK
    <2>5. NetworksInv'
      <3>1. ASSUME NEW n \in Networks, NEW k \in Jobs, k \in attached'[n]
            PROVE  n = k /\ container'[k] = "running"
        <4>1. CASE n = j /\ k = j
          BY <4>1, <2>2
        <4>2. CASE ~(n = j /\ k = j)
          <5>1. k \in attached[n]
            BY <3>1, <4>2, <2>2
          <5>2. n = k /\ container[k] = "running"
            BY <5>1, <1>2 DEF NetworksInv
          <5> QED BY <5>2, <4>2, <2>2
        <4> QED BY <4>1, <4>2
      <3>2. \A n \in Networks \ networks' : attached'[n] = {}
        BY <2>2, <1>1, <1>2, <1>3 DEF NetworksInv
      <3> QED BY <3>1, <3>2, <1>1, <1>2 DEF NetworksInv
    <2>6. JobInv(j)'
      BY <2>2, <2>3, <1>1, <1>2, <1>3 DEF JobInv, Before, Following
    <2>7. Faults[j] = {} => CleanInv(j)'
      BY <2>2, <2>3, <1>1, <1>2, <1>3 DEF CleanInv, Following, Locals
    <2>8. \A k \in Jobs \ {j} : Undisturbed(k)
      BY <2>2, <2>3, <1>1 DEF Undisturbed, Networks
    <2> QED BY <2>4, <2>5, <2>6, <2>7, <2>8, Kept
  <1>5. CASE /\ Broken(j, "launch") /\ UNCHANGED <<attached, holds>>
             /\ "image" \in Faults[j] /\ UNCHANGED container
    BY <1>1, <1>5, OnlyBroken
  <1>6. CASE /\ Broken(j, "launch") /\ UNCHANGED <<attached, holds>>
             /\ "start" \in Faults[j] \/ NameFree(j)
             /\ container' = [container EXCEPT ![j] = "created"]
    <2>1. PICK how \in {Failed, Raised} : Return(j, "launch", how)
      BY <1>6 DEF Broken
    <2>2. /\ Faults[j] # {} /\ container'[j] = "created"
          /\ \A k \in Jobs \ {j} : container'[k] = container[k]
      BY <1>2, <1>3, <1>6 DEF TypeOK
    <2>3. /\ pc'[j] = "remove" /\ result'[j] = how /\ how # None
          /\ \A k \in Jobs \ {j} : pc'[k] = pc[k] /\ result'[k] = result[k]
      BY <2>1, Returned
    <2>4. TypeOK'
      BY <1>1, <1>2, <1>6, <2>1, Returned DEF TypeOK
    <2>5. NetworksInv'
      BY <1>1, <1>2, <1>3, <1>6, <2>2 DEF NetworksInv
    <2>6. JobInv(j)'
      BY <1>1, <1>2, <1>6, <2>2, <2>3 DEF JobInv, Before, Following
    <2>7. \A k \in Jobs \ {j} : Undisturbed(k)
      BY <1>1, <1>6, <2>2, <2>3 DEF Undisturbed
    <2> QED BY <2>2, <2>4, <2>5, <2>6, <2>7, Kept
  <1> QED BY <1>4, <1>5, <1>6 DEF Launch

LEMMA ExitInv == ASSUME RunnerInv, NEW j \in Jobs, Exit(j) PROVE RunnerInv'
  <1>1. PICK c \in Codes : code' = [code EXCEPT ![j] = c]
    BY DEF Exit
  <1>2. /\ container[j] = "running" /\ container' = [container EXCEPT ![j] = "exited"]
        /\ attached' = [n \in Networks |-> attached[n] \ {j}]
        /\ UNCHANGED <<networks, listed, holds, result, pc>>
    BY DEF Exit
  <1>3. TypeOK /\ NetworksInv /\ JobInv(j) /\ (Faults[j] = {} => CleanInv(j))
    BY DEF RunnerInv
  <1>4. /\ NetworksInv' /\ attached' \in [Networks -> SUBSET ({Registry} \cup Jobs)]
        /\ container' \in [Jobs -> {"none", "created", "running", "exited", "removed"}]
        /\ attached'[j] = attached[j] \ {j} /\ container'[j] = "exited"
        /\ \A k \in Jobs \ {j} : attached'[k] = attached[k] /\ container'[k] = container[k]
    BY <1>2, Detached
  <1>5. code'[j] = c /\ c # None /\ \A k \in Jobs \ {j} : code'[k] = code[k]
    BY <1>1, <1>3, Distinct DEF TypeOK
  <1>6. TypeOK'
    BY <1>1, <1>2, <1>3, <1>4 DEF TypeOK
  <1>7. JobInv(j)'
    BY <1>2, <1>3, <1>4, <1>5, RunnerAssumption DEF JobInv, Before, Following
  <1>8. Faults[j] = {} => CleanInv(j)'
    BY <1>2, <1>3, <1>4 DEF CleanInv, Following
  <1>9. \A k \in Jobs \ {j} : Undisturbed(k)
    BY <1>2, <1>4, <1>5 DEF Undisturbed
  <1> QED BY <1>4, <1>6, <1>7, <1>8, <1>9, Kept

LEMMA StreamInv == ASSUME RunnerInv, NEW j \in Jobs, Stream(j) PROVE RunnerInv'
  <1>1. /\ pc[j] = "stream" /\ pc' = [pc EXCEPT ![j] = "wait"]
        /\ container[j] # "running" \/ Faults[j] # {}
        /\ UNCHANGED <<networks, attached, container, code, listed, holds, result>>
    BY DEF Stream, StreamEnds, Goto, docker
  <1>2. TypeOK /\ NetworksInv /\ JobInv(j) /\ (Faults[j] = {} => CleanInv(j))
    BY DEF RunnerInv
  <1>3. pc'[j] = "wait" /\ \A k \in Jobs \ {j} : pc'[k] = pc[k]
    BY <1>1, <1>2 DEF TypeOK
  <1>4. TypeOK'
    BY <1>1, <1>2 DEF TypeOK
  <1>5. NetworksInv'
    BY <1>1, <1>2 DEF NetworksInv
  <1>6. JobInv(j)'
    BY <1>1, <1>2, <1>3 DEF JobInv, Before, Following
  <1>7. Faults[j] = {} => CleanInv(j)'
    BY <1>1, <1>2, <1>3 DEF JobInv, CleanInv, Decided, Following
  <1>8. \A k \in Jobs \ {j} : Undisturbed(k)
    BY <1>1, <1>3 DEF Undisturbed
  <1> QED BY <1>4, <1>5, <1>6, <1>7, <1>8, Kept

LEMMA StreamBreaksInv == ASSUME RunnerInv, NEW j \in Jobs, StreamBreaks(j) PROVE RunnerInv'
  BY OnlyBroken DEF StreamBreaks, docker

LEMMA WaitInv == ASSUME RunnerInv, NEW j \in Jobs, Wait(j) PROVE RunnerInv'
  <1>1. /\ container[j] = "exited" /\ pc[j] = "wait"
        /\ UNCHANGED <<networks, attached, container, code, listed, holds>>
        /\ \/ Return(j, "wait", code[j])
           \/ "reload" \in Faults[j] /\ Return(j, "wait", Raised)
    BY DEF Wait, Answered, Return, Goto, docker
  <1>2. TypeOK /\ JobInv(j) /\ (Faults[j] = {} => CleanInv(j))
    BY DEF RunnerInv
  <1>3. code[j] \in Codes /\ code[j] = Decided(j)
    BY <1>1, <1>2 DEF JobInv, Following, TypeOK, Decided
  <1>4. Faults[j] = {} => holds[j] = Locals
    BY <1>1, <1>2 DEF CleanInv, Following
  <1>5. CASE Return(j, "wait", code[j])
    BY <1>1, <1>3, <1>4, <1>5, OnlyReturned
  <1>6. CASE "reload" \in Faults[j] /\ Return(j, "wait", Raised)
    BY <1>1, <1>6, OnlyBroken
  <1> QED BY <1>1, <1>5, <1>6

LEMMA TimeoutInv == ASSUME RunnerInv, NEW j \in Jobs, Timeout(j) PROVE RunnerInv'
  <1>1. PICK how \in {TimedOut, Raised} : Return(j, "wait", how)
    BY DEF Timeout, Answered
  <1>2. /\ pc[j] = "wait" /\ UNCHANGED <<networks, code, listed, holds>>
        /\ how \in Codes \cup {Failed, Raised, TimedOut}
    BY <1>1 DEF Timeout, Return, Goto
  <1>3. TypeOK /\ NetworksInv /\ JobInv(j) /\ (Faults[j] = {} => CleanInv(j))
    BY DEF RunnerInv
  <1>4. Faults[j] # {}
    BY <1>2, <1>3 DEF Timeout, CleanInv
  <1>5. CASE UNCHANGED <<container, attached>>
    BY <1>1, <1>2, <1>4, <1>5, OnlyReturned
  <1>6. CASE Killed(j)
    <2>1. /\ NetworksInv' /\ attached' \in [Networks -> SUBSET ({Registry} \cup Jobs)]
          /\ container' \in [Jobs -> {"none", "created", "running", "exited", "removed"}]
          /\ attached'[j] = attached[j] \ {j} /\ container'[j] = "exited"
          /\ \A k \in Jobs \ {j} : attached'[k] = attached[k] /\ container'[k] = container[k]
      BY <1>2, <1>6, Detached DEF Killed
    <2>2. /\ pc'[j] = "remove" /\ result'[j] = how /\ how # None
          /\ \A k \in Jobs \ {j} : pc'[k] = pc[k] /\ result'[k] = result[k]
      BY <1>1, <1>2, Returned
    <2>3. TypeOK'
      BY <1>1, <1>2, <1>3, <2>1, Returned DEF TypeOK
    <2>4. JobInv(j)'
      BY <1>2, <1>3, <2>1, <2>2 DEF JobInv, Before, Following
    <2>5. \A k \in Jobs \ {j} : Undisturbed(k)
      BY <1>2, <2>1, <2>2 DEF Undisturbed
    <2> QED BY <1>4, <2>1, <2>3, <2>4, <2>5, Kept
  <1> QED BY <1>5, <1>6 DEF Timeout

-----------------------------------------------------------------------------
LEMMA RemoveContainerInv == ASSUME RunnerInv, NEW j \in Jobs, RemoveContainer(j) PROVE RunnerInv'
  <1>1. /\ pc[j] = "remove" /\ pc' = [pc EXCEPT ![j] = "disconnect"]
        /\ UNCHANGED <<networks, code, listed, holds, result>>
    BY DEF RemoveContainer, Goto
  <1>2. TypeOK /\ NetworksInv /\ JobInv(j) /\ (Faults[j] = {} => CleanInv(j))
    BY DEF RunnerInv
  <1>3. pc'[j] = "disconnect" /\ \A k \in Jobs \ {j} : pc'[k] = pc[k]
    BY <1>1, <1>2 DEF TypeOK
  <1>4. CASE /\ container' = [container EXCEPT ![j] = "removed"]
             /\ attached' = [n \in Networks |-> attached[n] \ {j}]
             /\ "container" \in holds[j]
    <2>1. /\ NetworksInv' /\ attached' \in [Networks -> SUBSET ({Registry} \cup Jobs)]
          /\ container' \in [Jobs -> {"none", "created", "running", "exited", "removed"}]
          /\ attached'[j] = attached[j] \ {j} /\ container'[j] = "removed"
          /\ \A k \in Jobs \ {j} : attached'[k] = attached[k] /\ container'[k] = container[k]
      BY <1>1, <1>4, Detached
    <2>2. TypeOK'
      BY <1>1, <1>2, <2>1 DEF TypeOK
    <2>3. JobInv(j)' /\ (Faults[j] = {} => CleanInv(j)')
      BY <1>1, <1>2, <1>3, <1>4, <2>1 DEF JobInv, CleanInv, Decided, Before, Following
    <2>4. \A k \in Jobs \ {j} : Undisturbed(k)
      BY <1>1, <1>3, <2>1 DEF Undisturbed
    <2> QED BY <2>1, <2>2, <2>3, <2>4, Kept
  <1>5. CASE /\ UNCHANGED <<container, attached>>
             /\ "container" \notin holds[j] \/ "remove" \in Faults[j]
    <2>1. TypeOK'
      BY <1>1, <1>2, <1>5 DEF TypeOK
    <2>2. NetworksInv'
      BY <1>1, <1>2, <1>5 DEF NetworksInv
    <2>3. JobInv(j)' /\ (Faults[j] = {} => CleanInv(j)')
      BY <1>1, <1>2, <1>3, <1>5 DEF JobInv, CleanInv, Decided, Before, Following, Locals
    <2>4. \A k \in Jobs \ {j} : Undisturbed(k)
      BY <1>1, <1>3, <1>5 DEF Undisturbed
    <2> QED BY <2>1, <2>2, <2>3, <2>4, Kept
  <1> QED BY <1>4, <1>5 DEF RemoveContainer

LEMMA FinallyBreaksInv ==
    ASSUME RunnerInv, NEW j \in Jobs,
           RemoveContainerBreaks(j) \/ DisconnectBreaks(j) \/ RemoveNetworkBreaks(j)
    PROVE  RunnerInv'
  BY OnlyEscaped DEF RemoveContainerBreaks, DisconnectBreaks, RemoveNetworkBreaks

LEMMA DisconnectInv == ASSUME RunnerInv, NEW j \in Jobs, Disconnect(j) PROVE RunnerInv'
  <1>1. /\ pc[j] = "disconnect" /\ pc' = [pc EXCEPT ![j] = "remove_network"]
        /\ UNCHANGED <<networks, container, code, listed, holds, result>>
    BY DEF Disconnect, Goto
  <1>2. TypeOK /\ NetworksInv /\ JobInv(j) /\ (Faults[j] = {} => CleanInv(j)) /\ j \in Networks
    BY DEF RunnerInv, Networks
  <1>3. pc'[j] = "remove_network" /\ \A k \in Jobs \ {j} : pc'[k] = pc[k]
    BY <1>1, <1>2 DEF TypeOK
  <1>4. /\ attached'[j] \in {attached[j], attached[j] \ {Registry}}
        /\ \A n \in Networks \ {j} : attached'[n] = attached[n]
        /\ attached' \in [Networks -> SUBSET ({Registry} \cup Jobs)]
    BY <1>2 DEF Disconnect, Detach, TypeOK
  <1>5. TypeOK'
    BY <1>1, <1>2, <1>4 DEF TypeOK
  <1>6. NetworksInv'
    <2>1. \A n \in Networks : attached'[n] \subseteq attached[n]
      BY <1>4
    <2> QED BY <2>1, <1>1, <1>2 DEF NetworksInv
  <1>7. JobInv(j)'
    <2>1. \A k \in Jobs : k \in attached[j] => k \in attached'[j]
      BY <1>4, RunnerAssumption
    <2> QED BY <2>1, <1>1, <1>2, <1>3 DEF JobInv, Before, Following
  <1>8. ASSUME Faults[j] = {} PROVE CleanInv(j)'
    <2>1. CASE holds[j] = {} /\ j \notin networks /\ container[j] = "none"
      BY <2>1, <1>1, <1>2, <1>3, <1>8 DEF CleanInv, Decided, Following
    <2>2. CASE holds[j] = Locals /\ container[j] = "removed"
      <3>1. attached'[j] = attached[j] \ {Registry}
        BY <2>2, <1>2, <1>8 DEF Disconnect, Disconnects, Detach, Locals, TypeOK
      <3>2. j \notin attached[j] /\ attached[j] \subseteq {Registry, j}
        BY <2>2, <1>2, Alone DEF NetworksInv
      <3>3. attached'[j] = {}
        BY <3>1, <3>2
      <3> QED BY <3>3, <2>2, <1>1, <1>2, <1>3, <1>8 DEF CleanInv, Decided, Following
    <2> QED BY <2>1, <2>2, <1>1, <1>2, <1>8 DEF CleanInv
  <1>9. \A k \in Jobs \ {j} : Undisturbed(k)
    BY <1>1, <1>3, <1>4 DEF Undisturbed, Networks
  <1> QED BY <1>5, <1>6, <1>7, <1>8, <1>9, Kept

LEMMA RemoveNetworkInv == ASSUME RunnerInv, NEW j \in Jobs, RemoveNetwork(j) PROVE RunnerInv'
  <1>1. /\ pc[j] = "remove_network" /\ pc' = [pc EXCEPT ![j] = "done"]
        /\ UNCHANGED <<attached, container, code, listed, holds, result>>
    BY DEF RemoveNetwork, Goto
  <1>2. TypeOK /\ NetworksInv /\ JobInv(j) /\ (Faults[j] = {} => CleanInv(j))
    BY DEF RunnerInv
  <1>3. pc'[j] = "done" /\ \A k \in Jobs \ {j} : pc'[k] = pc[k]
    BY <1>1, <1>2 DEF TypeOK
  <1>4. /\ NetworksInv' /\ networks' \subseteq networks
        /\ \A m \in networks : attached[m] # {} => m \in networks'
    <2>1. CASE "network" \in holds[j]
      BY <2>1, <1>1, Dropped DEF RemoveNetwork
    <2>2. CASE "network" \notin holds[j]
      BY <2>2, <1>1, <1>2 DEF RemoveNetwork, NetworksInv
    <2> QED BY <2>1, <2>2
  <1>5. TypeOK'
    BY <1>1, <1>2, <1>4 DEF TypeOK
  <1>6. JobInv(j)'
    BY <1>1, <1>2, <1>3, <1>4 DEF JobInv, Before, Following
  <1>7. ASSUME Faults[j] = {} PROVE CleanInv(j)'
    <2>1. \/ holds[j] = {} /\ j \notin networks /\ container[j] = "none"
          \/ holds[j] = Locals /\ container[j] = "removed" /\ attached[j] = {}
      BY <1>1, <1>2, <1>7 DEF CleanInv
    <2>2. j \notin networks'
      BY <2>1, <1>4, <1>7 DEF RemoveNetwork, Drop, Unattached, Locals
    <2> QED BY <2>1, <2>2, <1>1, <1>2, <1>3, <1>7 DEF CleanInv, Decided, Following
  <1>8. \A k \in Jobs \ {j} : Undisturbed(k)
    BY <1>1, <1>3, <1>4 DEF Undisturbed
  <1> QED BY <1>4, <1>5, <1>6, <1>7, <1>8, Kept

-----------------------------------------------------------------------------
LEMMA NextInv == RunnerInv /\ [Next]_vars => RunnerInv'
  <1> SUFFICES ASSUME RunnerInv, [Next]_vars PROVE RunnerInv'
    OBVIOUS
  <1>1. ASSUME NEW j \in Jobs, Run(j) PROVE RunnerInv'
    <2>1. CASE Call(j)
      BY <2>1, BeginInv, ListInv, PruneInv, CreateInv, ConnectInv, FindRegistryInv, LaunchInv,
         StreamInv, WaitInv, TimeoutInv, RemoveContainerInv, DisconnectInv, RemoveNetworkInv
         DEF Call
    <2>2. CASE Break(j)
      BY <2>2, PruneBreaksInv, StreamBreaksInv, FinallyBreaksInv DEF Break
    <2> QED BY <1>1, <2>1, <2>2 DEF Run
  <1>2. ASSUME NEW j \in Jobs, Exit(j) PROVE RunnerInv'
    BY <1>2, ExitInv
  <1>3. CASE UNCHANGED vars
    <2>1. TypeOK' /\ NetworksInv'
      BY <1>3 DEF RunnerInv, TypeOK, NetworksInv, vars
    <2>2. ASSUME NEW k \in Jobs PROVE JobInv(k)' /\ (Faults[k] = {} => CleanInv(k)')
      BY <1>3, OthersKept DEF Undisturbed, vars
    <2> QED BY <2>1, <2>2 DEF RunnerInv
  <1> QED BY <1>1, <1>2, <1>3 DEF Next, Finished

\* Docker's state and the runner's agree, whatever calls fail and however jobs interleave.
THEOREM DockerAgrees == Spec => []RunnerInv
  BY InitInv, NextInv, PTL DEF Spec

\* A job's container shares its network with the registry's only.
THEOREM Isolation == Spec => []OwnNetwork
  <1>1. ASSUME RunnerInv, NEW j \in Jobs, container[j] = "running"
        PROVE  /\ j \in networks /\ attached[j] \subseteq {Registry, j}
               /\ pc[j] \in {"stream", "wait"} => attached[j] = {Registry, j}
    <2>1. JobInv(j) /\ NetworksInv
      BY <1>1 DEF RunnerInv
    <2>2. j \in Networks /\ j \in attached[j] /\ attached[j] \subseteq {Registry, j}
      BY <1>1, <2>1, Alone DEF JobInv
    <2>3. j \in networks
      BY <2>1, <2>2 DEF NetworksInv
    <2>4. pc[j] \in {"stream", "wait"} => Registry \in attached[j]
      BY <2>1 DEF JobInv, Following
    <2> QED BY <2>2, <2>3, <2>4
  <1>2. RunnerInv => OwnNetwork
    BY <1>1 DEF OwnNetwork
  <1> QED BY <1>2, DockerAgrees, PTL

\* Whatever the siblings of a job do and however their calls fail, the job's script alone
\* decides its result: it is never given up, killed or failed once it runs.
THEOREM ScriptsDecide == Spec => []ScriptDecides
  <1>1. RunnerInv => ScriptDecides
    BY DEF RunnerInv, CleanInv, ScriptDecides
  <1> QED BY <1>1, DockerAgrees, PTL

\* A job for which no Docker call fails leaves nothing behind.
THEOREM CleanedUp == Spec => []NothingLeft
  <1>1. RunnerInv => NothingLeft
    BY DEF RunnerInv, CleanInv, NothingLeft
  <1> QED BY <1>1, DockerAgrees, PTL

-----------------------------------------------------------------------------
(* A job's part is short *)

\* The calls before the end of `finally`, but for those of the pruning; and the end of
\* the script.
CallsTo(where) ==
    CASE where = "waiting" -> 11 [] where = "list" -> 10 [] where = "prune" -> 9
      [] where = "connect" -> 8 [] where = "registry" -> 7 [] where = "launch" -> 6
      [] where = "stream" -> 5 [] where = "wait" -> 4 [] where = "remove" -> 3
      [] where = "disconnect" -> 2 [] where = "remove_network" -> 1 [] OTHER -> 0

MayPrune(j) == IF pc[j] \in {"waiting", "list"} THEN Networks ELSE listed[j]
MayExit(j) == IF container[j] \in {"none", "running"} THEN 1 ELSE 0

CallsLeft(j) == CallsTo(pc[j]) + Cardinality(MayPrune(j)) + MayExit(j)
MostCalls == 12 + Cardinality(Jobs) + Cardinality(Leaked)

CallsCounted == \A j \in Jobs : CallsLeft(j) \in 0..MostCalls

\* Each step is one of one job, has that job nearer to its end, and none further from it:
\* however its siblings prune, collide and fail, a job makes MostCalls steps at most.
JobsShorten ==
    /\ []CallsCounted
    /\ [][\E j \in Jobs : /\ CallsLeft(j)' < CallsLeft(j)
                          /\ \A k \in Jobs \ {j} : CallsLeft(k)' = CallsLeft(k)]_vars

LEMMA LeftCounted ==
    ASSUME TypeOK, NEW j \in Jobs
    PROVE  /\ IsFiniteSet(MayPrune(j)) /\ Cardinality(MayPrune(j)) \in Nat
           /\ CallsTo(pc[j]) \in 0..11 /\ MayExit(j) \in 0..1
           /\ CallsLeft(j) \in 0..MostCalls
  <1>1. IsFiniteSet(Jobs) /\ IsFiniteSet(Leaked) /\ Jobs \cap Leaked = {}
    BY RunnerAssumption
  <1>2. /\ IsFiniteSet(Networks) /\ Cardinality(Jobs) \in Nat /\ Cardinality(Leaked) \in Nat
        /\ Cardinality(Networks) = Cardinality(Jobs) + Cardinality(Leaked)
    <2>1. Cardinality(Jobs) \in Nat /\ Cardinality(Leaked) \in Nat
      BY <1>1, FS_CardinalityType
    <2>2. /\ IsFiniteSet(Networks)
          /\ Cardinality(Networks)
                = Cardinality(Jobs) + Cardinality(Leaked) - Cardinality(Jobs \cap Leaked)
      BY <1>1, FS_Union DEF Networks
    <2>3. Cardinality(Jobs \cap Leaked) = 0
      BY <1>1, FS_EmptySet
    <2> QED BY <2>1, <2>2, <2>3
  <1>3. MayPrune(j) \subseteq Networks
    BY DEF MayPrune, TypeOK
  <1>4. /\ IsFiniteSet(MayPrune(j)) /\ Cardinality(MayPrune(j)) <= Cardinality(Networks)
        /\ Cardinality(MayPrune(j)) \in Nat
    BY <1>2, <1>3, FS_Subset, FS_CardinalityType
  <1>5. CallsTo(pc[j]) \in 0..11 /\ MayExit(j) \in 0..1
    <2>1. CallsTo(pc[j]) \in 0..11
      BY DEF CallsTo, TypeOK
    <2> QED BY <2>1 DEF MayExit
  <1> QED BY <1>2, <1>4, <1>5 DEF CallsLeft, MostCalls

\* Less of one kind and no more of the others is less in all.
LEMMA Nearer ==
    ASSUME RunnerInv, RunnerInv', NEW j \in Jobs,
           CallsTo(pc'[j]) <= CallsTo(pc[j]), MayPrune(j)' \subseteq MayPrune(j),
           MayExit(j)' <= MayExit(j),
           \/ CallsTo(pc'[j]) < CallsTo(pc[j])
           \/ MayPrune(j)' # MayPrune(j)
           \/ MayExit(j)' < MayExit(j)
    PROVE  CallsLeft(j)' < CallsLeft(j)
  <1>1. /\ IsFiniteSet(MayPrune(j)) /\ Cardinality(MayPrune(j)) \in Nat
        /\ CallsTo(pc[j]) \in Nat /\ MayExit(j) \in Nat
    BY LeftCounted DEF RunnerInv
  <1>2. Cardinality(MayPrune(j)') \in Nat /\ CallsTo(pc'[j]) \in Nat /\ MayExit(j)' \in Nat
    <2>1. TypeOK'
      BY DEF RunnerInv
    <2>2. CallsTo(pc'[j]) \in Nat
      BY <2>1 DEF TypeOK, CallsTo
    <2> QED BY <1>1, <2>2, FS_Subset, FS_CardinalityType DEF MayExit
  <1>3. /\ Cardinality(MayPrune(j)') <= Cardinality(MayPrune(j))
        /\ MayPrune(j)' # MayPrune(j) => Cardinality(MayPrune(j)') < Cardinality(MayPrune(j))
    BY <1>1, <1>2, FS_Subset
  <1> QED BY <1>1, <1>2, <1>3 DEF CallsLeft

LEMMA FarAsBefore ==
    ASSUME NEW k \in Jobs, pc'[k] = pc[k], listed'[k] = listed[k], container'[k] = container[k]
    PROVE  CallsLeft(k)' = CallsLeft(k)
  BY DEF CallsLeft, MayPrune, MayExit

LEMMA OwnStep ==
    ASSUME RunnerInv, NEW j \in Jobs, Run(j) \/ Exit(j), NEW k \in Jobs \ {j}
    PROVE  pc'[k] = pc[k] /\ listed'[k] = listed[k] /\ container'[k] = container[k]
  <1>1. DOMAIN pc = Jobs /\ DOMAIN listed = Jobs /\ DOMAIN container = Jobs
        /\ pc = [i \in Jobs |-> pc[i]] /\ listed = [i \in Jobs |-> listed[i]]
        /\ container = [i \in Jobs |-> container[i]]
    BY DEF RunnerInv, TypeOK
  <1> USE DEF docker, Goto, Return, Broken, Lost, Escape
  <1>2. CASE Begin(j) \/ List(j) \/ Prune(j) \/ PruneBreaks(j) \/ Create(j)
    BY <1>1, <1>2 DEF Begin, List, Prune, PruneBreaks, Create
  <1>3. CASE Connect(j) \/ FindRegistry(j) \/ Launch(j) \/ Exit(j)
    BY <1>1, <1>3 DEF Connect, FindRegistry, Launch, Exit
  <1>4. CASE Stream(j) \/ StreamBreaks(j) \/ Wait(j) \/ Timeout(j)
    BY <1>1, <1>4 DEF Stream, StreamBreaks, Wait, Timeout, Answered, Killed
  <1>5. CASE RemoveContainer(j) \/ Disconnect(j) \/ RemoveNetwork(j)
    BY <1>1, <1>5 DEF RemoveContainer, Disconnect, RemoveNetwork
  <1>6. CASE RemoveContainerBreaks(j) \/ DisconnectBreaks(j) \/ RemoveNetworkBreaks(j)
    BY <1>1, <1>6 DEF RemoveContainerBreaks, DisconnectBreaks, RemoveNetworkBreaks
  <1> QED BY <1>2, <1>3, <1>4, <1>5, <1>6 DEF Run, Call, Break

LEMMA StepNearer ==
    ASSUME RunnerInv, RunnerInv', NEW j \in Jobs, Run(j) \/ Exit(j)
    PROVE  CallsLeft(j)' < CallsLeft(j)
  <1>1. /\ DOMAIN pc = Jobs /\ DOMAIN listed = Jobs /\ DOMAIN container = Jobs
        /\ listed[j] \subseteq Networks /\ networks \subseteq Networks
    BY DEF RunnerInv, TypeOK
  <1> USE DEF docker, Goto, Return, Broken, Lost, Escape
  <1>2. CASE Begin(j)
    <2>1. pc[j] = "waiting" /\ pc'[j] = "list" /\ UNCHANGED <<listed, container>>
      BY <1>1, <1>2 DEF Begin
    <2>2. MayPrune(j)' = MayPrune(j) /\ MayExit(j)' = MayExit(j)
      BY <2>1 DEF MayPrune, MayExit
    <2>3. CallsTo(pc'[j]) < CallsTo(pc[j]) /\ CallsTo(pc'[j]) <= CallsTo(pc[j])
      BY <2>1 DEF CallsTo
    <2> QED BY <2>2, <2>3, Nearer DEF MayExit
  <1>3. CASE List(j)
    <2>1. pc[j] = "list" /\ pc'[j] \in {"prune", "remove"} /\ container' = container
          /\ listed'[j] \subseteq Networks
      BY <1>1, <1>3 DEF List
    <2>2. MayPrune(j)' \subseteq MayPrune(j) /\ MayExit(j)' = MayExit(j)
      BY <2>1 DEF MayPrune, MayExit
    <2>3. CallsTo(pc'[j]) < CallsTo(pc[j]) /\ CallsTo(pc'[j]) <= CallsTo(pc[j])
      BY <2>1 DEF CallsTo
    <2> QED BY <2>2, <2>3, Nearer DEF MayExit
  <1>4. CASE Prune(j)
    <2>1. PICK n \in listed[j] : listed' = [listed EXCEPT ![j] = @ \ {n}]
      BY <1>4 DEF Prune
    <2>2. pc[j] = "prune" /\ UNCHANGED <<pc, container>>
      BY <1>4 DEF Prune
    <2>3. listed'[j] = listed[j] \ {n}
      BY <1>1, <2>1
    <2>4. MayPrune(j) = listed[j] /\ MayPrune(j)' = listed[j] \ {n} /\ MayExit(j)' = MayExit(j)
      BY <2>2, <2>3 DEF MayPrune, MayExit
    <2>5. CallsTo(pc'[j]) <= CallsTo(pc[j]) /\ MayExit(j) \in 0..1
      BY <2>2, LeftCounted DEF RunnerInv
    <2> QED BY <2>4, <2>5, Nearer
  <1>7. CASE PruneBreaks(j)
    <2>1. /\ pc[j] = "prune" /\ pc'[j] = "remove" /\ container' = container
          /\ listed'[j] = {}
      BY <1>1, <1>7 DEF PruneBreaks
    <2>2. MayPrune(j)' \subseteq MayPrune(j) /\ MayExit(j)' = MayExit(j)
      BY <2>1 DEF MayPrune, MayExit
    <2>3. CallsTo(pc'[j]) < CallsTo(pc[j]) /\ CallsTo(pc'[j]) <= CallsTo(pc[j])
      BY <2>1 DEF CallsTo
    <2> QED BY <2>2, <2>3, Nearer DEF MayExit
  <1>8. CASE RemoveContainerBreaks(j) \/ DisconnectBreaks(j) \/ RemoveNetworkBreaks(j)
    <2>1. /\ pc[j] \in {"remove", "disconnect", "remove_network"} /\ pc'[j] = "done"
          /\ UNCHANGED <<container, listed>>
      BY <1>1, <1>8 DEF RemoveContainerBreaks, DisconnectBreaks, RemoveNetworkBreaks
    <2>2. MayPrune(j)' = MayPrune(j) /\ MayExit(j)' = MayExit(j)
      BY <2>1 DEF MayPrune, MayExit
    <2>3. CallsTo(pc'[j]) < CallsTo(pc[j]) /\ CallsTo(pc'[j]) <= CallsTo(pc[j])
      BY <2>1 DEF CallsTo
    <2> QED BY <2>2, <2>3, Nearer DEF MayExit
  <1>5. CASE \/ Create(j) \/ Connect(j) \/ FindRegistry(j) \/ Launch(j) \/ Stream(j)
             \/ StreamBreaks(j) \/ Wait(j) \/ Timeout(j) \/ RemoveContainer(j)
             \/ Disconnect(j) \/ RemoveNetwork(j)
    <2>1. CallsTo(pc'[j]) < CallsTo(pc[j]) /\ pc[j] \notin {"waiting", "list"}
          /\ pc'[j] \notin {"waiting", "list"} /\ listed' = listed
      <3>1. listed' = listed
        BY <1>5 DEF Create, Connect, FindRegistry, Launch, Stream, StreamBreaks, Wait, Timeout,
                    RemoveContainer, Disconnect, RemoveNetwork
      <3>2. CASE Create(j) \/ Connect(j) \/ FindRegistry(j) \/ Launch(j)
        <4>1. \/ pc[j] = "prune" /\ pc'[j] \in {"connect", "remove"}
              \/ pc[j] = "connect" /\ pc'[j] \in {"registry", "remove"}
              \/ pc[j] = "registry" /\ pc'[j] \in {"launch", "remove"}
              \/ pc[j] = "launch" /\ pc'[j] \in {"stream", "remove"}
          BY <1>1, <3>2 DEF Create, Connect, FindRegistry, Launch
        <4> QED BY <3>1, <4>1 DEF CallsTo
      <3>3. CASE Stream(j) \/ StreamBreaks(j) \/ Wait(j) \/ Timeout(j)
        <4>1. \/ pc[j] = "stream" /\ pc'[j] \in {"wait", "remove"}
              \/ pc[j] = "wait" /\ pc'[j] = "remove"
          BY <1>1, <3>3 DEF Stream, StreamBreaks, Wait, Timeout, Answered
        <4> QED BY <3>1, <4>1 DEF CallsTo
      <3>4. CASE RemoveContainer(j) \/ Disconnect(j) \/ RemoveNetwork(j)
        <4>1. \/ pc[j] = "remove" /\ pc'[j] = "disconnect"
              \/ pc[j] = "disconnect" /\ pc'[j] = "remove_network"
              \/ pc[j] = "remove_network" /\ pc'[j] = "done"
          BY <1>1, <3>4 DEF RemoveContainer, Disconnect, RemoveNetwork
        <4> QED BY <3>1, <4>1 DEF CallsTo
      <3> QED BY <1>5, <3>2, <3>3, <3>4
    <2>2. MayExit(j)' <= MayExit(j)
      <3>1. CASE Launch(j)
        <4>1. container[j] = "none"
          BY <3>1 DEF Launch, RunnerInv, JobInv, Before
        <4> QED BY <4>1 DEF MayExit
      <3>2. CASE Timeout(j) \/ RemoveContainer(j)
        <4>1. container'[j] \in {container[j], "exited", "removed"}
          BY <1>1, <3>2 DEF Timeout, RemoveContainer, Killed
        <4> QED BY <4>1 DEF MayExit
      <3>3. CASE UNCHANGED container
        BY <3>3 DEF MayExit
      <3> QED BY <1>5, <3>1, <3>2, <3>3
              DEF Create, Connect, FindRegistry, Stream, StreamBreaks, Wait, Disconnect,
                  RemoveNetwork
    <2>3. CallsTo(pc'[j]) <= CallsTo(pc[j]) /\ MayPrune(j)' = MayPrune(j)
      <3>1. CallsTo(pc[j]) \in Nat /\ CallsTo(pc'[j]) \in Nat
        BY DEF RunnerInv, TypeOK, CallsTo
      <3> QED BY <2>1, <3>1 DEF MayPrune
    <2> QED BY <2>1, <2>2, <2>3, Nearer
  <1>6. CASE Exit(j)
    <2>1. container[j] = "running" /\ container'[j] = "exited" /\ UNCHANGED <<listed, pc>>
      BY <1>1, <1>6 DEF Exit
    <2>2. MayExit(j) = 1 /\ MayExit(j)' = 0 /\ MayPrune(j)' = MayPrune(j)
      BY <2>1 DEF MayExit, MayPrune
    <2>3. CallsTo(pc'[j]) <= CallsTo(pc[j])
      BY <2>1, LeftCounted DEF RunnerInv
    <2> QED BY <2>2, <2>3, Nearer
  <1> QED BY <1>2, <1>3, <1>4, <1>5, <1>6, <1>7, <1>8 DEF Run, Call, Break

\* Jobs do not hold each other up: what is left of JobsEnd is that threads and the
\* daemon proceed, and that scripts end.
THEOREM JobsHalt == Spec => JobsShorten
  <1>1. RunnerInv => CallsCounted
    BY LeftCounted DEF RunnerInv, CallsCounted
  <1>2. RunnerInv /\ RunnerInv' /\ [Next]_vars
        => [\E j \in Jobs : /\ CallsLeft(j)' < CallsLeft(j)
                            /\ \A k \in Jobs \ {j} : CallsLeft(k)' = CallsLeft(k)]_vars
    <2> SUFFICES ASSUME RunnerInv, RunnerInv', NEW j \in Jobs, Run(j) \/ Exit(j)
                 PROVE  /\ CallsLeft(j)' < CallsLeft(j)
                        /\ \A k \in Jobs \ {j} : CallsLeft(k)' = CallsLeft(k)
      BY DEF Next, Finished
    <2>1. CallsLeft(j)' < CallsLeft(j)
      BY StepNearer
    <2>2. ASSUME NEW k \in Jobs \ {j} PROVE CallsLeft(k)' = CallsLeft(k)
      BY OwnStep, FarAsBefore
    <2> QED BY <2>1, <2>2
  <1> QED BY <1>1, <1>2, DockerAgrees, PTL DEF Spec, JobsShorten
=============================================================================
