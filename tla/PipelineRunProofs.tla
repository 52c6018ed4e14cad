------------------------- MODULE PipelineRunProofs -------------------------
(***************************************************************************)
(* Theorems about PipelineRun: for any number of runs, any pipelines and   *)
(* every fault, what rows, log markers and the registry say of a run       *)
(* agrees with what the run did.                                           *)
(***************************************************************************)
EXTENDS PipelineRun, TLAPS

\* The invariant, for one run.
Local(r) == RowInv(r) /\ PublishInv(r) /\ EndInv(r) /\ LoopInv(r)

Reason(r) ==
    row[r].status = "failed" =>
        \/ cause[r] \in {"runner", "scheduler"}
        \/ cause[r] = "jobs" /\ \E j \in DOMAIN row[r].jobs : row[r].jobs[j] = "failed"
        \/ /\ cause[r] \in {"conflict", "refused", "timeout"} /\ AllSucceeded(row[r].jobs)
           /\ sent[r] < Len(pipeline[r].artifacts)
           /\ cause[r] = "conflict" =>
                 published[pipeline[r].artifacts[sent[r] + 1]] \notin {r, NoRun}

Order(c) ==
    published[c] \in Runs =>
        LET r == published[c] IN
        /\ AllSucceeded(outcome[r])
        /\ \E i \in DOMAIN pipeline[r].artifacts :
              pipeline[r].artifacts[i] = c /\ i <= sent[r] + (IF UnderWay(r) THEN 1 ELSE 0)

Inv == /\ RunInv
       /\ \A r \in Runs : Reason(r)
       /\ \A c \in Coordinates : Order(c)

LEMMA Parts == Inv <=> RunInv /\ FailureHasReason /\ PublishedInOrder
  BY DEF Inv, Reason, Order, FailureHasReason, PublishedInOrder

LEMMA InitInv == Init => Inv
  <1> SUFFICES ASSUME Init PROVE Inv
    OBVIOUS
  <1>1. pipeline \in Pipelines /\ \A r \in Runs : pipeline[r] \in Pipeline
    BY RunAssumption DEF Init
  <1>2. TypeOK
    <2>1. NoJobs \in Outcomes \cup {NoJobs}
      OBVIOUS
    <2>2. row \in [Runs -> Rows]
      BY <2>1 DEF Init, Rows
    <2> QED BY <1>1, <2>2 DEF Init, TypeOK, Causes
  <1>3. \A r \in Runs : pipeline[r].artifacts \in Seq(Coordinates)
    BY <1>1 DEF Pipeline
  <1>4. ASSUME NEW r \in Runs PROVE Local(r) /\ Reason(r)
    <2>1. Confirmed(r) = {}
      BY DEF Init, Confirmed
    <2>2. Len(pipeline[r].artifacts) \in Nat
      BY <1>3
    <2>3. PublishInv(r)
      BY <2>1, <2>2 DEF Init, PublishInv
    <2>4. pc[r] = "submitting" /\ row[r].status = "none" /\ eofs[r] = 0 /\ cause[r] = "none"
      BY DEF Init
    <2>5. RowInv(r) /\ EndInv(r) /\ Reason(r)
      BY <2>4 DEF RowInv, EndInv, Reason, Live
    <2>6. LoopInv(r)
      BY <2>4, RunAssumption DEF Init, LoopInv
    <2> QED BY <2>3, <2>5, <2>6 DEF Local
  <1>5. \A c \in Coordinates : Order(c)
    BY RunAssumption DEF Init, Order
  <1> QED BY <1>2, <1>4, <1>5 DEF Inv, RunInv, Local

\* The published artifacts stay, except that free coordinates may be taken.
Kept == \A c \in Coordinates : published[c] # NoRun => published'[c] = published[c]

\* A step leaves the invariant of the runs it does not touch.
LEMMA OthersKept ==
    ASSUME Inv, NEW s \in Runs, Kept, pipeline' = pipeline,
           row'[s] = row[s], eofs'[s] = eofs[s], cause'[s] = cause[s],
           outcome'[s] = outcome[s], sent'[s] = sent[s], pc'[s] = pc[s],
           loop' = s <=> loop = s
    PROVE  Local(s)' /\ Reason(s)'
  <1>1. /\ Local(s) /\ Reason(s) /\ pipeline[s].artifacts \in Seq(Coordinates)
        /\ sent[s] \in 0..Len(pipeline[s].artifacts)
    BY DEF Inv, RunInv, TypeOK, Pipeline, Local, PublishInv
  <1>2. \A i \in 1..Len(pipeline[s].artifacts) : pipeline[s].artifacts[i] \in Coordinates
    BY <1>1
  <1>3. \A c \in Confirmed(s) : c \in Coordinates
    BY <1>1, <1>2 DEF Confirmed
  <1>4. Confirmed(s)' = Confirmed(s)
    BY DEF Confirmed
  <1>5. \A c \in Confirmed(s) : published'[c] = s
    BY <1>1, <1>3, RunAssumption DEF Local, PublishInv, Kept
  <1>6. PublishInv(s)'
    BY <1>1, <1>4, <1>5 DEF Local, PublishInv
  <1>7. RowInv(s)' /\ EndInv(s)' /\ LoopInv(s)'
    BY <1>1 DEF Local, RowInv, EndInv, LoopInv
  <1>8. Reason(s)'
    <2>1. sent[s] < Len(pipeline[s].artifacts) =>
             pipeline[s].artifacts[sent[s] + 1] \in Coordinates
      BY <1>1, <1>2
    <2> QED BY <1>1, <2>1 DEF Reason, Kept
  <1> QED BY <1>6, <1>7, <1>8 DEF Local

\* What a step of run r shows to preserve the invariant.
Apart(r) == \A s \in Runs : s # r =>
    /\ row'[s] = row[s] /\ eofs'[s] = eofs[s] /\ cause'[s] = cause[s]
    /\ outcome'[s] = outcome[s] /\ sent'[s] = sent[s] /\ pc'[s] = pc[s]
    /\ loop' = s <=> loop = s

LEMMA StepInv ==
    ASSUME Inv, NEW r \in Runs, Kept, pipeline' = pipeline, Apart(r),
           TypeOK', Local(r)', Reason(r)', \A c \in Coordinates : Order(c)'
    PROVE  Inv'
  <1>1. ASSUME NEW s \in Runs, s # r PROVE Local(s)' /\ Reason(s)'
    BY <1>1, OthersKept DEF Apart
  <1>2. \A s \in Runs : Local(s)' /\ Reason(s)'
    BY <1>1
  <1> QED BY <1>2 DEF Inv, RunInv, Local

\* The order in which artifacts were published stays, if nothing is published and no
\* outcome changes that a publication rests on.
LEMMA OrderKept ==
    ASSUME Inv, NEW r \in Runs, pipeline' = pipeline, published' = published, Apart(r),
           sent'[r] = sent[r], UnderWay(r) => UnderWay(r)',
           outcome'[r] = outcome[r] \/ (sent[r] = 0 /\ ~UnderWay(r))
    PROVE  \A c \in Coordinates : Order(c)'
  <1> SUFFICES ASSUME NEW c \in Coordinates, published[c] \in Runs PROVE Order(c)'
    BY DEF Order
  <1> DEFINE s == published[c]
  <1>1. PICK i \in DOMAIN pipeline[s].artifacts :
          /\ AllSucceeded(outcome[s]) /\ pipeline[s].artifacts[i] = c
          /\ i <= sent[s] + (IF UnderWay(s) THEN 1 ELSE 0)
    BY DEF Inv, Order
  <1>2. i \in Nat \ {0} /\ sent[s] \in Nat
    BY DEF Inv, RunInv, TypeOK, Pipeline
  <1>3. CASE s # r
    BY <1>1, <1>3 DEF Apart, Order, UnderWay, AllSucceeded
  <1>4. CASE s = r
    <2>1. outcome'[r] = outcome[r]
      BY <1>1, <1>2, <1>4
    <2>2. i <= sent'[r] + (IF UnderWay(r)' THEN 1 ELSE 0)
      BY <1>1, <1>2, <1>4
    <2> QED BY <1>1, <1>4, <2>1, <2>2 DEF Order, AllSucceeded
  <1> QED BY <1>3, <1>4

\* What the invariant says of a run that has not ended.
LEMMA RunFacts ==
    ASSUME Inv, NEW r \in Runs
    PROVE  /\ Local(r) /\ Reason(r) /\ row[r] \in Rows /\ sent[r] \in Nat
           /\ row[r].status \in {"none", "queued", "running"} \cup Terminal
           /\ row[r].jobs \in Outcomes \cup {NoJobs}
           /\ pipeline[r].artifacts \in Seq(Coordinates) /\ Len(pipeline[r].artifacts) \in Nat
           /\ pc[r] \in {"submitting"} \cup (Live \ {"ending"}) =>
                 cause[r] = "none" /\ row[r].status \notin Terminal
  <1>1. /\ Local(r) /\ Reason(r) /\ row[r] \in Rows /\ sent[r] \in Nat
        /\ pipeline[r].artifacts \in Seq(Coordinates)
    BY DEF Inv, RunInv, TypeOK, Pipeline, Local
  <1>2. Len(pipeline[r].artifacts) \in Nat
    BY <1>1
  <1>3. /\ row[r].status \in {"none", "queued", "running"} \cup Terminal
        /\ row[r].jobs \in Outcomes \cup {NoJobs}
    BY <1>1 DEF Rows
  <1>4. pc[r] \in {"submitting"} \cup (Live \ {"ending"}) =>
           row[r].status \in {"none", "queued", "running"}
    BY <1>1 DEF Local, RowInv, Live
  <1>5. pc[r] \in {"submitting"} \cup (Live \ {"ending"}) =>
           cause[r] = "none" /\ row[r].status \notin Terminal
    BY <1>1, <1>4 DEF Local, EndInv, Live, Terminal, Failures
  <1> QED BY <1>1, <1>2, <1>3, <1>5

\* A step of r that publishes nothing.
LEMMA MoveInv ==
    ASSUME Inv, NEW r \in Runs, NEW to, NEW new, NEW why, NEW n, NEW f,
           UNCHANGED <<pipeline, published, sent>>, pc[r] # "dead",
           pc' = [pc EXCEPT ![r] = to], to \in Live \cup Stopped,
           row' = [row EXCEPT ![r] = new], new \in Rows,
           cause' = [cause EXCEPT ![r] = why], why \in Causes,
           cause[r] = "none" \/ why = cause[r],
           eofs' = [eofs EXCEPT ![r] = n], n \in 0..1,
           outcome' = [outcome EXCEPT ![r] = f], f \in Outcomes \cup {NoJobs},
           f = outcome[r] \/ (sent[r] = 0 /\ cause[r] = "none"),
           loop' \in Runs \cup {NoRun}, \A s \in Runs : s # r => (loop' = s <=> loop = s),
           loop' = r <=> to = "executing",
           RowInv(r)', EndInv(r)', Reason(r)',
           to \notin {"publishing", "ending", "done"} => sent[r] = 0,
           to = "publishing" => AllSucceeded(f)
    PROVE  Inv'
  <1>1. /\ pc'[r] = to /\ row'[r] = new /\ cause'[r] = why /\ eofs'[r] = n /\ outcome'[r] = f
    BY DEF Inv, RunInv, TypeOK
  <1>2. TypeOK'
    BY DEF Inv, RunInv, TypeOK
  <1>3. Apart(r) /\ Kept
    BY DEF Inv, RunInv, TypeOK, Apart, Kept
  <1>4. PublishInv(r)'
    <2>1. PublishInv(r)
      BY DEF Inv, RunInv
    <2>2. Confirmed(r)' = Confirmed(r)
      BY DEF Confirmed
    <2>3. sent[r] \in Nat
      BY RunFacts
    <2>4. sent[r] > 0 \/ to = "publishing" => AllSucceeded(f)
      BY <2>1, <2>3 DEF PublishInv
    <2>5. sent' = sent /\ pipeline' = pipeline /\ published' = published
      OBVIOUS
    <2>6. sent'[r] \in 0..Len(pipeline'[r].artifacts) /\ \A c \in Confirmed(r)' : published'[c] = r
      BY <2>1, <2>2, <2>5 DEF PublishInv
    <2> QED BY <1>1, <2>4, <2>5, <2>6 DEF PublishInv, AllSucceeded
  <1>5. LoopInv(r)'
    BY <1>1 DEF LoopInv
  <1>6. Local(r)'
    BY <1>4, <1>5 DEF Local
  <1>7. /\ UnderWay(r) => UnderWay(r)'
        /\ outcome'[r] = outcome[r] \/ (sent[r] = 0 /\ ~UnderWay(r))
    BY <1>1 DEF UnderWay, AllSucceeded
  <1>8. \A c \in Coordinates : Order(c)'
    BY <1>3, <1>7, OrderKept
  <1> QED BY <1>2, <1>3, <1>6, <1>8, StepInv

\* What does not change, as an update.
LEMMA Unchanged ==
    ASSUME Inv, NEW r \in Runs
    PROVE  /\ row = [row EXCEPT ![r] = row[r]] /\ cause = [cause EXCEPT ![r] = cause[r]]
           /\ eofs = [eofs EXCEPT ![r] = eofs[r]] /\ outcome = [outcome EXCEPT ![r] = outcome[r]]
           /\ eofs[r] \in 0..1 /\ cause[r] \in Causes /\ outcome[r] \in Outcomes \cup {NoJobs}
           /\ loop \in Runs \cup {NoRun}
  BY DEF Inv, RunInv, TypeOK

\* What the invariant says of a run whose coroutine moves on, before its end.
LEMMA Early ==
    ASSUME Inv, NEW r \in Runs, pc[r] \in {"submitting"} \cup (Live \ {"ending", "executing"})
    PROVE  /\ row[r].status \in {"none", "queued", "running"} /\ cause[r] = "none" /\ eofs[r] = 0
           /\ pc[r] = "submitting" => row[r].status = "none"
           /\ pc[r] \in {"queued", "spawned"} => row[r].status = "queued"
           /\ pc[r] \in {"resolving", "materializing", "scheduling", "publishing"} =>
                 row[r].status = "running"
           /\ pc[r] # "publishing" => sent[r] = 0
           /\ pc[r] = "publishing" => AllSucceeded(outcome[r])
           /\ NoRun \notin Runs
  <1>1. Local(r) /\ cause[r] = "none" /\ row[r].status \notin Terminal
        /\ row[r].status \in {"none", "queued", "running"} \cup Terminal
    BY RunFacts DEF Live
  <1>2. eofs[r] \in 0..1 /\ (eofs[r] = 1 <=> pc[r] = "done")
    BY <1>1, Unchanged DEF Local, RowInv
  <1>3. eofs[r] = 0
    BY <1>2 DEF Live
  <1>4. RowInv(r) /\ PublishInv(r)
    BY <1>1 DEF Local
  <1>5. row[r].status \in {"none", "queued", "running"}
    BY <1>1
  <1>6. /\ pc[r] = "submitting" => row[r].status = "none"
        /\ pc[r] \in {"queued", "spawned"} => row[r].status = "queued"
        /\ pc[r] \in {"resolving", "materializing", "scheduling", "publishing"} =>
              row[r].status = "running"
    BY <1>4 DEF RowInv, Live
  <1>7. /\ pc[r] # "publishing" => sent[r] = 0
        /\ pc[r] = "publishing" => AllSucceeded(outcome[r])
    BY <1>4 DEF PublishInv, Live
  <1> QED BY <1>1, <1>3, <1>5, <1>6, <1>7, RunAssumption

\* A step that only moves r on, with its status perhaps.
LEMMA OnwardInv ==
    ASSUME Inv, NEW r \in Runs, NEW to, NEW st, NEW jb \in Outcomes \cup {NoJobs},
           pc[r] \in {"submitting"} \cup (Live \ {"ending", "executing", "publishing"}),
           pc' = [pc EXCEPT ![r] = to], loop = NoRun,
           \/ to = "refused" /\ st = "none" /\ loop' = loop
           \/ to \in {"queued", "spawned"} /\ st = "queued" /\ loop' = loop
           \/ to \in {"resolving", "materializing", "scheduling"} /\ st = "running" /\ loop' = loop
           \/ to = "executing" /\ st = "running" /\ loop' = r,
           row' = [row EXCEPT ![r] = [status |-> st, jobs |-> jb]],
           UNCHANGED <<pipeline, published, sent, cause, eofs, outcome>>
    PROVE  Inv'
  <1> DEFINE new == [status |-> st, jobs |-> jb]
  <1>1. /\ cause[r] = "none" /\ eofs[r] = 0 /\ sent[r] = 0 /\ NoRun \notin Runs
    BY Early DEF Live
  <1>2. new \in Rows /\ new.status = st
    BY RunFacts DEF Rows
  <1>3. /\ cause' = [cause EXCEPT ![r] = cause[r]] /\ eofs' = [eofs EXCEPT ![r] = eofs[r]]
        /\ outcome' = [outcome EXCEPT ![r] = outcome[r]]
        /\ eofs[r] \in 0..1 /\ cause[r] \in Causes /\ outcome[r] \in Outcomes \cup {NoJobs}
    BY Unchanged
  <1>4. pc'[r] = to /\ row'[r] = new
    BY DEF Inv, RunInv, TypeOK
  <1> HIDE DEF new
  <1>5. RowInv(r)' /\ EndInv(r)' /\ Reason(r)'
    BY <1>1, <1>2, <1>4 DEF RowInv, EndInv, Reason, Live, Terminal, Failures
  <1>6. row' = [row EXCEPT ![r] = new]
    BY DEF new
  <1>7. /\ to \in Live \cup Stopped /\ to \notin {"publishing", "ending", "done"}
        /\ pc[r] # "dead"
    BY DEF Live, Stopped
  <1>8. /\ loop' \in Runs \cup {NoRun} /\ (loop' = r <=> to = "executing")
        /\ \A s \in Runs : s # r => (loop' = s <=> loop = s)
    BY <1>1
  <1> QED BY <1>1, <1>2, <1>3, <1>5, <1>6, <1>7, <1>8, MoveInv

\* A step that ends r with a failure, before it publishes anything.
LEMMA FailInv ==
    ASSUME Inv, NEW r \in Runs, NEW st \in Failures, NEW jb \in Outcomes \cup {NoJobs},
           NEW why \in Causes, NEW f \in Outcomes \cup {NoJobs},
           row[r].status = "running", cause[r] = "none", eofs[r] = 0, pc[r] # "dead",
           pc' = [pc EXCEPT ![r] = "ending"], loop \in {r, NoRun}, loop' = NoRun,
           row' = [row EXCEPT ![r] = [status |-> st, jobs |-> jb]],
           cause' = [cause EXCEPT ![r] = why], outcome' = [outcome EXCEPT ![r] = f],
           f = outcome[r] \/ sent[r] = 0,
           st = "failed" =>
              \/ why \in {"runner", "scheduler"}
              \/ why = "jobs" /\ \E j \in DOMAIN jb : jb[j] = "failed"
              \/ /\ why \in {"conflict", "refused", "timeout"} /\ AllSucceeded(jb)
                 /\ sent[r] < Len(pipeline[r].artifacts)
                 /\ why = "conflict" =>
                       published[pipeline[r].artifacts[sent[r] + 1]] \notin {r, NoRun},
           UNCHANGED <<pipeline, published, sent, eofs>>
    PROVE  Inv'
  <1> DEFINE new == [status |-> st, jobs |-> jb]
  <1>1. new \in Rows /\ new.status = st /\ new.jobs = jb
    BY DEF Rows, Terminal
  <1>2. eofs' = [eofs EXCEPT ![r] = eofs[r]] /\ NoRun \notin Runs
    BY Unchanged, RunAssumption
  <1>3. pc'[r] = "ending" /\ row'[r] = new /\ cause'[r] = why
    BY DEF Inv, RunInv, TypeOK
  <1> HIDE DEF new
  <1>4. RowInv(r)' /\ EndInv(r)'
    BY <1>1, <1>3 DEF RowInv, EndInv, Live, Terminal, Failures
  <1>5. Reason(r)'
    BY <1>1, <1>3 DEF Reason
  <1>6. row' = [row EXCEPT ![r] = new] /\ "ending" \in Live
    BY DEF new, Live
  <1>7. /\ loop' \in Runs \cup {NoRun} /\ (loop' = r <=> "ending" = "executing")
        /\ \A s \in Runs : s # r => (loop' = s <=> loop = s)
    BY <1>2
  <1>8. eofs[r] \in 0..1
    BY Unchanged
  <1> QED BY <1>1, <1>2, <1>4, <1>5, <1>6, <1>7, <1>8, MoveInv

\* A step beside the runs: of a client, or of someone else who publishes.
LEMMA SideInv ==
    ASSUME Inv, Kept, TypeOK', UNCHANGED <<pipeline, row, eofs, cause, outcome, sent, loop, pc>>,
           \A c \in Coordinates : published'[c] # published[c] => published'[c] \notin Runs
    PROVE  Inv'
  <1>1. \A s \in Runs : Local(s)' /\ Reason(s)'
    BY OthersKept
  <1>2. \A c \in Coordinates : Order(c)'
    BY DEF Inv, Order, UnderWay, AllSucceeded
  <1> QED BY <1>1, <1>2 DEF Inv, RunInv, Local

\* The engine dies.
LEMMA CrashInv == Inv /\ Crash => Inv'
  <1> SUFFICES ASSUME Inv, Crash PROVE Inv'
    OBVIOUS
  <1>1. TypeOK'
    <2>1. pc' \in [Runs -> Live \cup Stopped \cup {"submitting"}]
      BY DEF Inv, RunInv, TypeOK, Stopped, Crash
    <2> QED BY <2>1 DEF Inv, RunInv, TypeOK, Crash
  <1>2. ASSUME NEW r \in Runs PROVE Local(r)' /\ Reason(r)'
    <2>1. Local(r) /\ Reason(r)
      BY RunFacts
    <2>2. pc'[r] = IF pc[r] \in Live THEN "dead" ELSE pc[r]
      BY DEF Crash
    <2>3. RowInv(r)'
      BY <2>1, <2>2 DEF Local, RowInv, Live, Crash
    <2>4. PublishInv(r)'
      <3>1. Confirmed(r)' = Confirmed(r)
        BY DEF Confirmed, Crash
      <3> QED BY <2>1, <2>2, <3>1 DEF Local, PublishInv, AllSucceeded, Live, Crash
    <2>5. EndInv(r)' /\ LoopInv(r)' /\ Reason(r)'
      BY <2>1, <2>2, RunAssumption DEF Local, EndInv, LoopInv, Reason, AllSucceeded, Live, Crash
    <2> QED BY <2>3, <2>4, <2>5 DEF Local
  <1>3. ASSUME NEW c \in Coordinates PROVE Order(c)'
    <2> SUFFICES ASSUME published[c] \in Runs PROVE Order(c)'
      BY DEF Order, Crash
    <2> DEFINE s == published[c]
    <2>1. PICK i \in DOMAIN pipeline[s].artifacts :
            /\ AllSucceeded(outcome[s]) /\ pipeline[s].artifacts[i] = c
            /\ i <= sent[s] + (IF UnderWay(s) THEN 1 ELSE 0)
      BY DEF Inv, Order
    <2>2. i \in Nat /\ sent[s] \in Nat
      BY RunFacts
    <2>3. UnderWay(s) => UnderWay(s)'
      BY DEF UnderWay, AllSucceeded, Live, Crash
    <2> QED BY <2>1, <2>2, <2>3 DEF Order, AllSucceeded, Crash
  <1> QED BY <1>1, <1>2, <1>3 DEF Inv, RunInv, Local

\* The registry takes the next artifact of r, and r learns it, or nobody does.
LEMMA AcceptedInv ==
    ASSUME Inv, NEW r \in Runs, NEW i \in DOMAIN pipeline[r].artifacts, i = sent[r] + 1,
           Accepted(r, i), UNCHANGED <<pipeline, row, eofs, cause, outcome, loop, pc>>,
           \/ pc[r] = "publishing" /\ sent' = [sent EXCEPT ![r] = @ + 1]
           \/ UnderWay(r) /\ UNCHANGED sent
    PROVE  Inv'
  <1> DEFINE arts == pipeline[r].artifacts
             k == arts[i]
  <1>1. NoRun \notin Runs /\ Local(r) /\ Reason(r)
    BY RunFacts, RunAssumption
  <1>2. /\ arts \in Seq(Coordinates) /\ Len(arts) \in Nat /\ sent[r] \in Nat
        /\ i \in 1..Len(arts)
    BY RunFacts
  <1>3. k \in Coordinates /\ published[k] = NoRun /\ published' = [published EXCEPT ![k] = r]
    BY <1>2 DEF Accepted
  <1>4. published'[k] = r /\ Kept /\ \A c \in Coordinates : c # k => published'[c] = published[c]
    BY <1>3 DEF Inv, RunInv, TypeOK, Kept
  <1>5. Apart(r)
    BY DEF Inv, RunInv, TypeOK, Apart
  <1>6. TypeOK'
    <2>1. published' \in [Coordinates -> Runs \cup {NoRun, Outsider}]
      BY <1>3 DEF Inv, RunInv, TypeOK
    <2>2. sent' \in [Runs -> Nat]
      <3>1. sent \in [Runs -> Nat] /\ sent[r] + 1 \in Nat
        BY <1>2 DEF Inv, RunInv, TypeOK
      <3> QED BY <3>1
    <2> QED BY <2>1, <2>2 DEF Inv, RunInv, TypeOK
  <1>7. \/ sent'[r] = i /\ pc[r] = "publishing"
        \/ sent'[r] = sent[r] /\ UnderWay(r)
    BY DEF Inv, RunInv, TypeOK
  <1>8. AllSucceeded(outcome[r])
    BY <1>1, <1>7 DEF Local, PublishInv, UnderWay
  <1>9. PublishInv(r)'
    <2>1. \A j \in 1..sent[r] : arts[j] \in Coordinates /\ published[arts[j]] = r
      <3>1. sent[r] <= Len(arts) /\ \A c \in Confirmed(r) : published[c] = r
        BY <1>1, <1>2 DEF Local, PublishInv
      <3>2. \A j \in 1..sent[r] : j \in 1..Len(arts)
        BY <1>2, <3>1
      <3>3. \A j \in 1..sent[r] : arts[j] \in Confirmed(r)
        BY DEF Confirmed
      <3> QED BY <1>2, <3>1, <3>2, <3>3
    <2>2. sent'[r] \in 0..Len(arts) /\ \A j \in 1..sent'[r] : j \in 1..sent[r] \/ j = i
      BY <1>2, <1>7
    <2>3. \A j \in 1..sent'[r] : published'[arts[j]] = r
      BY <1>1, <1>4, <2>1, <2>2 DEF Kept
    <2>4. \A c \in Confirmed(r)' : published'[c] = r
      BY <2>3 DEF Confirmed
    <2>5. pc[r] \notin {"publishing", "ending", "done", "dead"} => sent'[r] = 0
      BY <1>1, <1>7 DEF Local, PublishInv
    <2> QED BY <1>8, <2>2, <2>4, <2>5 DEF PublishInv, AllSucceeded
  <1>10. RowInv(r)' /\ LoopInv(r)'
    BY <1>1 DEF Local, RowInv, LoopInv
  <1>11. EndInv(r)'
    <2>1. row[r].status = "succeeded" => sent'[r] = sent[r]
      BY <1>1, <1>7 DEF Local, RowInv, Live
    <2> QED BY <1>1, <2>1 DEF Local, EndInv, AllSucceeded
  <1>12. Reason(r)'
    <2>1. pc[r] = "publishing" => row[r].status # "failed"
      BY <1>1 DEF Local, RowInv, Live
    <2>2. cause[r] = "conflict" => row[r].status # "failed" \/ ~UnderWay(r)
      BY <1>1 DEF Local, RowInv, UnderWay
    <2> QED BY <1>1, <1>7, <2>1, <2>2 DEF Reason, AllSucceeded
  <1>13. ASSUME NEW c \in Coordinates PROVE Order(c)'
    <2>1. UnderWay(r)' <=> UnderWay(r)
      BY DEF UnderWay, AllSucceeded
    <2>2. CASE c = k
      <3>1. i <= sent'[r] + (IF UnderWay(r)' THEN 1 ELSE 0)
        BY <1>2, <1>7, <2>1
      <3> QED BY <1>4, <1>8, <2>2, <3>1 DEF Order, AllSucceeded
    <2>3. CASE c # k
      <3>1. SUFFICES ASSUME published[c] \in Runs PROVE Order(c)'
        BY <1>4, <2>3 DEF Order
      <3> DEFINE s == published[c]
      <3>2. PICK j \in DOMAIN pipeline[s].artifacts :
              /\ AllSucceeded(outcome[s]) /\ pipeline[s].artifacts[j] = c
              /\ j <= sent[s] + (IF UnderWay(s) THEN 1 ELSE 0)
        BY <3>1 DEF Inv, Order
      <3>3. published'[c] = s
        BY <1>4, <2>3
      <3>4. j \in Nat /\ sent[s] \in Nat /\ sent[s] <= sent'[s]
        <4>1. j \in Nat /\ sent[s] \in Nat
          BY <3>1, <3>2, RunFacts
        <4>2. CASE s = r
          BY <1>2, <1>7, <4>2
        <4>3. CASE s # r
          BY <1>5, <3>1, <4>1, <4>3 DEF Apart
        <4> QED BY <4>1, <4>2, <4>3
      <3>5. UnderWay(s)' <=> UnderWay(s)
        <4>1. cause' = cause /\ pc' = pc /\ row' = row /\ outcome' = outcome
          OBVIOUS
        <4>2. published'[c] = published[c]
          BY <3>3
        <4> QED BY <4>1, <4>2 DEF UnderWay, AllSucceeded
      <3>6. j <= sent'[s] + (IF UnderWay(s)' THEN 1 ELSE 0)
        <4>1. sent'[s] \in Nat
          BY <1>6, <3>1 DEF TypeOK
        <4> QED BY <3>2, <3>4, <3>5, <4>1
      <3> QED BY <3>1, <3>2, <3>3, <3>6 DEF Order, AllSucceeded
    <2> QED BY <2>2, <2>3
  <1>14. Local(r)'
    BY <1>9, <1>10, <1>11 DEF Local
  <1>15. \A c \in Coordinates : Order(c)'
    BY <1>13
  <1> QED BY <1>4, <1>5, <1>6, <1>12, <1>14, <1>15, StepInv

LEMMA LandInv == ASSUME Inv, NEW r \in Runs, Land(r) PROVE Inv'
  BY AcceptedInv DEF Land

\* A row that stays is updated to itself.
LEMMA SameRow ==
    ASSUME Inv, NEW r \in Runs
    PROVE  row = [row EXCEPT ![r] = [status |-> row[r].status, jobs |-> row[r].jobs]]
  <1>1. row \in [Runs -> Rows] /\ row[r] \in Rows
    BY DEF Inv, RunInv, TypeOK
  <1>2. row[r] = [status |-> row[r].status, jobs |-> row[r].jobs]
    BY <1>1 DEF Rows
  <1> QED BY <1>1, <1>2

LEMMA StartingInv == ASSUME Inv, NEW r \in Runs, Refuse(r) \/ Enqueue(r) \/ Spawn(r) \/ Start(r)
                     PROVE  Inv'
  <1>1. /\ row = [row EXCEPT ![r] = [status |-> row[r].status, jobs |-> row[r].jobs]]
        /\ row[r].jobs \in Outcomes \cup {NoJobs} /\ NoJobs \in Outcomes \cup {NoJobs}
    BY SameRow, RunFacts
  <1>2. CASE Refuse(r)
    <2>1. row[r].status = "none"
      BY <1>2, Early DEF Refuse, Goto
    <2> QED BY <1>1, <1>2, <2>1, OnwardInv DEF Refuse, Goto
  <1>3. CASE Enqueue(r)
    BY <1>1, <1>3, OnwardInv DEF Enqueue, Goto, Update
  <1>4. CASE Spawn(r)
    <2>1. pc[r] = "queued" /\ pc[r] \in Live \ {"ending", "executing", "publishing"}
      BY <1>4 DEF Spawn, Goto, Live
    <2>2. row[r].status = "queued"
      BY <2>1, Early
    <2> QED BY <1>1, <1>4, <2>1, <2>2, OnwardInv DEF Spawn, Goto
  <1>5. CASE Start(r)
    <2>1. pc[r] \in Live \ {"ending", "executing", "publishing"}
      BY <1>5 DEF Start, Goto, Live
    <2> QED BY <1>1, <1>5, <2>1, OnwardInv DEF Start, Goto, Update
  <1> QED BY <1>2, <1>3, <1>4, <1>5

LEMMA ResolveInv == ASSUME Inv, NEW r \in Runs, Resolve(r) PROVE Inv'
  <1>1. pc[r] = "resolving" /\ pc[r] \in Live \ {"ending", "executing", "publishing"} /\ loop = NoRun
    BY DEF Resolve, Goto, Live
  <1>2. row[r].status = "running" /\ cause[r] = "none" /\ eofs[r] = 0 /\ sent[r] = 0
    BY <1>1, Early
  <1>3. /\ row = [row EXCEPT ![r] = [status |-> row[r].status, jobs |-> row[r].jobs]]
        /\ row[r].jobs \in Outcomes \cup {NoJobs}
    BY SameRow, RunFacts
  <1>4. CASE Goto(r, "resolving", "materializing") /\ UNCHANGED <<row, cause>>
    BY <1>1, <1>2, <1>3, <1>4, OnwardInv DEF Resolve, Goto
  <1>5. CASE /\ Goto(r, "resolving", AfterFailure)
             /\ Update(r, "conflict_failure", row[r].jobs) /\ Because(r, "resolution")
    <2>1. /\ outcome' = [outcome EXCEPT ![r] = outcome[r]] /\ outcome[r] \in Outcomes \cup {NoJobs}
          /\ "resolution" \in Causes /\ "conflict_failure" \in Failures
      BY Unchanged DEF Resolve, Causes, Failures
    <2> QED BY <1>1, <1>2, <1>3, <1>5, <2>1, FailInv
            DEF Resolve, Goto, AfterFailure, Update, Because
  <1> QED BY <1>4, <1>5 DEF Resolve

LEMMA MaterializeInv == ASSUME Inv, NEW r \in Runs, Materialize(r) PROVE Inv'
  <1>1. /\ pc[r] = "materializing" /\ pc[r] \in Live \ {"ending", "executing", "publishing"}
        /\ loop = NoRun
    BY DEF Materialize, Goto, Live
  <1>2. /\ row[r].status = "running" /\ cause[r] = "none" /\ eofs[r] = 0 /\ sent[r] = 0
        /\ NoRun \notin Runs
    BY <1>1, Early
  <1>3. /\ row = [row EXCEPT ![r] = [status |-> row[r].status, jobs |-> row[r].jobs]]
        /\ row[r].jobs \in Outcomes \cup {NoJobs}
    BY SameRow, RunFacts
  <1>4. CASE Goto(r, "materializing", "scheduling") /\ UNCHANGED <<row, cause>>
    BY <1>1, <1>2, <1>3, <1>4, OnwardInv DEF Materialize, Goto
  <1>5. CASE /\ Goto(r, "materializing", "ending")
             /\ Update(r, "integrity_failure", NoJobs) /\ Because(r, "integrity")
    <2>1. /\ outcome' = [outcome EXCEPT ![r] = outcome[r]] /\ outcome[r] \in Outcomes \cup {NoJobs}
          /\ "integrity" \in Causes /\ "integrity_failure" \in Failures
          /\ NoJobs \in Outcomes \cup {NoJobs}
      BY Unchanged DEF Materialize, Causes, Failures
    <2> QED BY <1>1, <1>2, <1>5, <2>1, FailInv DEF Materialize, Goto, Update, Because
  <1>6. CASE Goto(r, "materializing", "raised") /\ UNCHANGED <<row, cause>>
    <2>1. /\ outcome = [outcome EXCEPT ![r] = outcome[r]] /\ outcome[r] \in Outcomes \cup {NoJobs}
          /\ eofs = [eofs EXCEPT ![r] = eofs[r]] /\ cause = [cause EXCEPT ![r] = cause[r]]
          /\ eofs[r] \in 0..1 /\ cause[r] \in Causes /\ loop \in Runs \cup {NoRun}
      BY Unchanged
    <2>2. UNCHANGED <<pipeline, row, eofs, cause, outcome, published, sent, loop>>
      BY <1>6 DEF Materialize, Goto
    <2>3. pc'[r] = "raised" /\ pc' = [pc EXCEPT ![r] = "raised"]
      BY <1>6 DEF Inv, RunInv, TypeOK, Goto
    <2>4. RowInv(r)' /\ EndInv(r)' /\ Reason(r)'
      BY <1>2, <2>2, <2>3 DEF RowInv, EndInv, Reason, Live, Terminal, Failures
    <2>5. row' = [row EXCEPT ![r] = row[r]] /\ row[r] \in Rows
      BY <2>2, Unchanged, RunFacts
    <2>6. /\ cause' = [cause EXCEPT ![r] = cause[r]] /\ eofs' = [eofs EXCEPT ![r] = eofs[r]]
          /\ outcome' = [outcome EXCEPT ![r] = outcome[r]] /\ eofs[r] \in 0..1
      BY <2>1, <2>2
    <2>7. /\ loop' \in Runs \cup {NoRun} /\ (loop' = r <=> "raised" = "executing")
          /\ \A s \in Runs : s # r => (loop' = s <=> loop = s)
      BY <1>1, <1>2, <2>2
    <2>8. UNCHANGED <<pipeline, published, sent>>
      BY <2>2
    <2> HIDE DEF Rows, Reason
    <2>9. pc[r] # "dead" /\ "raised" \in Live \cup Stopped
      BY <1>1 DEF Stopped
    <2> QED BY <1>2, <2>1, <2>3, <2>4, <2>5, <2>6, <2>7, <2>8, <2>9, MoveInv
  <1> QED BY <1>4, <1>5, <1>6 DEF Materialize

LEMMA ScheduleInv == ASSUME Inv, NEW r \in Runs, Schedule(r) PROVE Inv'
  <1>1. /\ pc[r] = "scheduling" /\ pc[r] \in Live \ {"ending", "executing", "publishing"}
        /\ loop = NoRun
    BY DEF Schedule, Goto, Live
  <1>2. row[r].status = "running" /\ cause[r] = "none" /\ eofs[r] = 0 /\ sent[r] = 0
    BY <1>1, Early
  <1>3. /\ row = [row EXCEPT ![r] = [status |-> row[r].status, jobs |-> row[r].jobs]]
        /\ row[r].jobs \in Outcomes \cup {NoJobs} /\ NoJobs \in Outcomes \cup {NoJobs}
    BY SameRow, RunFacts
  <1>4. /\ outcome' = [outcome EXCEPT ![r] = outcome[r]] /\ outcome[r] \in Outcomes \cup {NoJobs}
        /\ {"graph", "runner"} \subseteq Causes /\ {"cycle_failure", "failed"} \subseteq Failures
    BY Unchanged DEF Schedule, Causes, Failures
  <1>5. CASE Goto(r, "scheduling", "executing") /\ loop' = r /\ UNCHANGED <<row, cause>>
    BY <1>1, <1>2, <1>3, <1>5, OnwardInv DEF Schedule, Goto
  <1>6. CASE /\ Goto(r, "scheduling", "ending") /\ UNCHANGED loop
             /\ Update(r, "cycle_failure", row[r].jobs) /\ Because(r, "graph")
    BY <1>1, <1>2, <1>3, <1>4, <1>6, FailInv DEF Schedule, Goto, Update, Because
  <1>7. CASE /\ Goto(r, "scheduling", "ending") /\ UNCHANGED loop
             /\ Update(r, "failed", NoJobs) /\ Because(r, "runner")
    BY <1>1, <1>2, <1>3, <1>4, <1>7, FailInv DEF Schedule, Goto, Update, Because
  <1> QED BY <1>5, <1>6, <1>7 DEF Schedule

LEMMA JobsEndInv == ASSUME Inv, NEW r \in Runs, JobsEnd(r) PROVE Inv'
  <1>1. pc[r] = "executing" /\ loop = r /\ loop' = NoRun /\ NoRun \notin Runs
    BY RunAssumption DEF JobsEnd
  <1>2. Local(r) /\ cause[r] = "none" /\ row[r].jobs \in Outcomes \cup {NoJobs} /\ row[r] \in Rows
    BY <1>1, RunFacts DEF Live
  <1>3. row[r].status = "running" /\ eofs[r] = 0 /\ sent[r] = 0
    <2>1. eofs[r] \in 0..1
      BY Unchanged
    <2> QED BY <1>1, <1>2, <2>1 DEF Local, RowInv, PublishInv, Live
  <1>4. UNCHANGED <<pipeline, eofs, published, sent>>
    BY DEF JobsEnd
  <1>5. {"jobs", "scheduler"} \subseteq Causes /\ "failed" \in Failures
    BY DEF Causes, Failures
  <1>6. ASSUME NEW f \in Outcomes, outcome' = [outcome EXCEPT ![r] = f], Passed(f),
               pc' = [pc EXCEPT ![r] = "publishing"], UNCHANGED <<row, cause>>
        PROVE  Inv'
    <2>1. AllSucceeded(f)
      BY <1>6 DEF AllSucceeded, Outcomes, Passed
    <2>2. pc'[r] = "publishing"
      BY <1>6 DEF Inv, RunInv, TypeOK
    <2>3. RowInv(r)' /\ EndInv(r)' /\ Reason(r)'
      BY <1>2, <1>3, <1>4, <1>6, <2>2 DEF RowInv, EndInv, Reason, Live, Terminal, Failures
    <2>4. /\ row' = [row EXCEPT ![r] = row[r]] /\ cause' = [cause EXCEPT ![r] = cause[r]]
          /\ eofs' = [eofs EXCEPT ![r] = eofs[r]] /\ eofs[r] \in 0..1 /\ cause[r] \in Causes
      BY <1>4, <1>6, Unchanged
    <2>5. "publishing" \in Live /\ f \in Outcomes \cup {NoJobs}
      BY DEF Live
    <2>6. /\ loop' \in Runs \cup {NoRun} /\ (loop' = r <=> "publishing" = "executing")
          /\ \A s \in Runs : s # r => (loop' = s <=> loop = s)
      BY <1>1
    <2> HIDE DEF Rows, Reason
    <2>7. pc[r] # "dead"
      BY <1>1
    <2> QED BY <1>2, <1>3, <1>4, <1>6, <2>1, <2>3, <2>4, <2>5, <2>6, <2>7, MoveInv
  <1>7. ASSUME NEW f \in Outcomes, outcome' = [outcome EXCEPT ![r] = f], ~Passed(f),
               pc' = [pc EXCEPT ![r] = "ending"], Update(r, "failed", JobResults(r, f)),
               Because(r, "jobs")
        PROVE  Inv'
    <2>1. f \in Outcomes \cup {NoJobs} /\ \E j \in DOMAIN f : f[j] = "failed"
      BY <1>7 DEF Outcomes, Passed
    <2> QED BY <1>1, <1>2, <1>3, <1>4, <1>5, <1>7, <2>1, FailInv
            DEF Update, Because, JobResults
  <1>8. CASE /\ pc' = [pc EXCEPT ![r] = "ending"] /\ Update(r, "failed", row[r].jobs)
             /\ Because(r, "scheduler") /\ UNCHANGED outcome
    <2>1. outcome' = [outcome EXCEPT ![r] = outcome[r]] /\ outcome[r] \in Outcomes \cup {NoJobs}
      BY <1>8, Unchanged
    <2> QED BY <1>1, <1>2, <1>3, <1>4, <1>5, <1>8, <2>1, FailInv DEF Update, Because
  <1> QED BY <1>6, <1>7, <1>8 DEF JobsEnd

\* What a run is about to upload it has not published.
LEMMA NotYetSent ==
    ASSUME Inv, NEW r \in Runs, pc[r] = "publishing",
           NEW i \in DOMAIN pipeline[r].artifacts, i = sent[r] + 1
    PROVE  /\ pipeline[r].artifacts[i] \in Coordinates
           /\ published[pipeline[r].artifacts[i]] # r
           /\ cause[r] = "none" /\ sent[r] \in Nat
  <1> DEFINE c == pipeline[r].artifacts[i]
  <1>1. c \in Coordinates /\ cause[r] = "none" /\ sent[r] \in Nat
    BY RunFacts DEF Live
  <1>2. SUFFICES ASSUME published[c] = r PROVE FALSE
    BY <1>1
  <1>3. PICK j \in DOMAIN pipeline[r].artifacts :
          pipeline[r].artifacts[j] = c /\ j <= sent[r] + (IF UnderWay(r) THEN 1 ELSE 0)
    BY <1>1, <1>2 DEF Inv, Order
  <1>4. j <= sent[r]
    BY <1>1, <1>3, RunFacts DEF UnderWay
  <1>5. pipeline[r] \in Pipeline
    BY DEF Inv, RunInv, TypeOK
  <1>6. i = j
    BY <1>3, <1>5 DEF Pipeline
  <1> QED BY <1>1, <1>4, <1>6

LEMMA PublishStepInv == ASSUME Inv, NEW r \in Runs, Publish(r) PROVE Inv'
  <1>1. pc[r] = "publishing" /\ pc[r] \in Live \ {"ending", "executing"} /\ loop = NoRun
    BY DEF Publish, Goto, PublishFails, Live
  <1>2. /\ row[r].status = "running" /\ cause[r] = "none" /\ eofs[r] = 0
        /\ AllSucceeded(outcome[r])
    BY <1>1, Early
  <1>3. UNCHANGED <<pipeline, eofs, outcome, loop>>
    BY DEF Publish, Goto, PublishFails
  <1>4. PICK i \in DOMAIN pipeline[r].artifacts :
          /\ i = sent[r] + 1
          /\ \/ /\ Goto(r, "publishing", "publishing") /\ Accepted(r, i)
                /\ sent' = [sent EXCEPT ![r] = @ + 1]
                /\ UNCHANGED <<row, cause>>
             \/ /\ published[pipeline[r].artifacts[i]] # NoRun
                /\ PublishFails(r, "conflict") /\ UNCHANGED published
             \/ PublishFails(r, "refused") /\ UNCHANGED published
             \/ PublishFails(r, "timeout") /\ UNCHANGED published
    BY DEF Publish, Following
  <1>5. CASE /\ Goto(r, "publishing", "publishing") /\ Accepted(r, i)
             /\ sent' = [sent EXCEPT ![r] = @ + 1] /\ UNCHANGED <<row, cause>>
    <2>1. UNCHANGED pc
      BY <1>1, <1>5 DEF Inv, RunInv, TypeOK, Goto
    <2> QED BY <1>1, <1>3, <1>4, <1>5, <2>1, AcceptedInv
  <1>6. CASE \/ /\ published[pipeline[r].artifacts[i]] # NoRun
                /\ PublishFails(r, "conflict") /\ UNCHANGED published
             \/ PublishFails(r, "refused") /\ UNCHANGED published
             \/ PublishFails(r, "timeout") /\ UNCHANGED published
    <2>1. PICK why \in {"conflict", "refused", "timeout"} :
            /\ PublishFails(r, why) /\ UNCHANGED published
            /\ why = "conflict" => published[pipeline[r].artifacts[i]] # NoRun
      BY <1>6
    <2>2. sent[r] < Len(pipeline[r].artifacts) /\ sent[r] + 1 = i
      BY <1>4, RunFacts
    <2> DEFINE c == pipeline[r].artifacts[i]
    <2>3. published[c] # r
      BY <1>1, <1>4, NotYetSent
    <2>4. /\ outcome' = [outcome EXCEPT ![r] = outcome[r]] /\ outcome[r] \in Outcomes \cup {NoJobs}
          /\ {"conflict", "refused", "timeout"} \subseteq Causes /\ "failed" \in Failures
      BY <1>3, Unchanged DEF Causes, Failures
    <2>5. sent' = sent
      BY <2>1 DEF PublishFails
    <2>6. /\ pc' = [pc EXCEPT ![r] = "ending"] /\ Update(r, "failed", outcome[r])
          /\ Because(r, why)
      BY <2>1 DEF PublishFails, Goto
    <2>7. why = "conflict" =>
             published[pipeline[r].artifacts[sent[r] + 1]] \notin {r, NoRun}
      BY <1>4, <2>1, <2>3
    <2> QED BY <1>1, <1>2, <1>3, <2>1, <2>2, <2>4, <2>5, <2>6, <2>7, FailInv
            DEF Update, Because
  <1> QED BY <1>4, <1>5, <1>6

\* The run ends well, and its log ends.
LEMMA EndedInv == ASSUME Inv, NEW r \in Runs, Succeed(r) \/ EndLog(r) PROVE Inv'
  <1>1. /\ Local(r) /\ Reason(r) /\ row[r] \in Rows /\ sent[r] \in Nat /\ NoRun \notin Runs
        /\ pipeline[r].artifacts \in Seq(Coordinates) /\ Len(pipeline[r].artifacts) \in Nat
    BY RunFacts, RunAssumption
  <1>2. /\ row = [row EXCEPT ![r] = row[r]] /\ cause = [cause EXCEPT ![r] = cause[r]]
        /\ eofs = [eofs EXCEPT ![r] = eofs[r]] /\ outcome = [outcome EXCEPT ![r] = outcome[r]]
        /\ eofs[r] \in 0..1 /\ cause[r] \in Causes /\ outcome[r] \in Outcomes \cup {NoJobs}
    BY Unchanged
  <1>3. CASE Succeed(r)
    <2> DEFINE new == [status |-> "succeeded", jobs |-> outcome[r]]
    <2>1. pc[r] = "publishing" /\ pc[r] \in Live \ {"ending", "executing"} /\ loop = NoRun
      BY <1>3 DEF Succeed, Goto, Live
    <2>2. AllSucceeded(outcome[r]) /\ cause[r] = "none" /\ eofs[r] = 0
      BY <2>1, Early
    <2>3. new \in Rows /\ new.status = "succeeded" /\ new.jobs = outcome[r]
      BY <1>2 DEF Rows, Terminal
    <2>4. /\ UNCHANGED <<pipeline, published, sent, eofs, cause, outcome, loop>>
          /\ pc' = [pc EXCEPT ![r] = "ending"] /\ row' = [row EXCEPT ![r] = new]
      BY <1>3 DEF Succeed, Goto, Update
    <2>5. pc'[r] = "ending" /\ row'[r] = new
      BY <2>4 DEF Inv, RunInv, TypeOK
    <2>6. sent[r] = Len(pipeline[r].artifacts)
      <3>1. sent[r] \in 0..Len(pipeline[r].artifacts)
        BY <1>1 DEF Local, PublishInv
      <3>2. \A i \in 1..Len(pipeline[r].artifacts) : ~(i > sent[r])
        BY <1>1, <1>3 DEF Succeed, Finished, Left
      <3>3. sent[r] < Len(pipeline[r].artifacts) => sent[r] + 1 \in 1..Len(pipeline[r].artifacts)
        BY <1>1, <3>1
      <3> QED BY <1>1, <3>1, <3>2, <3>3
    <2> HIDE DEF new
    <2>7. RowInv(r)' /\ Reason(r)'
      BY <2>2, <2>3, <2>4, <2>5 DEF RowInv, Reason, Live, Terminal, Failures
    <2>8. EndInv(r)'
      BY <2>2, <2>3, <2>4, <2>5, <2>6 DEF EndInv, AllSucceeded, Failures
    <2>9. /\ loop' \in Runs \cup {NoRun} /\ (loop' = r <=> "ending" = "executing")
          /\ \A s \in Runs : s # r => (loop' = s <=> loop = s)
      BY <1>1, <2>1, <2>4
    <2>10. /\ cause' = [cause EXCEPT ![r] = cause[r]] /\ eofs' = [eofs EXCEPT ![r] = eofs[r]]
           /\ outcome' = [outcome EXCEPT ![r] = outcome[r]] /\ "ending" \in Live
      BY <1>2, <2>4 DEF Live
    <2> HIDE DEF Rows, Reason
    <2>11. pc[r] # "dead"
      BY <2>1
    <2> QED BY <1>2, <2>2, <2>3, <2>4, <2>7, <2>8, <2>9, <2>10, <2>11, MoveInv
  <1>4. CASE EndLog(r)
    <2>1. pc[r] = "ending" /\ loop = NoRun /\ eofs[r] = 0
      BY <1>1, <1>2, <1>4 DEF EndLog, Ending, Goto, Local, RowInv
    <2>2. /\ UNCHANGED <<pipeline, published, sent, row, cause, outcome, loop>>
          /\ pc' = [pc EXCEPT ![r] = "done"] /\ eofs' = [eofs EXCEPT ![r] = 1]
      BY <1>4, <2>1 DEF EndLog, Ending, Goto
    <2>3. pc'[r] = "done" /\ eofs'[r] = 1
      BY <2>2 DEF Inv, RunInv, TypeOK
    <2>4. row[r].status \in Terminal
      BY <1>1, <2>1 DEF Local, RowInv
    <2>5. RowInv(r)' /\ Reason(r)'
      BY <1>1, <2>1, <2>2, <2>3, <2>4 DEF Local, RowInv, Reason, AllSucceeded, Live, Terminal, Failures
    <2>6. EndInv(r)'
      BY <1>1, <2>1, <2>2, <2>3 DEF Local, EndInv, AllSucceeded, Live
    <2>7. /\ loop' \in Runs \cup {NoRun} /\ (loop' = r <=> "done" = "executing")
          /\ \A s \in Runs : s # r => (loop' = s <=> loop = s)
      BY <1>1, <2>1, <2>2
    <2>8. /\ cause' = [cause EXCEPT ![r] = cause[r]] /\ row' = [row EXCEPT ![r] = row[r]]
          /\ outcome' = [outcome EXCEPT ![r] = outcome[r]] /\ 1 \in 0..1
      BY <1>2, <2>2
    <2> HIDE DEF Rows, Reason
    <2>9. pc[r] # "dead" /\ "done" \in Live \cup Stopped
      BY <2>1 DEF Stopped
    <2> QED BY <1>1, <1>2, <2>2, <2>5, <2>6, <2>7, <2>8, <2>9, MoveInv
  <1> QED BY <1>3, <1>4

LEMMA OutsideInv == ASSUME Inv, PublishOutside PROVE Inv'
  <1>1. UNCHANGED <<pipeline, row, eofs, cause, outcome, sent, loop, pc>>
    BY DEF PublishOutside
  <1>2. TypeOK' /\ Kept
    BY DEF Inv, RunInv, TypeOK, PublishOutside, Kept
  <1>3. \A c \in Coordinates : published'[c] # published[c] => published'[c] \notin Runs
    BY RunAssumption DEF Inv, RunInv, TypeOK, PublishOutside
  <1> QED BY <1>1, <1>2, <1>3, SideInv

LEMMA NextInv == Inv /\ [Next]_vars => Inv'
  <1> SUFFICES ASSUME Inv, [Next]_vars PROVE Inv'
    OBVIOUS
  <1>1. ASSUME NEW r \in Runs, Refuse(r) \/ Enqueue(r) \/ Coroutine(r) \/ JobsEnd(r) \/ Land(r)
        PROVE  Inv'
    BY <1>1, LandInv, StartingInv, ResolveInv, MaterializeInv, ScheduleInv, JobsEndInv, PublishStepInv,
       EndedInv DEF Coroutine
  <1>2. CASE PublishOutside
    BY <1>2, OutsideInv
  <1>3. CASE Crash
    BY <1>3, CrashInv
  <1>4. CASE UNCHANGED vars
    <2>1. UNCHANGED <<pipeline, row, eofs, cause, outcome, published, sent, loop, pc>> /\ Kept
      BY <1>4 DEF vars, Kept
    <2>2. TypeOK'
      BY <1>4 DEF Inv, RunInv, TypeOK, vars
    <2>3. \A c \in Coordinates : published'[c] # published[c] => published'[c] \notin Runs
      BY <2>1
    <2> QED BY <2>1, <2>2, <2>3, SideInv
  <1> QED BY <1>1, <1>2, <1>3, <1>4 DEF Next, Quiet

LEMMA Always == Spec => []Inv
  <1>1. Init => Inv
    BY InitInv
  <1>2. Inv /\ [Next]_vars => Inv'
    BY NextInv
  <1> QED BY <1>1, <1>2, PTL DEF Spec

-----------------------------------------------------------------------------
\* Every row has the shape and the status that the progress of its run calls for
\* (update_run_status and the awaits of execute_pipeline).
THEOREM RowsAgree == Spec => []RunInv
  <1>1. Inv => RunInv
    BY Parts
  <1> QED BY <1>1, Always, PTL

\* A run reported as succeeded has published everything it declares, itself.
THEOREM Complete == Spec => []SuccessIsComplete
  <1>1. Inv => SuccessIsComplete
    <2> SUFFICES ASSUME Inv, NEW r \in Runs, row[r].status = "succeeded",
                        NEW i \in DOMAIN pipeline[r].artifacts
                 PROVE  AllSucceeded(row[r].jobs) /\ published[pipeline[r].artifacts[i]] = r
      BY DEF Inv, RunInv, EndInv, SuccessIsComplete
    <2>1. Local(r) /\ pipeline[r].artifacts \in Seq(Coordinates)
      BY RunFacts
    <2>2. AllSucceeded(row[r].jobs) /\ sent[r] = Len(pipeline[r].artifacts)
      BY <2>1 DEF Local, EndInv
    <2>3. i \in 1..sent[r]
      BY <2>1, <2>2
    <2>4. published[pipeline[r].artifacts[i]] = r
      BY <2>1, <2>3 DEF Local, PublishInv, Confirmed
    <2> QED BY <2>2, <2>4
  <1> QED BY <1>1, Always, PTL

\* A run publishes after its jobs, in the order of its list, at most one unconfirmed.
THEOREM InOrder == Spec => []PublishedInOrder
  <1>1. Inv => PublishedInOrder
    BY Parts
  <1> QED BY <1>1, Always, PTL

\* A failed row shows why; a conflict means that someone else has the artifact.
THEOREM Reasons == Spec => []FailureHasReason
  <1>1. Inv => FailureHasReason
    BY Parts
  <1> QED BY <1>1, Always, PTL

\* The EOF marker of a log comes once, and after the terminal status.
THEOREM EofLast == Spec => []EofIsLast
  <1>1. Inv => EofIsLast
    <2> SUFFICES ASSUME Inv, NEW r \in Runs
                 PROVE  eofs[r] <= 1 /\ (eofs[r] = 1 => row[r].status \in Terminal)
      BY DEF EofIsLast
    <2>1. RowInv(r) /\ eofs[r] \in 0..1
      BY DEF Inv, RunInv, TypeOK
    <2> QED BY <2>1 DEF RowInv
  <1> QED BY <1>1, Always, PTL

\* Of the runs that race for the same artifacts, listed in one order, one succeeds unless
\* something else than a conflict between them stops them.
THEOREM Winner == Spec => []RaceHasWinner
  <1>1. Inv => RaceHasWinner
    <2> DEFINE Lost(r) == row[r].status = "failed" /\ cause[r] = "conflict"
               Wanted(r) == pipeline[r].artifacts[sent[r] + 1]
               C == {Wanted(r) : r \in Runs}
    <2> SUFFICES ASSUME Inv, Runs # {}, InOneOrder, \A c \in Coordinates : published[c] # Outsider,
                        \A r \in Runs : pc[r] = "done" /\ Lost(r)
                 PROVE  FALSE
      BY DEF RaceHasWinner
    <2>1. ASSUME NEW r \in Runs
          PROVE  /\ sent[r] \in Nat /\ sent[r] < Len(pipeline[r].artifacts)
                 /\ sent[r] + 1 \in DOMAIN pipeline[r].artifacts
                 /\ Wanted(r) \in Coordinates /\ published[Wanted(r)] \in Runs
      <3>1. /\ sent[r] \in Nat /\ pipeline[r].artifacts \in Seq(Coordinates)
            /\ Len(pipeline[r].artifacts) \in Nat /\ Reason(r)
        BY RunFacts
      <3>2. sent[r] < Len(pipeline[r].artifacts) /\ published[Wanted(r)] # NoRun
        BY <3>1 DEF Reason
      <3>3. sent[r] + 1 \in DOMAIN pipeline[r].artifacts /\ Wanted(r) \in Coordinates
        BY <3>1, <3>2
      <3> QED BY <3>1, <3>2, <3>3 DEF Inv, RunInv, TypeOK
    <2>2. C \subseteq Coordinates /\ C # {}
      BY <2>1
    <2>3. PICK c \in C : \A r \in Runs : LastOf(c, pipeline[r].artifacts, C)
      BY <2>2 DEF InOneOrder
    <2>4. c \in Coordinates /\ published[c] \in Runs
      BY <2>1, <2>3
    <2> DEFINE q == published[c]
    <2>5. ~UnderWay(q)
      BY <2>4 DEF UnderWay
    <2>6. PICK i \in DOMAIN pipeline[q].artifacts : pipeline[q].artifacts[i] = c /\ i <= sent[q]
      <3>1. sent[q] \in Nat
        BY <2>1, <2>4
      <3> QED BY <2>4, <2>5, <3>1 DEF Inv, Order
    <2>7. i \in Nat /\ i < sent[q] + 1
      BY <2>1, <2>4, <2>6, RunFacts
    <2>8. Wanted(q) \in C
      BY <2>4
    <2> QED BY <2>1, <2>3, <2>4, <2>6, <2>7, <2>8 DEF LastOf
  <1> QED BY <1>1, Always, PTL

\* What a step of r may do to the rows, and any step to the registry.
Onward(r) == /\ \A s \in Runs : s # r => row'[s] = row[s]
             /\ row'[r] # row[r] => row[r].status \in Before(row'[r].status)

LEMMA RowOnward ==
    ASSUME Inv, NEW r \in Runs, Refuse(r) \/ Enqueue(r) \/ Coroutine(r) \/ JobsEnd(r)
    PROVE  Onward(r)
  <1>1. CASE UNCHANGED row
    BY <1>1 DEF Onward
  <1>2. ASSUME NEW st, NEW jb, Update(r, st, jb), row[r].status \in Before(st) PROVE Onward(r)
    <2>1. row'[r].status = st /\ \A s \in Runs : s # r => row'[s] = row[s]
      BY <1>2 DEF Inv, RunInv, TypeOK, Update
    <2> QED BY <1>2, <2>1 DEF Onward
  <1>3. pc[r] = "submitting" => row[r].status \in Before("queued")
    BY Early DEF Before
  <1>4. pc[r] = "spawned" => row[r].status \in Before("running")
    BY Early DEF Before, Live
  <1>5. ASSUME pc[r] \in {"resolving", "materializing", "scheduling", "executing", "publishing"},
               NEW st \in Terminal
        PROVE  row[r].status \in Before(st)
    <2>1. row[r].status = "running"
      BY <1>5 DEF Inv, RunInv, RowInv, Live
    <2> QED BY <2>1 DEF Before, Terminal, Failures
  <1>6. CASE Enqueue(r)
    BY <1>2, <1>3, <1>6 DEF Enqueue, Goto
  <1>7. CASE Start(r)
    BY <1>2, <1>4, <1>7 DEF Start, Goto
  <1>8. CASE Resolve(r)
    BY <1>1, <1>2, <1>5, <1>8 DEF Resolve, Goto, Terminal, Failures
  <1>9. CASE Materialize(r)
    BY <1>1, <1>2, <1>5, <1>9 DEF Materialize, Goto, Terminal, Failures
  <1>10. CASE Schedule(r)
    BY <1>1, <1>2, <1>5, <1>10 DEF Schedule, Goto, Terminal, Failures
  <1>11. CASE JobsEnd(r)
    BY <1>1, <1>2, <1>5, <1>11 DEF JobsEnd, Terminal, Failures
  <1>12. CASE Publish(r)
    BY <1>1, <1>2, <1>5, <1>12 DEF Publish, PublishFails, Goto, Terminal, Failures
  <1>13. CASE Succeed(r)
    BY <1>2, <1>5, <1>13 DEF Succeed, Goto, Terminal
  <1>14. CASE Refuse(r) \/ Spawn(r) \/ EndLog(r)
    BY <1>1, <1>14 DEF Refuse, Spawn, EndLog
  <1> QED BY <1>6, <1>7, <1>8, <1>9, <1>10, <1>11, <1>12, <1>13, <1>14 DEF Coroutine

LEMMA AlwaysKept == ASSUME Inv, Next PROVE Kept
  <1>1. published \in [Coordinates -> Runs \cup {NoRun, Outsider}]
    BY DEF Inv, RunInv, TypeOK
  <1>2. CASE UNCHANGED published
    BY <1>2 DEF Kept
  <1>3. ASSUME NEW c, NEW v, published[c] = NoRun, published' = [published EXCEPT ![c] = v]
        PROVE  Kept
    BY <1>1, <1>3 DEF Kept
  <1>4. ASSUME NEW r \in Runs, Publish(r) PROVE Kept
    BY <1>2, <1>3, <1>4 DEF Publish, Accepted
  <1>5. CASE PublishOutside \/ \E r \in Runs : Land(r)
    BY <1>3, <1>5 DEF PublishOutside, Land, Accepted
  <1>6. ASSUME NEW r \in Runs, Refuse(r) \/ Enqueue(r) \/ Spawn(r) \/ Start(r) \/ Resolve(r)
        PROVE  UNCHANGED published
    BY <1>6 DEF Refuse, Enqueue, Spawn, Start, Resolve
  <1>7. ASSUME NEW r \in Runs, Materialize(r) \/ Schedule(r) \/ JobsEnd(r) \/ Succeed(r) \/ EndLog(r)
        PROVE  UNCHANGED published
    BY <1>7 DEF Materialize, Schedule, JobsEnd, Succeed, EndLog
  <1>8. Crash \/ Quiet => UNCHANGED published
    BY DEF Crash, Quiet, vars
  <1> QED BY <1>2, <1>4, <1>5, <1>6, <1>7, <1>8 DEF Next, Coroutine

\* Rows move forward only and end for good, and the registry takes nothing back.
THEOREM OnlyForward == Spec => Forward
  <1> DEFINE Step == /\ \A r \in Runs : row'[r] # row[r] => row[r].status \in Before(row'[r].status)
                     /\ \A c \in Coordinates : published[c] # NoRun => published'[c] = published[c]
  <1>1. Inv /\ [Next]_vars => [Step]_vars
    <2> SUFFICES ASSUME Inv, Next PROVE Step
      OBVIOUS
    <2>1. Kept
      BY AlwaysKept
    <2>2. ASSUME NEW r \in Runs, Refuse(r) \/ Enqueue(r) \/ Coroutine(r) \/ JobsEnd(r)
          PROVE  \A s \in Runs : row'[s] # row[s] => row[s].status \in Before(row'[s].status)
      BY <2>2, RowOnward DEF Onward
    <2>3. CASE Crash \/ PublishOutside \/ Quiet \/ \E r \in Runs : Land(r)
      <3>1. ASSUME NEW r \in Runs, Land(r) PROVE UNCHANGED row
        BY <3>1 DEF Land
      <3>2. Crash \/ PublishOutside \/ Quiet => UNCHANGED row
        BY DEF Crash, PublishOutside, Quiet, vars
      <3>3. UNCHANGED row
        BY <2>3, <3>1, <3>2
      <3> QED BY <2>1, <3>3 DEF Kept
    <2>4. \A s \in Runs : row'[s] # row[s] => row[s].status \in Before(row'[s].status)
      BY <2>2, <2>3 DEF Next
    <2> QED BY <2>1, <2>4 DEF Kept
  <1>2. Spec => [][Step]_vars
    BY <1>1, Always, PTL DEF Spec
  <1> QED BY <1>2 DEF Forward

-----------------------------------------------------------------------------
(* The registry that runs meet is an ImmutableStore *)

Uploaders == Runs \cup {Outsider}
StorePublished == [c \in Coordinates |-> IF published[c] = NoRun THEN {} ELSE {<<published[c], c>>}]
StoreFate == [u \in Uploaders \X Coordinates |-> FateOf(u[1], u[2])]
StoreTarget == [u \in Uploaders \X Coordinates |-> u[2]]

\* What became of an upload is settled by who has its coordinate and by what its run
\* was told, which only a run told of a conflict or a refusal learns.
Untold(x) == x \in Runs => {cause[x], cause'[x]} \cap {"conflict", "refused"} = {}
SameWord(x) == x \in Runs => cause'[x] = cause[x] /\ sent'[x] = sent[x]

LEMMA FateUpdate ==
    ASSUME NEW x \in Uploaders, NEW c \in Coordinates, NEW word, FateOf(x, c)' = word,
           \A y \in Uploaders, d \in Coordinates :
               <<y, d>> # <<x, c>> => FateOf(y, d)' = FateOf(y, d)
    PROVE  StoreFate' = [StoreFate EXCEPT ![<<x, c>>] = word]
  <1>1. ASSUME NEW u \in Uploaders \X Coordinates
        PROVE  FateOf(u[1], u[2])' = IF u = <<x, c>> THEN word ELSE FateOf(u[1], u[2])
    <2>1. PICK y \in Uploaders, d \in Coordinates : u = <<y, d>>
      OBVIOUS
    <2>2. u[1] = y /\ u[2] = d
      BY <2>1
    <2> QED BY <2>1, <2>2
  <1>2. StoreFate' = [u \in Uploaders \X Coordinates |->
                        IF u = <<x, c>> THEN word ELSE FateOf(u[1], u[2])]
    BY <1>1, Zenon DEF StoreFate
  <1> QED BY <1>2 DEF StoreFate

LEMMA FateKept ==
    ASSUME NEW x, NEW c, pipeline' = pipeline, Untold(x) \/ SameWord(x),
           published'[c] = x <=> published[c] = x
    PROVE  FateOf(x, c)' = FateOf(x, c)
  BY DEF FateOf, NextUp, Untold, SameWord

\* A step that publishes nothing and tells nothing is none of the store.
LEMMA StoreRests ==
    ASSUME pipeline' = pipeline, published' = published,
           \A x \in Runs : Untold(x) \/ SameWord(x)
    PROVE  UNCHANGED Store!vars
  <1>1. \A x \in Uploaders : Untold(x) \/ SameWord(x)
    BY DEF Uploaders, Untold
  <1>2. \A x \in Uploaders, c \in Coordinates : FateOf(x, c)' = FateOf(x, c)
    BY <1>1, FateKept
  <1>3. StoreFate' = StoreFate
    BY <1>2 DEF StoreFate
  <1>4. StorePublished' = StorePublished
    BY DEF StorePublished
  <1> QED BY <1>3, <1>4 DEF Store!vars, StoreFate, StorePublished, Uploaders

\* Taking a free coordinate is a publication of the store.
LEMMA TakingPublishes ==
    ASSUME Inv, NEW x \in Uploaders, NEW c \in Coordinates,
           published[c] = NoRun, published' = [published EXCEPT ![c] = x],
           pipeline' = pipeline, \A y \in Runs : Untold(y) \/ SameWord(y), Untold(x)
    PROVE  Store!Publish(<<x, c>>)
  <1>1. x # NoRun /\ NoRun \notin Uploaders /\ <<x, c>> \in Uploaders \X Coordinates
    BY RunAssumption DEF Uploaders
  <1>2. published \in [Coordinates -> Uploaders \cup {NoRun}]
    BY DEF Inv, RunInv, TypeOK, Uploaders
  <1>3. published'[c] = x /\ \A d \in Coordinates : d # c => published'[d] = published[d]
    BY <1>2
  <1>4. FateOf(x, c) = "asked" /\ FateOf(x, c)' = "published"
    BY <1>1, <1>3 DEF FateOf, Untold
  <1>5. ASSUME NEW y \in Uploaders, NEW d \in Coordinates, <<y, d>> # <<x, c>>
        PROVE  FateOf(y, d)' = FateOf(y, d)
    <2>1. published'[d] = y <=> published[d] = y
      BY <1>1, <1>3, <1>5
    <2>2. Untold(y) \/ SameWord(y)
      BY DEF Uploaders, Untold
    <2> QED BY <2>1, <2>2, FateKept
  <1>6. StoreFate' = [StoreFate EXCEPT ![<<x, c>>] = "published"]
    BY <1>4, <1>5, FateUpdate
  <1>7. StorePublished' = [StorePublished EXCEPT ![c] = {<<x, c>>}]
    BY <1>1, <1>3 DEF StorePublished
  <1>8. StoreFate[<<x, c>>] = "asked" /\ StoreTarget[<<x, c>>] = c /\ StorePublished[c] = {}
    BY <1>1, <1>4 DEF StoreFate, StoreTarget, StorePublished
  <1> QED BY <1>6, <1>7, <1>8
          DEF Store!Publish, StoreFate, StoreTarget, StorePublished, Uploaders

\* A run that is told why not had not published what it asked for.
LEMMA FailureTells ==
    ASSUME Inv, NEW r \in Runs, NEW i \in DOMAIN pipeline[r].artifacts, i = sent[r] + 1,
           NEW why \in {"conflict", "refused"}, PublishFails(r, why), published' = published,
           why = "conflict" => published[pipeline[r].artifacts[i]] # NoRun
    PROVE  \E u \in Uploaders \X Coordinates : Store!Conflict(u) \/ Store!Refused(u)
  <1>1. /\ pipeline' = pipeline /\ sent' = sent /\ cause' = [cause EXCEPT ![r] = why]
        /\ pc[r] = "publishing"
    BY DEF PublishFails, Goto, Because
  <1>0. PICK c \in Coordinates : c = pipeline[r].artifacts[i]
    BY <1>1, NotYetSent
  <1>2. cause[r] = "none" /\ c \in Coordinates /\ cause \in [Runs -> Causes]
        /\ sent[r] \in Nat /\ published[c] # r
    <2>1. cause \in [Runs -> Causes]
      BY DEF Inv, RunInv, TypeOK
    <2> QED BY <1>0, <1>1, <2>1, NotYetSent
  <1>3. <<r, c>> \in Uploaders \X Coordinates
    BY <1>2 DEF Uploaders
  <1>4. cause'[r] = why /\ \A x \in Runs : x # r => SameWord(x)
    BY <1>1, <1>2 DEF SameWord
  <1>5. FateOf(r, c) = "asked" /\ FateOf(r, c)' = why
    BY <1>0, <1>1, <1>2, <1>4 DEF FateOf, NextUp
  <1>6. ASSUME NEW y \in Uploaders, NEW d \in Coordinates, <<y, d>> # <<r, c>>
        PROVE  FateOf(y, d)' = FateOf(y, d)
    <2>1. CASE y # r
      BY <2>1, <1>1, <1>4, FateKept DEF SameWord
    <2>2. CASE y = r
      <3>1. d # c /\ ~NextUp(r, d) /\ ~NextUp(r, d)'
        BY <1>0, <1>1, <1>6, <2>2 DEF NextUp
      <3> QED BY <2>2, <3>1 DEF FateOf
    <2> QED BY <2>1, <2>2
  <1>7. StoreFate' = [StoreFate EXCEPT ![<<r, c>>] = why]
    <2>1. r \in Uploaders
      BY DEF Uploaders
    <2> QED BY <2>1, <1>2, <1>5, <1>6, FateUpdate
  <1>8. /\ StoreFate[<<r, c>>] = "asked" /\ StoreTarget[<<r, c>>] = c
        /\ StoreTarget' = StoreTarget /\ StorePublished' = StorePublished
        /\ why = "conflict" => StorePublished[c] # {}
    BY <1>0, <1>2, <1>3, <1>5 DEF StoreFate, StoreTarget, StorePublished
  <1>9. Store!Ends(<<r, c>>, {"asked"}, why)
    BY <1>7, <1>8 DEF Store!Ends, StoreFate, StoreTarget, StorePublished, Uploaders
  <1>10. Store!Conflict(<<r, c>>) \/ Store!Refused(<<r, c>>)
    BY <1>8, <1>9 DEF Store!Conflict, Store!Refused, StoreTarget, StorePublished, Uploaders
  <1> QED BY <1>3, <1>10

LEMMA StoreStep == Inv /\ [Next]_vars => [Store!Next]_(Store!vars)
  <1> SUFFICES ASSUME Inv, [Next]_vars PROVE Store!Next \/ UNCHANGED Store!vars
    OBVIOUS
  <1>0. cause \in [Runs -> Causes] /\ sent \in [Runs -> Nat]
    BY DEF Inv, RunInv, TypeOK
  <1>1. CASE UNCHANGED <<pipeline, published, cause, sent>>
    BY <1>1, StoreRests DEF SameWord
  <1>2. ASSUME NEW r \in Runs, NEW why \in Causes \ {"conflict", "refused"},
               cause[r] = "none", Because(r, why), UNCHANGED <<pipeline, published, sent>>
        PROVE  UNCHANGED Store!vars
    <2>1. \A x \in Runs : Untold(x) \/ SameWord(x)
      BY <1>0, <1>2 DEF Untold, SameWord, Because
    <2> QED BY <1>2, <2>1, StoreRests
  <1>3. ASSUME NEW r \in Runs, Resolve(r) \/ Materialize(r) \/ Schedule(r) \/ JobsEnd(r)
        PROVE  UNCHANGED Store!vars
    <2>1. pc[r] \in {"resolving", "materializing", "scheduling", "executing"}
          /\ UNCHANGED <<pipeline, published, sent>>
      BY <1>3 DEF Resolve, Materialize, Schedule, JobsEnd, Goto
    <2>2. cause[r] = "none"
      BY <2>1, RunFacts DEF Live
    <2>3. UNCHANGED cause \/ \E why \in {"resolution", "integrity", "graph", "runner", "jobs",
                                        "scheduler"} : Because(r, why)
      BY <1>3 DEF Resolve, Materialize, Schedule, JobsEnd
    <2>4. CASE UNCHANGED cause
      <3>1. UNCHANGED <<pipeline, published, cause, sent>>
        BY <2>1, <2>4
      <3>2. \A x \in Runs : SameWord(x)
        BY <3>1 DEF SameWord
      <3> QED BY <3>1, <3>2, StoreRests
    <2>5. ASSUME NEW why \in {"resolution", "integrity", "graph", "runner", "jobs", "scheduler"},
                 Because(r, why)
          PROVE  UNCHANGED Store!vars
      <3>1. why \in Causes \ {"conflict", "refused"}
        BY DEF Causes
      <3>2. UNCHANGED <<pipeline, published, sent>>
        BY <2>1
      <3> QED BY <1>2, <2>2, <2>5, <3>1, <3>2
    <2> QED BY <2>3, <2>4, <2>5
  <1>4. ASSUME NEW r \in Runs, NEW i \in DOMAIN pipeline[r].artifacts, i = sent[r] + 1,
               Accepted(r, i), UNCHANGED <<pipeline, cause>>,
               \A x \in Runs : x # r => sent'[x] = sent[x],
               cause[r] \notin {"conflict", "refused"}
        PROVE  Store!Next
    <2>0. PICK c \in Coordinates : c = pipeline[r].artifacts[i]
      BY RunFacts
    <2>1. r \in Uploaders /\ <<r, c>> \in Uploaders \X Coordinates
      BY DEF Uploaders
    <2>2. Untold(r) /\ \A x \in Runs : Untold(x) \/ SameWord(x)
      BY <1>4 DEF Untold, SameWord
    <2>3. published[c] = NoRun /\ published' = [published EXCEPT ![c] = r]
      BY <1>4, <2>0 DEF Accepted
    <2>4. pipeline' = pipeline
      BY <1>4
    <2>5. Store!Publish(<<r, c>>)
      BY <2>1, <2>2, <2>3, <2>4, TakingPublishes
    <2> QED BY <2>1, <2>5 DEF Store!Next, Uploaders
  <1>5. ASSUME NEW r \in Runs, Publish(r) PROVE Store!Next \/ UNCHANGED Store!vars
    <2>1. pc[r] = "publishing" /\ UNCHANGED pipeline
      BY <1>5 DEF Publish, PublishFails, Goto
    <2>2. PICK i \in DOMAIN pipeline[r].artifacts :
            /\ i = sent[r] + 1
            /\ \/ /\ Accepted(r, i) /\ sent' = [sent EXCEPT ![r] = @ + 1] /\ UNCHANGED cause
               \/ /\ published[pipeline[r].artifacts[i]] # NoRun
                  /\ PublishFails(r, "conflict") /\ UNCHANGED published
               \/ PublishFails(r, "refused") /\ UNCHANGED published
               \/ PublishFails(r, "timeout") /\ UNCHANGED published
      BY <1>5 DEF Publish, Following
    <2>3. cause[r] = "none"
      BY <2>1, <2>2, NotYetSent
    <2>4. CASE Accepted(r, i) /\ sent' = [sent EXCEPT ![r] = @ + 1] /\ UNCHANGED cause
      BY <1>0, <1>4, <2>1, <2>2, <2>3, <2>4
    <2>5. CASE \/ /\ published[pipeline[r].artifacts[i]] # NoRun
                  /\ PublishFails(r, "conflict") /\ UNCHANGED published
               \/ PublishFails(r, "refused") /\ UNCHANGED published
      <3>1. \E u \in Uploaders \X Coordinates : Store!Conflict(u) \/ Store!Refused(u)
        BY <2>2, <2>5, FailureTells
      <3> QED BY <3>1 DEF Store!Next, Uploaders
    <2>6. CASE PublishFails(r, "timeout") /\ UNCHANGED published
      BY <1>2, <2>1, <2>3, <2>6 DEF PublishFails, Causes
    <2> QED BY <2>2, <2>4, <2>5, <2>6
  <1>6. ASSUME NEW r \in Runs, Land(r) PROVE Store!Next
    <2>1. cause[r] \notin {"conflict", "refused"}
      BY <1>6, RunFacts DEF Land, UnderWay, Local, EndInv, Failures
    <2> QED BY <1>4, <1>6, <2>1 DEF Land
  <1>7. ASSUME PublishOutside PROVE Store!Next
    <2>1. PICK c \in Coordinates :
            published[c] = NoRun /\ published' = [published EXCEPT ![c] = Outsider]
      BY <1>7 DEF PublishOutside
    <2>2. /\ pipeline' = pipeline /\ Outsider \in Uploaders /\ Untold(Outsider)
          /\ \A x \in Runs : SameWord(x)
      BY <1>7, RunAssumption DEF PublishOutside, Uploaders, Untold, SameWord
    <2>3. Store!Publish(<<Outsider, c>>) /\ <<Outsider, c>> \in Uploaders \X Coordinates
      BY <2>1, <2>2, TakingPublishes
    <2> QED BY <2>3 DEF Store!Next, Uploaders
  <1>8. ASSUME NEW r \in Runs,
               Refuse(r) \/ Enqueue(r) \/ Spawn(r) \/ Start(r) \/ Succeed(r) \/ EndLog(r)
        PROVE  UNCHANGED <<pipeline, published, cause, sent>>
    BY <1>8 DEF Refuse, Enqueue, Spawn, Start, Succeed, EndLog, Goto
  <1>9. CASE Crash \/ UNCHANGED vars
    BY <1>1, <1>9 DEF Crash, vars
  <1> QED BY <1>1, <1>3, <1>5, <1>6, <1>7, <1>8, <1>9 DEF Next, Coroutine, Quiet

\* Every behaviour of runs, crashes and outsiders is one of an immutable store: the
\* registry of PipelineRun is not better than the one ArtifactRegistry has.
THEOREM RegistryIsStore == Spec => UsesStore
  <1>1. Init => Store!Init
    <2> SUFFICES ASSUME Init PROVE Store!Init
      OBVIOUS
    <2>1. \A x \in Uploaders, c \in Coordinates : FateOf(x, c) = "asked"
      BY RunAssumption DEF Init, FateOf, Uploaders
    <2>2. StoreFate = [u \in Uploaders \X Coordinates |-> "asked"]
      BY <2>1 DEF StoreFate
    <2>3. StoreTarget \in [Uploaders \X Coordinates -> Coordinates]
      BY DEF StoreTarget
    <2>4. StorePublished = [c \in Coordinates |-> {}]
      BY DEF Init, StorePublished
    <2> QED BY <2>2, <2>3, <2>4
            DEF Store!Init, StoreFate, StoreTarget, StorePublished, Uploaders
  <1> QED BY <1>1, StoreStep, Always, InitInv, PTL DEF Spec, UsesStore, Store!Spec

-----------------------------------------------------------------------------
(* A run is short *)

\* What a run has yet to await: the stages before its end, and the answers to its uploads.
AwaitsTo(where) ==
    CASE where = "submitting" -> 9 [] where = "queued" -> 8 [] where = "spawned" -> 7
      [] where = "resolving" -> 6 [] where = "materializing" -> 5 [] where = "scheduling" -> 4
      [] where = "executing" -> 3 [] where = "publishing" -> 2 [] where = "ending" -> 1
      [] OTHER -> 0
AwaitsLeft(r) == AwaitsTo(pc[r]) + (Len(pipeline[r].artifacts) - sent[r])

AwaitsCounted == \A r \in Runs : AwaitsLeft(r) \in 0..9 + Len(pipeline[r].artifacts)

Moves(r) == pc'[r] # pc[r] \/ sent'[r] # sent[r]
Taken(c) == published[c] = NoRun /\ published'[c] # NoRun

\* Whoever races, publishes or dies, no run goes back or waits for the same thing twice:
\* a step has each run that it moves nearer to its end, and if it moves none, it is an
\* upload that takes one more coordinate for good.
RunsShorten ==
    /\ []AwaitsCounted
    /\ [][/\ \A r \in Runs : IF Moves(r) THEN AwaitsLeft(r)' < AwaitsLeft(r)
                                         ELSE AwaitsLeft(r)' = AwaitsLeft(r)
          /\ (\E r \in Runs : Moves(r)) \/ (\E c \in Coordinates : Taken(c))]_vars

LEMMA AwaitsBounded ==
    ASSUME Inv, NEW r \in Runs
    PROVE  /\ AwaitsTo(pc[r]) \in 0..9 /\ sent[r] \in 0..Len(pipeline[r].artifacts)
           /\ Len(pipeline[r].artifacts) \in Nat
           /\ AwaitsLeft(r) \in 0..9 + Len(pipeline[r].artifacts)
  <1>1. AwaitsTo(pc[r]) \in 0..9
    BY DEF AwaitsTo
  <1>2. sent[r] \in 0..Len(pipeline[r].artifacts) /\ Len(pipeline[r].artifacts) \in Nat
    BY RunFacts DEF Local, PublishInv
  <1> DEFINE a == AwaitsTo(pc[r])
             n == Len(pipeline[r].artifacts)
             m == sent[r]
  <1>3. AwaitsLeft(r) = a + (n - m) /\ a \in 0..9 /\ n \in Nat /\ m \in 0..n
    BY <1>1, <1>2 DEF AwaitsLeft
  <1> HIDE DEF a, n, m
  <1>4. AwaitsLeft(r) \in 0..9 + n
    BY <1>3
  <1> QED BY <1>1, <1>2, <1>4 DEF n

\* The coroutine goes on to its next await, or stays at the uploads after one of them.
LEMMA AwaitsOnward ==
    ASSUME Inv, NEW r \in Runs, Refuse(r) \/ Enqueue(r) \/ Coroutine(r) \/ JobsEnd(r)
    PROVE  /\ Moves(r) /\ AwaitsLeft(r)' < AwaitsLeft(r)
           /\ \A x \in Runs \ {r} : ~Moves(x)
           /\ pipeline' = pipeline
  <1>1. /\ DOMAIN pc = Runs /\ DOMAIN sent = Runs /\ pc = [x \in Runs |-> pc[x]]
        /\ AwaitsTo(pc[r]) \in 0..9 /\ sent[r] \in Nat
        /\ Len(pipeline[r].artifacts) \in Nat
    <2>1. DOMAIN pc = Runs /\ DOMAIN sent = Runs /\ pc = [x \in Runs |-> pc[x]]
      BY DEF Inv, RunInv, TypeOK
    <2> QED BY <2>1, AwaitsBounded
  <1>2. ASSUME NEW from, NEW to, AwaitsTo(to) < AwaitsTo(from), AwaitsTo(to) \in Nat,
               pc[r] = from, pc' = [pc EXCEPT ![r] = to], UNCHANGED <<pipeline, sent>>
        PROVE  /\ Moves(r) /\ AwaitsLeft(r)' < AwaitsLeft(r)
               /\ \A x \in Runs \ {r} : ~Moves(x)
               /\ pipeline' = pipeline
    <2>1. pc'[r] = to /\ \A x \in Runs \ {r} : pc'[x] = pc[x]
      BY <1>1, <1>2
    <2>2. pc'[r] # pc[r]
      BY <1>1, <1>2, <2>1
    <2>3. AwaitsTo(pc'[r]) < AwaitsTo(pc[r]) /\ AwaitsTo(pc'[r]) \in Nat
      BY <1>2, <2>1
    <2>4. AwaitsLeft(r)' < AwaitsLeft(r)
      <3> DEFINE a == AwaitsTo(pc[r])
                 b == AwaitsTo(pc'[r])
                 n == Len(pipeline[r].artifacts)
                 m == sent[r]
      <3>1. AwaitsLeft(r) = a + (n - m) /\ AwaitsLeft(r)' = b + (n - m)
        BY <1>2 DEF AwaitsLeft
      <3>2. a \in Nat /\ b \in Nat /\ n \in Nat /\ m \in Nat /\ b < a
        BY <1>1, <2>3
      <3> HIDE DEF a, b, n, m
      <3> QED BY <3>1, <3>2
    <2> QED BY <1>2, <2>1, <2>2, <2>4 DEF Moves
  <1>3. CASE Refuse(r) \/ Enqueue(r) \/ Spawn(r) \/ Start(r)
    <2>1. /\ \/ pc[r] = "submitting" /\ \E to \in {"refused", "queued"} : pc' = [pc EXCEPT ![r] = to]
             \/ pc[r] = "queued" /\ pc' = [pc EXCEPT ![r] = "spawned"]
             \/ pc[r] = "spawned" /\ pc' = [pc EXCEPT ![r] = "resolving"]
          /\ UNCHANGED <<pipeline, sent>>
      BY <1>3 DEF Refuse, Enqueue, Spawn, Start, Goto
    <2> QED BY <2>1, <1>2 DEF AwaitsTo
  <1>4. CASE Resolve(r) \/ Materialize(r) \/ Schedule(r)
    <2>1. /\ \/ /\ pc[r] = "resolving"
                /\ \E to \in {"materializing", "ending"} : pc' = [pc EXCEPT ![r] = to]
             \/ /\ pc[r] = "materializing"
                /\ \E to \in {"scheduling", "ending", "raised"} : pc' = [pc EXCEPT ![r] = to]
             \/ /\ pc[r] = "scheduling"
                /\ \E to \in {"executing", "ending"} : pc' = [pc EXCEPT ![r] = to]
          /\ UNCHANGED <<pipeline, sent>>
      BY <1>4 DEF Resolve, Materialize, Schedule, Goto, AfterFailure
    <2> QED BY <2>1, <1>2 DEF AwaitsTo
  <1>5. CASE JobsEnd(r) \/ Succeed(r) \/ EndLog(r)
    <2>1. /\ \/ /\ pc[r] = "executing"
                /\ \E to \in {"publishing", "ending"} : pc' = [pc EXCEPT ![r] = to]
             \/ pc[r] = "publishing" /\ pc' = [pc EXCEPT ![r] = "ending"]
             \/ pc[r] = "ending" /\ pc' = [pc EXCEPT ![r] = "done"]
          /\ UNCHANGED <<pipeline, sent>>
      BY <1>5 DEF JobsEnd, Succeed, EndLog, Goto, Ending
    <2> QED BY <2>1, <1>2 DEF AwaitsTo
  <1>6. CASE Publish(r)
    <2>1. \/ /\ pc[r] = "publishing" /\ pc' = [pc EXCEPT ![r] = "ending"]
             /\ UNCHANGED <<pipeline, sent>>
          \/ /\ pc' = [pc EXCEPT ![r] = pc[r]] /\ sent' = [sent EXCEPT ![r] = @ + 1]
             /\ pipeline' = pipeline
      BY <1>6 DEF Publish, PublishFails, Goto
    <2>2. CASE pc[r] = "publishing" /\ pc' = [pc EXCEPT ![r] = "ending"]
               /\ UNCHANGED <<pipeline, sent>>
      <3>1. AwaitsTo("ending") < AwaitsTo("publishing") /\ AwaitsTo("ending") \in Nat
        BY DEF AwaitsTo
      <3> QED BY <2>2, <1>2, <3>1
    <2>3. CASE /\ pc' = [pc EXCEPT ![r] = pc[r]] /\ sent' = [sent EXCEPT ![r] = @ + 1]
               /\ pipeline' = pipeline
      <3>1. /\ pc' = pc /\ sent'[r] = sent[r] + 1
            /\ \A x \in Runs \ {r} : sent'[x] = sent[x]
        BY <1>1, <2>3
      <3>2. AwaitsTo(pc'[r]) = AwaitsTo(pc[r])
        BY <3>1
      <3> QED BY <1>1, <2>3, <3>1, <3>2 DEF Moves, AwaitsLeft
    <2> QED BY <2>1, <2>2, <2>3
  <1> QED BY <1>3, <1>4, <1>5, <1>6 DEF Coroutine

LEMMA AwaitsKept ==
    ASSUME NEW x \in Runs, pipeline' = pipeline, ~Moves(x)
    PROVE  AwaitsLeft(x)' = AwaitsLeft(x)
  BY DEF Moves, AwaitsLeft

\* A crash ends every coroutine there is.
LEMMA CrashEnds ==
    ASSUME Inv, Crash
    PROVE  /\ \A r \in Runs : Moves(r) => AwaitsLeft(r)' < AwaitsLeft(r)
           /\ \E r \in Runs : Moves(r)
           /\ pipeline' = pipeline
  <1>1. /\ \A r \in Runs : pc'[r] = IF pc[r] \in Live THEN "dead" ELSE pc[r]
        /\ UNCHANGED <<pipeline, sent>> /\ \E r \in Runs : pc[r] \in Live
    BY DEF Crash
  <1>2. ASSUME NEW r \in Runs, pc[r] \in Live
        PROVE  AwaitsLeft(r)' < AwaitsLeft(r) /\ Moves(r)
    <2>1. pc'[r] = "dead"
      BY <1>1, <1>2
    <2>2. AwaitsTo(pc'[r]) = 0 /\ AwaitsTo(pc[r]) > 0
      BY <2>1, <1>2 DEF AwaitsTo, Live
    <2>3. AwaitsTo(pc[r]) \in Nat /\ sent[r] \in Nat /\ Len(pipeline[r].artifacts) \in Nat
      BY AwaitsBounded
    <2> QED BY <1>1, <1>2, <2>1, <2>2, <2>3 DEF AwaitsLeft, Moves, Live
  <1> QED BY <1>1, <1>2 DEF Moves

LEMMA UploadTakes ==
    ASSUME Inv, PublishOutside \/ \E r \in Runs : Land(r)
    PROVE  (\E c \in Coordinates : Taken(c)) /\ UNCHANGED <<pipeline, pc, sent>>
  <1>1. published \in [Coordinates -> Runs \cup {NoRun, Outsider}]
    BY DEF Inv, RunInv, TypeOK
  <1>2. CASE PublishOutside
    BY <1>1, <1>2, RunAssumption DEF PublishOutside, Taken
  <1>3. ASSUME NEW r \in Runs, Land(r)
        PROVE  (\E c \in Coordinates : Taken(c)) /\ UNCHANGED <<pipeline, pc, sent>>
    <2>1. PICK i \in DOMAIN pipeline[r].artifacts : Accepted(r, i)
      BY <1>3 DEF Land
    <2>2. pipeline[r].artifacts[i] \in Coordinates
      BY RunFacts
    <2>3. Taken(pipeline[r].artifacts[i])
      BY <1>1, <2>1, <2>2, RunAssumption DEF Accepted, Taken
    <2> QED BY <1>3, <2>2, <2>3 DEF Land
  <1> QED BY <1>2, <1>3

\* What is left of RunsEnd is that the loop resumes every coroutine and that jobs end.
THEOREM RunsHalt == Spec => RunsShorten
  <1> DEFINE Step == /\ \A r \in Runs : IF Moves(r) THEN AwaitsLeft(r)' < AwaitsLeft(r)
                                                    ELSE AwaitsLeft(r)' = AwaitsLeft(r)
                     /\ (\E r \in Runs : Moves(r)) \/ (\E c \in Coordinates : Taken(c))
  <1>1. Inv => AwaitsCounted
    BY AwaitsBounded DEF AwaitsCounted
  <1>2. Inv /\ [Next]_vars => [Step]_vars
    <2> SUFFICES ASSUME Inv, Next PROVE Step \/ UNCHANGED vars
      OBVIOUS
    <2>1. ASSUME NEW r \in Runs, Refuse(r) \/ Enqueue(r) \/ Coroutine(r) \/ JobsEnd(r)
          PROVE  Step
      BY <2>1, AwaitsOnward, AwaitsKept
    <2>2. CASE Crash
      BY <2>2, CrashEnds, AwaitsKept
    <2>3. CASE PublishOutside \/ \E r \in Runs : Land(r)
      <3>1. \A r \in Runs : ~Moves(r)
        BY <2>3, UploadTakes DEF Moves
      <3> QED BY <2>3, <3>1, UploadTakes, AwaitsKept
    <2>4. CASE Quiet
      BY <2>4 DEF Quiet
    <2> QED BY <2>1, <2>2, <2>3, <2>4 DEF Next
  <1> QED BY <1>1, <1>2, Always, PTL DEF Spec, RunsShorten
=============================================================================
