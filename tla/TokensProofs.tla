---------------------------- MODULE TokensProofs ----------------------------
(***************************************************************************)
(* Theorems about Tokens, for any names, administrators, runs, numbers of  *)
(* secrets and of requests.                                                *)
(***************************************************************************)
EXTENDS Tokens, SequenceTheorems, TLAPS

LEMMA InitInv == Init => TokensInv
  <1> SUFFICES ASSUME Init PROVE TokensInv
    OBVIOUS
  <1>1. tokens \in Tables /\ \A k \in Runs : rows[k] \in Tables
    <2>1. NoRows \in [{} -> Secrets]
      BY DEF NoRows
    <2> QED BY <2>1 DEF Init, Tables
  <1>2. Len(made) = 0 /\ made \in Seq(Names) /\ 0 \in 0..Requests
    BY TokensAssumption DEF Init
  <1>3. TypeOK
    BY <1>1, <1>2, TokensAssumption DEF Init, TypeOK, Stages, Wrong
  <1>4. TableInv /\ CommandInv
    BY DEF Init, TableInv, CommandInv, NoRows
  <1>5. RunsHold
    BY TokensAssumption DEF Init, RunsHold, Wrong, NoRows
  <1> QED BY <1>3, <1>4, <1>5 DEF TokensInv

LEMMA CreatedTypes ==
    ASSUME TokensInv, NEW s, s \in Created
    PROVE  s \in Secrets /\ made[s] \in Names /\ s # Wrong
  BY TokensAssumption DEF TokensInv, TypeOK, Created, Secrets, Wrong

\* A step that leaves the table, the secrets and the runs alone and takes one command
\* to its end keeps the invariant.
LEMMA EndInv ==
    ASSUME TokensInv, NEW a \in Admins, End(a), UNCHANGED <<tokens, made, gone, runs>>,
           printed' = printed \/ (command[a] = "print" /\ printed' = printed \cup {secret[a]}),
           told' = told \/ told' = told \cup over[a]
    PROVE  TokensInv'
  <1>1. /\ command'[a] = "none" /\ over'[a] = {}
        /\ \A b \in Admins \ {a} : /\ command'[b] = command[b] /\ secret'[b] = secret[b]
                                   /\ over'[b] = over[b]
    BY DEF End, TokensInv, TypeOK
  <1>2. Valid' = Valid /\ Created' = Created
    BY DEF Valid, Created
  <1>3. \A s \in printed' : s \in Created /\ (s \in Valid \/ s \in gone)
    BY DEF TokensInv, TableInv, CommandInv
  <1>4. told' \subseteq gone
    BY DEF TokensInv, TableInv, CommandInv
  <1>5. TypeOK'
    <2>1. printed' \subseteq Secrets /\ told' \subseteq Secrets
      BY <1>3, <1>4, CreatedTypes DEF TokensInv, TypeOK
    <2> QED BY <2>1 DEF TokensInv, TypeOK, End, runs
  <1>6. TableInv'
    BY <1>2, <1>3, <1>4 DEF TokensInv, TableInv
  <1>7. CommandInv'
    BY <1>1, <1>2 DEF TokensInv, CommandInv
  <1>8. RunsHold'
    BY <1>2 DEF TokensInv, RunsHold, runs, Holds
  <1> QED BY <1>5, <1>6, <1>7, <1>8 DEF TokensInv

LEMMA GenerateInv ==
    ASSUME TokensInv, NEW a \in Admins, NEW n \in Names, Generate(a, n) PROVE TokensInv'
  <1> DEFINE c == Len(made) + 1
  <1>1. /\ made' = Append(made, n) /\ made \in Seq(Names) /\ Len(made) \in Nat
        /\ Len(made) < MaxSecrets /\ c \in Secrets
        /\ secret' = [secret EXCEPT ![a] = c] /\ command' = [command EXCEPT ![a] = "insert"]
        /\ UNCHANGED <<tokens, printed, gone, over, told, runs>>
    BY TokensAssumption DEF Generate, Begin, TokensInv, TypeOK, Secrets
  <1>2. /\ made' \in Seq(Names) /\ Len(made') = c
        /\ \A s \in 1..Len(made) : made'[s] = made[s]
    BY <1>1, AppendProperties
  <1>3. \A s : s \in Created => s \in Created' /\ made'[s] = made[s]
    BY <1>1, <1>2 DEF Created
  <1>4. c \notin Created /\ c \in Created'
    BY <1>1, <1>2 DEF Created
  <1>5. c \notin Valid /\ c \notin gone
    BY <1>4 DEF TokensInv, TableInv, Valid
  <1>6. TypeOK'
    BY <1>1, <1>2, TokensAssumption DEF TokensInv, TypeOK, runs
  <1>7. Valid' = Valid
    BY <1>1 DEF Valid
  <1>8. /\ command'[a] = "insert" /\ secret'[a] = c
        /\ \A b \in Admins \ {a} : command'[b] = command[b] /\ secret'[b] = secret[b]
    BY <1>1 DEF TokensInv, TypeOK
  <1> HIDE DEF c
  <1>9. TableInv'
    BY <1>1, <1>3, <1>7 DEF TokensInv, TableInv
  <1>10. CommandInv'
    BY <1>1, <1>3, <1>4, <1>5, <1>7, <1>8 DEF TokensInv, CommandInv
  <1>11. RunsHold'
    BY <1>1, <1>7 DEF TokensInv, RunsHold, runs, Holds
  <1> QED BY <1>6, <1>9, <1>10, <1>11 DEF TokensInv

LEMMA InsertInv ==
    ASSUME TokensInv, NEW a \in Admins, Insert(a) PROVE TokensInv'
  <1> DEFINE c == secret[a]
             n == made[c]
  <1>1. /\ command[a] = "insert" /\ n \notin DOMAIN tokens /\ tokens' = With(n, c)
        /\ command' = [command EXCEPT ![a] = "print"]
        /\ UNCHANGED <<made, printed, gone, secret, over, told, runs>>
    BY DEF Insert, Free
  <1>2. c \in Created /\ c \notin gone /\ c \in Secrets /\ n \in Names
    BY <1>1, CreatedTypes DEF TokensInv, CommandInv
  <1>3. /\ DOMAIN tokens' = DOMAIN tokens \cup {n} /\ tokens'[n] = c
        /\ \A m \in DOMAIN tokens : tokens'[m] = tokens[m]
    BY <1>1 DEF With
  <1>4. Valid' = Valid \cup {c}
    BY <1>1, <1>3 DEF Valid
  <1>5. Created' = Created
    BY <1>1 DEF Created
  <1>6. TypeOK'
    <2>1. PICK N \in SUBSET Names : tokens \in [N -> Secrets]
      BY DEF TokensInv, TypeOK, Tables
    <2>2. tokens' \in [N \cup {n} -> Secrets] /\ N \cup {n} \in SUBSET Names
      BY <2>1, <1>1, <1>2 DEF With
    <2>3. tokens' \in Tables
      BY <2>2 DEF Tables
    <2> QED BY <2>3, <1>1 DEF TokensInv, TypeOK, runs
  <1>7. /\ command'[a] = "print"
        /\ \A b \in Admins \ {a} : command'[b] = command[b]
    BY <1>1 DEF TokensInv, TypeOK
  <1>8. \A b \in Admins \ {a} : command[b] = "insert" => secret[b] # c
    BY <1>1 DEF TokensInv, CommandInv
  <1>9. TableInv'
    BY <1>1, <1>2, <1>3, <1>4, <1>5 DEF TokensInv, TableInv
  <1>10. CommandInv'
    BY <1>1, <1>2, <1>4, <1>5, <1>7, <1>8 DEF TokensInv, CommandInv
  <1>11. RunsHold'
    BY <1>1, <1>4 DEF TokensInv, RunsHold, runs, Holds
  <1> QED BY <1>6, <1>9, <1>10, <1>11 DEF TokensInv

LEMMA RevokeInv ==
    ASSUME TokensInv, NEW a \in Admins, NEW n \in Names, Revoke(a, n) PROVE TokensInv'
  <1>1. /\ command[a] = "none" /\ command' = [command EXCEPT ![a] = "answer"]
        /\ tokens' = Without(n)
        /\ gone' = gone \cup {tokens[m] : m \in DOMAIN tokens \cap {n}}
        /\ over' = [over EXCEPT ![a] = {s \in printed : made[s] = n}]
        /\ UNCHANGED <<made, printed, secret, told, runs>>
    BY DEF Revoke, Begin
  <1>2. /\ DOMAIN tokens' = DOMAIN tokens \ {n}
        /\ \A m \in DOMAIN tokens' : tokens'[m] = tokens[m]
    BY <1>1 DEF Without
  <1>3. \A m \in DOMAIN tokens : tokens[m] \in Created /\ made[tokens[m]] = m
    BY DEF TokensInv, TableInv
  <1>4. \A s : s \in Valid' => s \in Valid /\ made[s] # n
    BY <1>2, <1>3 DEF Valid
  <1>5. \A s : s \in gone' <=> s \in gone \/ (s \in Valid /\ made[s] = n)
    BY <1>1, <1>3 DEF Valid
  <1>6. \A s : s \in Valid => s \in Valid' \/ s \in gone'
    <2>1. ASSUME NEW m \in DOMAIN tokens, m # n PROVE tokens[m] \in Valid'
      BY <2>1, <1>2 DEF Valid
    <2>2. n \in DOMAIN tokens => tokens[n] \in gone'
      BY <1>1
    <2> QED BY <2>1, <2>2 DEF Valid
  <1>7. Created' = Created
    BY <1>1 DEF Created
  <1>8. \A s : s \in Valid => s \in Created
    BY <1>3 DEF Valid
  <1>9. TypeOK'
    <2>1. PICK N \in SUBSET Names : tokens \in [N -> Secrets]
      BY DEF TokensInv, TypeOK, Tables
    <2>2. tokens' \in [N \ {n} -> Secrets] /\ N \ {n} \in SUBSET Names
      BY <2>1, <1>1 DEF Without
    <2>3. tokens' \in Tables
      BY <2>2 DEF Tables
    <2>4. gone' \subseteq Secrets
      BY <1>5, <1>8, CreatedTypes DEF TokensInv, TypeOK
    <2>5. over' \in [Admins -> SUBSET Secrets]
      BY <1>1 DEF TokensInv, TypeOK
    <2> QED BY <2>3, <2>4, <2>5, <1>1 DEF TokensInv, TypeOK, runs
  <1>10. TableInv'
    <2>1. \A m \in DOMAIN tokens' : tokens'[m] \in Created' /\ made'[tokens'[m]] = m
      BY <1>1, <1>2, <1>3, <1>7
    <2>2. \A s \in gone' : s \in Created' /\ s \notin Valid'
      BY <1>4, <1>5, <1>7, <1>8 DEF TokensInv, TableInv
    <2>3. \A s \in printed' : s \in Created' /\ (s \in Valid' \/ s \in gone')
      BY <1>1, <1>5, <1>6, <1>7 DEF TokensInv, TableInv
    <2>4. told' \subseteq gone'
      BY <1>1 DEF TokensInv, TableInv
    <2> QED BY <2>1, <2>2, <2>3, <2>4 DEF TableInv
  <1>11. CommandInv'
    <2>1. /\ command'[a] = "answer" /\ over'[a] = {s \in printed : made[s] = n}
          /\ \A b \in Admins \ {a} : command'[b] = command[b] /\ over'[b] = over[b]
      BY <1>1 DEF TokensInv, TypeOK
    <2>2. over'[a] \subseteq gone'
      BY <2>1, <1>5 DEF TokensInv, TableInv
    <2>3. ASSUME NEW b \in Admins, command'[b] = "insert"
          PROVE  /\ secret'[b] \in Created' /\ secret'[b] \notin gone' /\ secret'[b] \notin Valid'
                 /\ \A d \in Admins : command'[d] = "insert" /\ secret'[d] = secret'[b] => d = b
      BY <2>1, <2>3, <1>1, <1>4, <1>5, <1>7 DEF TokensInv, CommandInv
    <2>4. ASSUME NEW b \in Admins, command'[b] = "print"
          PROVE  secret'[b] \in Created' /\ (secret'[b] \in Valid' \/ secret'[b] \in gone')
      BY <2>1, <2>4, <1>1, <1>5, <1>6, <1>7 DEF TokensInv, CommandInv
    <2>5. \A b \in Admins : over'[b] \subseteq gone'
      BY <2>1, <2>2, <1>5 DEF TokensInv, CommandInv
    <2> QED BY <2>3, <2>4, <2>5 DEF CommandInv
  <1>12. RunsHold'
    <2>1. \A k \in Runs : \A m \in DOMAIN rows[k] :
              rows[k][m] \in Valid' \/ rows[k][m] \in gone'
      BY <1>5, <1>6 DEF TokensInv, RunsHold
    <2> QED BY <2>1, <1>1, <1>5 DEF TokensInv, RunsHold, runs, Holds
  <1> QED BY <1>9, <1>10, <1>11, <1>12 DEF TokensInv

\* The administrators' part holds after a step of a run.
LEMMA RunKeeps ==
    ASSUME TokensInv, UNCHANGED admins
    PROVE  TableInv' /\ CommandInv' /\ Valid' = Valid
  BY DEF TokensInv, TableInv, CommandInv, admins, Created, Valid

LEMMA RunInv ==
    ASSUME TokensInv, NEW k \in Runs, Run(k) PROVE TokensInv'
  <1>1. UNCHANGED admins
    BY DEF Run, Submit, Fetch, Pass, Refuse, Proceed, Fail
  <1>2. TableInv' /\ CommandInv' /\ Valid' = Valid
    BY <1>1, RunKeeps
  <1>3. /\ tokens' = tokens /\ printed' = printed /\ gone' = gone
    BY <1>1 DEF admins
  <1>4. /\ stage \in [Runs -> Stages] /\ token \in [Runs -> Secrets \cup {Wrong}]
        /\ rows \in [Runs -> Tables] /\ passed \in [Runs -> 0..Requests]
        /\ late \in [Runs -> Nat] /\ tokens \in Tables /\ printed \subseteq Secrets
    BY DEF TokensInv, TypeOK
  <1>5. TypeOK' /\ RunsHold'
    <2>1. CASE Submit(k)
      <3>1. PICK s \in printed \cup {Wrong} : token' = [token EXCEPT ![k] = s]
        BY <2>1 DEF Submit
      <3>2. /\ stage[k] = "new" /\ stage' = [stage EXCEPT ![k] = "asking"]
            /\ UNCHANGED <<rows, passed, late>>
        BY <2>1 DEF Submit, Goto
      <3>3. passed[k] < Requests /\ late[k] = 0
        BY <3>2 DEF TokensInv, RunsHold
      <3>4. TypeOK'
        BY <3>1, <3>2, <1>1, <1>4 DEF TokensInv, TypeOK, admins, Stages
      <3> QED BY <3>1, <3>2, <3>3, <3>4, <1>2, <1>3, <1>4 DEF TokensInv, RunsHold
    <2>2. CASE Fetch(k)
      <3>1. /\ rows' = [rows EXCEPT ![k] = tokens] /\ stage' = [stage EXCEPT ![k] = "checking"]
            /\ UNCHANGED <<token, passed, late>> /\ stage[k] = "asking"
        BY <2>2 DEF Fetch, Goto, Current
      <3>2. TypeOK'
        BY <3>1, <1>1, <1>4 DEF TokensInv, TypeOK, admins, Stages
      <3>3. \A n \in DOMAIN tokens : tokens[n] \in Valid
        BY DEF Valid
      <3>4. token[k] \in gone => ~Holds(tokens, token[k])
        BY DEF TokensInv, TableInv, Valid, Holds
      <3> QED BY <3>1, <3>2, <3>3, <3>4, <1>2, <1>3, <1>4 DEF TokensInv, RunsHold, Holds
    <2>3. CASE Pass(k)
      <3>1. /\ stage[k] = "checking" /\ Holds(rows[k], token[k]) /\ UNCHANGED <<token, rows>>
            /\ passed' = [passed EXCEPT ![k] = @ + 1]
            /\ late' = [late EXCEPT ![k] = IF token[k] \in Valid THEN @ ELSE @ + 1]
            /\ stage' = [stage EXCEPT ![k] = IF passed[k] + 1 = Requests THEN "done"
                                                                        ELSE "working"]
        BY <2>3 DEF Pass, Goto
      <3>2. late[k] = 0 /\ passed[k] < Requests /\ (token[k] \in Valid \/ token[k] \in gone)
        BY <3>1, <1>4 DEF TokensInv, RunsHold, Holds
      <3>3. /\ passed'[k] = passed[k] + 1 /\ late'[k] \in {0, 1}
            /\ late'[k] = 1 => token[k] \in gone
            /\ \A j \in Runs \ {k} : passed'[j] = passed[j] /\ late'[j] = late[j]
                                     /\ stage'[j] = stage[j]
            /\ stage'[k] \in {"done", "working"}
            /\ stage'[k] = "working" => passed[k] + 1 # Requests
        BY <3>1, <3>2, <1>4
      <3>4. TypeOK'
        <4>1. passed[k] + 1 \in 0..Requests /\ passed' \in [Runs -> 0..Requests]
          BY <3>1, <3>2, <1>4, TokensAssumption
        <4>2. late' \in [Runs -> Nat] /\ stage' \in [Runs -> Stages]
          BY <3>1, <1>4 DEF Stages
        <4> QED BY <4>1, <4>2, <3>1, <1>1 DEF TokensInv, TypeOK, admins
      <3>5. RunsHold'
        BY <3>1, <3>2, <3>3, <1>2, <1>3, <1>4, TokensAssumption DEF TokensInv, RunsHold
      <3> QED BY <3>4, <3>5
    <2>4. CASE Refuse(k) \/ Proceed(k) \/ Fail(k)
      <3>1. /\ stage[k] \in {"asking", "checking", "working"}
            /\ UNCHANGED <<token, rows, passed, late>>
            /\ \E st \in {"asking", "refused", "failed"} : stage' = [stage EXCEPT ![k] = st]
        BY <2>4 DEF Refuse, Proceed, Fail, Goto
      <3> QED BY <3>1, <1>1, <1>2, <1>3, <1>4
              DEF TokensInv, TypeOK, RunsHold, admins, Stages
    <2> QED BY <2>1, <2>2, <2>3, <2>4 DEF Run
  <1> QED BY <1>2, <1>5 DEF TokensInv

LEMMA NextInv == TokensInv /\ [Next]_vars => TokensInv'
  <1> SUFFICES ASSUME TokensInv, [Next]_vars PROVE TokensInv'
    OBVIOUS
  <1>1. ASSUME NEW a \in Admins, Admin(a) PROVE TokensInv'
    <2>1. CASE \E n \in Names : Generate(a, n)
      BY <2>1, GenerateInv
    <2>2. CASE \E n \in Names : Revoke(a, n)
      BY <2>2, RevokeInv
    <2>3. CASE Insert(a)
      BY <2>3, InsertInv
    <2>4. CASE AlreadyExists(a) \/ PrintToken(a) \/ Answer(a) \/ Abort(a)
      BY <2>4, EndInv DEF AlreadyExists, PrintToken, Answer, Abort
    <2> QED BY <1>1, <2>1, <2>2, <2>3, <2>4 DEF Admin
  <1>2. CASE \E k \in Runs : Run(k)
    BY <1>2, RunInv
  <1>3. CASE UNCHANGED vars
    BY <1>3 DEF vars, admins, runs, TokensInv, TypeOK, TableInv, CommandInv, RunsHold, Created,
                Valid
  <1> QED BY <1>1, <1>2, <1>3 DEF Next

\* A secret has one life, and the runs hold secrets that had one.
THEOREM OneLife == Spec => []TokensInv
  BY InitInv, NextInv, PTL DEF Spec

\* What forge-token says of a token is so, for any number of its commands at a time.
THEOREM Truthful == Spec => []ToldRight
  <1>1. TokensInv => ToldRight
    BY DEF TokensInv, TableInv, ToldRight
  <1> QED BY <1>1, OneLife, PTL

\* However long a run is, a revoked token lets it have one more request at most.
THEOREM RevocationReachesRuns == Spec => []AtMostOneLate
  <1>1. TokensInv => AtMostOneLate
    BY DEF TokensInv, RunsHold, AtMostOneLate
  <1> QED BY <1>1, OneLife, PTL

=============================================================================
