------------------------------- MODULE Tokens -------------------------------
(***************************************************************************)
(* registry/auth.py: forge-token on the host creates and revokes tokens    *)
(* while the registry, another process, checks those that clients hold.    *)
(*                                                                         *)
(* A client is a run: the engine has its token verified when it is         *)
(* submitted, keeps the token, and sends it again with every later request *)
(* (resolve, and each publish).  A secret is the number of its creation,   *)
(* which stands for 256 random bits; the table holds its hash.             *)
(***************************************************************************)
EXTENDS Naturals, Sequences

CONSTANTS Names,      \* names of tokens
          Admins,     \* forge-token commands that may run at one time
          Runs,       \* clients
          Requests,   \* requests a run makes with its token
          MaxSecrets  \* bound: secrets created

ASSUME TokensAssumption == Requests \in Nat \ {0} /\ MaxSecrets \in Nat

VARIABLES
    tokens,   \* the table: name -> secret, for the names that are there
    made,     \* the names secrets were created for, in order
    printed,  \* the secrets that were shown
    gone,     \* the secrets whose row a revocation deleted
    command,  \* admin -> what it does next
    secret,   \* admin -> the secret it has made
    over,     \* admin -> the printed secrets of the name it has revoked
    told,     \* the secrets printed before a revocation of their name that was answered
    stage,    \* run -> where it is
    token,    \* run -> its token
    rows,     \* run -> the rows that the check of its request has fetched
    passed,   \* run -> number of its requests that were let through
    late      \* run -> those of them let through when the token was no longer there

admins == <<tokens, made, printed, gone, command, secret, over, told>>
runs == <<stage, token, rows, passed, late>>
vars == <<admins, runs>>

NoRows == [n \in {} |-> 0]
Wrong == 0                        \* a token that nobody created
Created == 1..Len(made)
Holds(table, s) == \E n \in DOMAIN table : table[n] = s
Valid == {tokens[n] : n \in DOMAIN tokens}

Init ==
    /\ tokens = NoRows /\ made = <<>> /\ printed = {} /\ gone = {} /\ told = {}
    /\ command = [a \in Admins |-> "none"]
    /\ secret = [a \in Admins |-> Wrong] /\ over = [a \in Admins |-> {}]
    /\ stage = [k \in Runs |-> "new"] /\ token = [k \in Runs |-> Wrong]
    /\ rows = [k \in Runs |-> NoRows]
    /\ passed = [k \in Runs |-> 0] /\ late = [k \in Runs |-> 0]

-----------------------------------------------------------------------------
(* forge-token *)

Begin(a, next) == command[a] = "none" /\ command' = [command EXCEPT ![a] = next]
End(a) == /\ command' = [command EXCEPT ![a] = "none"]
          /\ secret' = [secret EXCEPT ![a] = Wrong] /\ over' = [over EXCEPT ![a] = {}]

\* create_token: the secret and its hash ...
Generate(a, n) ==
    /\ Begin(a, "insert") /\ Len(made) < MaxSecrets
    /\ made' = Append(made, n)
    /\ secret' = [secret EXCEPT ![a] = Len(made) + 1]
    /\ UNCHANGED <<tokens, printed, gone, over, told, runs>>

\* ... the row, unless the name is there (UNIQUE: IntegrityError, then ValueError) ...
Replaces(n) == TRUE                                      \* mutant: INSERT OR REPLACE
Free(n) == n \notin DOMAIN tokens
With(n, s) == [m \in DOMAIN tokens \cup {n} |-> IF m = n THEN s ELSE tokens[m]]

Insert(a) ==
    /\ command[a] = "insert" /\ Free(made[secret[a]])
    /\ tokens' = With(made[secret[a]], secret[a])
    /\ command' = [command EXCEPT ![a] = "print"]
    /\ UNCHANGED <<made, printed, gone, secret, over, told, runs>>

AlreadyExists(a) ==
    /\ command[a] = "insert" /\ ~Free(made[secret[a]])
    /\ End(a)
    /\ UNCHANGED <<tokens, made, printed, gone, told, runs>>

\* ... and the secret, once, on the terminal.
PrintToken(a) ==
    /\ command[a] = "print"
    /\ printed' = printed \cup {secret[a]}
    /\ End(a)
    /\ UNCHANGED <<tokens, made, gone, told, runs>>

\* revoke_token: DELETE and commit, then the answer.
Uncommitted(n) == tokens                                 \* mutant: no commit
Without(n) == [m \in DOMAIN tokens \ {n} |-> tokens[m]]

Revoke(a, n) ==
    /\ Begin(a, "answer")
    /\ tokens' = Without(n)
    /\ gone' = gone \cup {tokens[m] : m \in DOMAIN tokens \cap {n}}
    /\ over' = [over EXCEPT ![a] = {s \in printed : made[s] = n}]
    /\ UNCHANGED <<made, printed, secret, told, runs>>

Answer(a) ==
    /\ command[a] = "answer"
    /\ told' = told \cup over[a]
    /\ End(a)
    /\ UNCHANGED <<tokens, made, printed, gone, runs>>

\* The command is interrupted, or finds the database locked for too long.
Abort(a) ==
    /\ command[a] # "none"
    /\ End(a)
    /\ UNCHANGED <<tokens, made, printed, gone, told, runs>>

Admin(a) ==
    \/ \E n \in Names : Generate(a, n) \/ Revoke(a, n)
    \/ Insert(a) \/ AlreadyExists(a) \/ PrintToken(a) \/ Answer(a) \/ Abort(a)

-----------------------------------------------------------------------------
(* Requests of a run *)

Goto(k, st) == stage' = [stage EXCEPT ![k] = st]

\* create_run: somebody who holds a token, or has a wrong one, submits a pipeline.
Submit(k) ==
    /\ stage[k] = "new"
    /\ \E s \in printed \cup {Wrong} : token' = [token EXCEPT ![k] = s]
    /\ Goto(k, "asking")
    /\ UNCHANGED <<admins, rows, passed, late>>

\* verify_token in the registry: fetch all rows, then compare them one by one.
Remembered(k) == IF passed[k] > 0 THEN rows[k] ELSE tokens    \* mutant: a cached check
Current(k) == tokens

Fetch(k) ==
    /\ stage[k] = "asking"
    /\ rows' = [rows EXCEPT ![k] = Current(k)]
    /\ Goto(k, "checking")
    /\ UNCHANGED <<admins, token, passed, late>>

Pass(k) ==
    /\ stage[k] = "checking" /\ Holds(rows[k], token[k])
    /\ passed' = [passed EXCEPT ![k] = @ + 1]
    /\ late' = [late EXCEPT ![k] = IF token[k] \in Valid THEN @ ELSE @ + 1]
    /\ Goto(k, IF passed[k] + 1 = Requests THEN "done" ELSE "working")
    /\ UNCHANGED <<admins, token, rows>>

\* 401: the submission is refused, or the run fails.
Refuse(k) ==
    /\ stage[k] = "checking" /\ ~Holds(rows[k], token[k])
    /\ Goto(k, "refused")
    /\ UNCHANGED <<admins, token, rows, passed, late>>

\* The run reaches its next request.
Proceed(k) ==
    /\ stage[k] = "working"
    /\ Goto(k, "asking")
    /\ UNCHANGED <<admins, token, rows, passed, late>>

\* The request times out or the registry dies under it, the run fails on its own, or
\* the engine dies.
Fail(k) ==
    /\ stage[k] \in {"asking", "checking", "working"}
    /\ Goto(k, "failed")
    /\ UNCHANGED <<admins, token, rows, passed, late>>

Run(k) == Submit(k) \/ Fetch(k) \/ Pass(k) \/ Refuse(k) \/ Proceed(k) \/ Fail(k)

Next == (\E a \in Admins : Admin(a)) \/ (\E k \in Runs : Run(k))

Spec == Init /\ [][Next]_vars

-----------------------------------------------------------------------------
Secrets == 1..MaxSecrets
Tables == UNION {[N -> Secrets] : N \in SUBSET Names}
Stages == {"new", "asking", "checking", "working", "done", "refused", "failed"}

TypeOK ==
    /\ tokens \in Tables
    /\ made \in Seq(Names) /\ Len(made) <= MaxSecrets
    /\ printed \subseteq Secrets /\ gone \subseteq Secrets
    /\ told \subseteq Secrets
    /\ command \in [Admins -> {"none", "insert", "print", "answer"}]
    /\ secret \in [Admins -> Secrets \cup {Wrong}] /\ over \in [Admins -> SUBSET Secrets]
    /\ stage \in [Runs -> Stages] /\ token \in [Runs -> Secrets \cup {Wrong}]
    /\ rows \in [Runs -> Tables]
    /\ passed \in [Runs -> 0..Requests] /\ late \in [Runs -> Nat]

\* A secret has one life: unborn, in the hands of the one command that made it, in
\* the table under the name it was made for, gone for good.
TableInv ==
    /\ \A n \in DOMAIN tokens : tokens[n] \in Created /\ made[tokens[n]] = n
    /\ \A s \in gone : s \in Created /\ s \notin Valid
    /\ \A s \in printed : s \in Created /\ (s \in Valid \/ s \in gone)
    /\ told \subseteq gone
CommandInv ==
    \A a \in Admins :
      /\ command[a] = "insert" =>
           /\ secret[a] \in Created /\ secret[a] \notin gone /\ secret[a] \notin Valid
           /\ \A b \in Admins : command[b] = "insert" /\ secret[b] = secret[a] => b = a
      /\ command[a] = "print" =>
           secret[a] \in Created /\ (secret[a] \in Valid \/ secret[a] \in gone)
      /\ over[a] \subseteq gone
\* What a check has fetched was in the table; a run has a token that was printed, or
\* a wrong one; a late request leaves it with a token that is gone and unchecked.
RunsHold ==
    \A k \in Runs :
      /\ \A n \in DOMAIN rows[k] : rows[k][n] \in Valid \/ rows[k][n] \in gone
      /\ token[k] \in printed \cup {Wrong}
      /\ stage[k] \in {"new", "asking", "checking", "working"} => passed[k] < Requests
      /\ late[k] <= 1 /\ (stage[k] = "new" => late[k] = 0)
      /\ late[k] = 1 => /\ token[k] \in gone
                        /\ stage[k] = "checking" => ~Holds(rows[k], token[k])
TokensInv == TypeOK /\ TableInv /\ CommandInv /\ RunsHold

\* What forge-token says is so.  A token that was printed works until a revocation
\* takes it, whoever else creates tokens of that name at the time; and once
\* `revoke` has answered, no token printed before for that name works ever again,
\* not even when the name is created anew.
ToldRight ==
    /\ \A s \in printed : s \in Valid \/ s \in gone
    /\ \A s \in told : s \notin Valid

\* Revocation reaches the runs that hold the token: at most the one request whose
\* check had fetched the table by then still passes, and none after it.
AtMostOneLate == \A k \in Runs : late[k] <= 1
=============================================================================
