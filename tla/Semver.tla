------------------------------- MODULE Semver -------------------------------
(***************************************************************************)
(* registry/resolver.py: versions, and the constraints on them that a      *)
(* pipeline or an artifact may write.  A constraint is the sequence of its *)
(* parts, each a mark with a version.                                      *)
(***************************************************************************)
EXTENDS Naturals, Sequences

Version == Nat \X Nat \X Nat
Marks == {"^", "~", "", "=", ">=", "<=", ">", "<"}
Part == [mark : Marks, version : Version]
Constraint == Seq(Part)

\* class Version (order=True), and version_sort_key: number by number.
Less(v, w) == \/ v[1] < w[1]
              \/ v[1] = w[1] /\ v[2] < w[2]
              \/ v[1] = w[1] /\ v[2] = w[2] /\ v[3] < w[3]

\* Comparator.satisfies
Meets(v, c) == \/ c.op \in {"==", ">=", "<="} /\ v = c.version
               \/ c.op \in {">", ">="} /\ Less(c.version, v)
               \/ c.op \in {"<", "<="} /\ Less(v, c.version)

KeepsMinor(v) == <<v[1] + 1, v[2], v[3]>>                 \* mutant: not reset
NextMajor(v) == <<v[1] + 1, 0, 0>>
NextMinor(v) == <<v[1], v[2] + 1, 0>>

Between(v, w) == {[op |-> ">=", version |-> v], [op |-> "<", version |-> w]}
Operator(mark) == IF mark \in {"", "="} THEN "==" ELSE mark

\* SemverConstraint.parse: a range stands alone, anything else lists comparators.
Ranges == {"^", "~"}
IsRange(raw) == Len(raw) = 1 /\ raw[1].mark \in Ranges
Parses(raw) == IsRange(raw) \/ (raw # <<>> /\ \A i \in DOMAIN raw : raw[i].mark \notin Ranges)
Comparators(raw) ==
    CASE IsRange(raw) /\ raw[1].mark = "^" -> Between(raw[1].version, NextMajor(raw[1].version))
      [] IsRange(raw) /\ raw[1].mark = "~" -> Between(raw[1].version, NextMinor(raw[1].version))
      [] OTHER -> {[op |-> Operator(raw[i].mark), version |-> raw[i].version] : i \in DOMAIN raw}

Satisfies(v, raw) == \A c \in Comparators(raw) : Meets(v, c)

\* What a range says: from its version on, with its major number (docs: "^1.2.3" is
\* ">=1.2.3 <2.0.0"), or also with its minor number ("~1.2.3" is ">=1.2.3 <1.3.0").
InRange(w, part) ==
    LET v == part.version IN
    /\ w[1] = v[1] /\ ~Less(w, v)
    /\ part.mark = "~" => w[2] = v[2]
=============================================================================
