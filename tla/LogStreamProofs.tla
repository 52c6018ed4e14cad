-------------------------- MODULE LogStreamProofs --------------------------
(***************************************************************************)
(* Proofs of the safety properties of LogStream, and that its streams are  *)
(* the feed that LogFeed promises.                                         *)
(***************************************************************************)
EXTENDS LogStream, SequenceTheorems, TLAPS

-----------------------------------------------------------------------------
(* What was sent (g) and read (b) of a file (f) up to a position (p).      *)

ReadUpTo(f, g, b, p) ==
    /\ Len(g) + Len(b) = p /\ p <= Len(f)
    /\ \A i \in 1..Len(g) : g[i] = f[i]
    /\ \A i \in 1..Len(b) : b[i] = f[Len(g) + i]

\* Item by item, this says that g and b together are the beginning of f.
LEMMA BeginningOf ==
    ASSUME NEW S, NEW f \in Seq(S), NEW g \in Seq(S), NEW b \in Seq(S), NEW p \in Nat
    PROVE  ReadUpTo(f, g, b, p) <=> p \in 0..Len(f) /\ g \o b = SubSeq(f, 1, p)
<1>1. /\ g \o b \in Seq(S) /\ Len(g \o b) = Len(g) + Len(b)
      /\ \A i \in 1..Len(g) + Len(b) : (g \o b)[i] = IF i <= Len(g) THEN g[i] ELSE b[i - Len(g)]
  BY ConcatProperties
<1>2. p <= Len(f) => /\ SubSeq(f, 1, p) \in Seq(S) /\ Len(SubSeq(f, 1, p)) = p
                     /\ \A i \in 1..p : SubSeq(f, 1, p)[i] = f[i]
  <2>1. HAVE p <= Len(f)
  <2>2. \A i \in 1..p : f[i] \in S
    BY <2>1, ElementOfSeq
  <2>3. 1 \in Int /\ p \in Int
    OBVIOUS
  <2>4. /\ SubSeq(f, 1, p) \in Seq(S)
        /\ Len(SubSeq(f, 1, p)) = IF 1 <= p THEN p - 1 + 1 ELSE 0
        /\ \A i \in 1..p - 1 + 1 : SubSeq(f, 1, p)[i] = f[1 + i - 1]
    BY <2>2, <2>3, SubSeqProperties
  <2>. QED  BY <2>4
<1>3. ASSUME ReadUpTo(f, g, b, p)
      PROVE  p \in 0..Len(f) /\ g \o b = SubSeq(f, 1, p)
  <2>1. p <= Len(f) /\ Len(g \o b) = p /\ Len(g) \in Nat /\ Len(b) \in Nat /\ Len(f) \in Nat
    BY <1>1, <1>3, LenProperties DEF ReadUpTo
  <2>2. \A i \in 1..p : (g \o b)[i] = f[i]
    <3>1. TAKE i \in 1..p
    <3>2. CASE i <= Len(g)
      BY <1>1, <1>3, <2>1, <3>2 DEF ReadUpTo
    <3>3. CASE ~(i <= Len(g))
      <4>1. i - Len(g) \in 1..Len(b) /\ Len(g) + (i - Len(g)) = i
        BY <1>3, <2>1, <3>3 DEF ReadUpTo
      <4>2. b[i - Len(g)] = f[i]
        BY <1>3, <4>1 DEF ReadUpTo
      <4>. QED  BY <1>1, <1>3, <2>1, <3>3, <4>2 DEF ReadUpTo
    <3>. QED  BY <3>2, <3>3
  <2>. QED  BY <1>1, <1>2, <2>1, <2>2, SeqEqual
<1>4. ASSUME p \in 0..Len(f), g \o b = SubSeq(f, 1, p)
      PROVE  ReadUpTo(f, g, b, p)
  <2>1. Len(g) + Len(b) = p /\ Len(g) \in Nat /\ Len(b) \in Nat /\ Len(f) \in Nat
    BY <1>1, <1>2, <1>4, LenProperties
  <2>2. \A i \in 1..p : (g \o b)[i] = f[i]
    BY <1>2, <1>4
  <2>3. \A i \in 1..Len(g) : g[i] = f[i]
    BY <1>1, <2>1, <2>2
  <2>4. \A i \in 1..Len(b) : b[i] = f[Len(g) + i]
    <3>1. TAKE i \in 1..Len(b)
    <3>2. /\ Len(g) + i \in 1..Len(g) + Len(b) /\ ~(Len(g) + i <= Len(g))
          /\ (Len(g) + i) - Len(g) = i
      BY <2>1
    <3>. QED  BY <1>1, <2>1, <2>2, <3>2
  <2>. QED  BY <1>4, <2>1, <2>3, <2>4 DEF ReadUpTo
<1>. QED  BY <1>3, <1>4

\* Appending to the file changes nothing for who has read a part of it.
LEMMA FileGrows ==
    ASSUME NEW S, NEW f \in Seq(S), NEW g \in Seq(S), NEW b \in Seq(S), NEW p \in Nat, NEW e \in S,
           ReadUpTo(f, g, b, p)
    PROVE  ReadUpTo(Append(f, e), g, b, p)
<1>1. /\ Len(Append(f, e)) = Len(f) + 1
      /\ \A i \in 1..Len(f) : Append(f, e)[i] = f[i]
  BY AppendProperties
<1>2. Len(f) \in Nat /\ Len(g) \in Nat /\ Len(b) \in Nat
  BY LenProperties
<1>. QED  BY <1>1, <1>2 DEF ReadUpTo

\* Reading on from the position.
LEMMA ReadsOn ==
    ASSUME NEW S, NEW f \in Seq(S), NEW g \in Seq(S), NEW b \in Seq(S), NEW p \in Nat,
           NEW n \in Nat, p <= n, n <= Len(f), ReadUpTo(f, g, b, p)
    PROVE  /\ b \o SubSeq(f, p + 1, n) \in Seq(S)
           /\ ReadUpTo(f, g, b \o SubSeq(f, p + 1, n), n)
<1>0. PICK more : more = SubSeq(f, p + 1, n)
  OBVIOUS
<1>1. Len(f) \in Nat /\ Len(g) \in Nat /\ Len(b) \in Nat
  BY LenProperties
<1>2. \A i \in p + 1..n : f[i] \in S
  BY <1>1, ElementOfSeq
<1>3. /\ more \in Seq(S) /\ Len(more) = IF p + 1 <= n THEN n - (p + 1) + 1 ELSE 0
      /\ \A i \in 1..n - (p + 1) + 1 : more[i] = f[(p + 1) + i - 1]
  <2>1. p + 1 \in Int /\ n \in Int
    OBVIOUS
  <2>. QED  BY <1>0, <1>2, <2>1, SubSeqProperties
<1>4. Len(more) = n - p /\ \A i \in 1..n - p : more[i] = f[p + i]
  BY <1>3
<1>4a. Len(g) + Len(b) = p /\ Len(more) \in Nat
  BY <1>4 DEF ReadUpTo
<1>5. /\ b \o more \in Seq(S) /\ Len(b \o more) = Len(b) + Len(more)
      /\ \A i \in 1..Len(b) + Len(more) :
            (b \o more)[i] = IF i <= Len(b) THEN b[i] ELSE more[i - Len(b)]
  BY <1>3, ConcatProperties
<1>6. \A i \in 1..Len(b) + Len(more) : (b \o more)[i] = f[Len(g) + i]
  <2>1. TAKE i \in 1..Len(b) + Len(more)
  <2>2. CASE i <= Len(b)
    BY <1>1, <1>5, <2>2, <1>4 DEF ReadUpTo
  <2>3. CASE ~(i <= Len(b))
    <3>1. i \in Nat /\ i > Len(b) /\ i <= Len(b) + (n - p)
      BY <1>1, <1>4, <1>4a, <2>3
    <3>2. i - Len(b) \in 1..n - p
      BY <1>1, <3>1
    <3>3. p + (i - Len(b)) = Len(g) + i
      BY <1>1, <1>4a, <3>1
    <3>4. more[i - Len(b)] = f[Len(g) + i]
      BY <1>4, <3>2, <3>3
    <3>. QED  BY <1>5, <2>3, <3>4
  <2>. QED  BY <2>2, <2>3
<1>7. ReadUpTo(f, g, b \o more, n)
  <2>1. Len(g) + Len(b \o more) = n
    <3>1. Len(b \o more) = Len(b) + Len(more)
      BY <1>5
    <3>2. Len(more) = n - p
      BY <1>4
    <3>. QED  BY <1>1, <1>4a, <3>1, <3>2
  <2>2. \A i \in 1..Len(g) : g[i] = f[i]
    BY DEF ReadUpTo
  <2>. QED  BY <1>5, <1>6, <2>1, <2>2 DEF ReadUpTo
<1>. QED  BY <1>0, <1>5, <1>7

\* Sending the first n items of what was read.
LEMMA SendsOn ==
    ASSUME NEW S, NEW f \in Seq(S), NEW g \in Seq(S), NEW b \in Seq(S), NEW p \in Nat,
           NEW n \in 1..Len(b), ReadUpTo(f, g, b, p)
    PROVE  /\ g \o SubSeq(b, 1, n) \in Seq(S)
           /\ SubSeq(b, n + 1, Len(b)) \in Seq(S)
           /\ Len(g \o SubSeq(b, 1, n)) = Len(g) + n
           /\ (g \o SubSeq(b, 1, n))[Len(g) + n] = b[n]
           /\ Len(SubSeq(b, 1, n)) = n
           /\ \A i \in 1..n : SubSeq(b, 1, n)[i] = b[i]
           /\ ReadUpTo(f, g \o SubSeq(b, 1, n), SubSeq(b, n + 1, Len(b)), p)
<1>0. PICK line, rest : line = SubSeq(b, 1, n) /\ rest = SubSeq(b, n + 1, Len(b))
  OBVIOUS
<1>1. Len(f) \in Nat /\ Len(g) \in Nat /\ Len(b) \in Nat
  BY LenProperties
<1>2. \A i \in 1..Len(b) : b[i] \in S
  BY ElementOfSeq
<1>3. /\ line \in Seq(S) /\ Len(line) = IF 1 <= n THEN n - 1 + 1 ELSE 0
      /\ \A i \in 1..n - 1 + 1 : line[i] = b[1 + i - 1]
  <2>1. 1 \in Int /\ n \in Int /\ \A i \in 1..n : b[i] \in S
    BY <1>1, <1>2
  <2>. QED  BY <1>0, <2>1, SubSeqProperties
<1>4. /\ rest \in Seq(S) /\ Len(rest) = IF n + 1 <= Len(b) THEN Len(b) - (n + 1) + 1 ELSE 0
      /\ \A i \in 1..Len(b) - (n + 1) + 1 : rest[i] = b[(n + 1) + i - 1]
  <2>1. n + 1 \in Int /\ Len(b) \in Int /\ \A i \in n + 1..Len(b) : b[i] \in S
    BY <1>1, <1>2
  <2>. QED  BY <1>0, <2>1, SubSeqProperties
<1>5. Len(line) = n /\ \A i \in 1..n : line[i] = b[i]
  BY <1>1, <1>3
<1>6. Len(rest) = Len(b) - n /\ \A i \in 1..Len(b) - n : rest[i] = b[n + i]
  BY <1>1, <1>4
<1>7. /\ g \o line \in Seq(S) /\ Len(g \o line) = Len(g) + Len(line)
      /\ \A i \in 1..Len(g) + Len(line) :
            (g \o line)[i] = IF i <= Len(g) THEN g[i] ELSE line[i - Len(g)]
  BY <1>3, ConcatProperties
<1>8. \A i \in 1..Len(g) + n : (g \o line)[i] = f[i]
  <2>1. TAKE i \in 1..Len(g) + n
  <2>2. CASE i <= Len(g)
    BY <1>1, <1>5, <1>7, <2>2 DEF ReadUpTo
  <2>3. CASE ~(i <= Len(g))
    <3>1. i - Len(g) \in 1..n /\ Len(g) + (i - Len(g)) = i /\ i - Len(g) \in 1..Len(b)
      BY <1>1, <2>3
    <3>2. line[i - Len(g)] = f[i]
      BY <1>5, <3>1 DEF ReadUpTo
    <3>. QED  BY <1>5, <1>7, <2>3, <3>2
  <2>. QED  BY <2>2, <2>3
<1>9. \A i \in 1..Len(b) - n : rest[i] = f[Len(g) + n + i]
  <2>1. TAKE i \in 1..Len(b) - n
  <2>2. n + i \in 1..Len(b) /\ Len(g) + (n + i) = Len(g) + n + i
    BY <1>1
  <2>. QED  BY <1>6, <2>2 DEF ReadUpTo
<1>10. ReadUpTo(f, g \o line, rest, p)
  <2>1. Len(g) + Len(b) = p /\ p <= Len(f)
    BY DEF ReadUpTo
  <2>2. Len(g \o line) = Len(g) + n /\ Len(g \o line) + Len(rest) = p
    <3>1. Len(g \o line) = Len(g) + n
      BY <1>5, <1>7
    <3>2. Len(rest) = Len(b) - n
      BY <1>6
    <3>. QED  BY <1>1, <2>1, <3>1, <3>2
  <2>3. \A i \in 1..Len(rest) : rest[i] = f[Len(g \o line) + i]
    BY <1>6, <1>9, <2>2
  <2>. QED  BY <1>8, <2>1, <2>2, <2>3 DEF ReadUpTo
<1>11. (g \o line)[Len(g) + n] = b[n]
  <2>1. Len(g) + n \in 1..Len(g) + Len(line) /\ ~(Len(g) + n <= Len(g)) /\ (Len(g) + n) - Len(g) = n
    BY <1>1, <1>5
  <2>. QED  BY <1>5, <1>7, <2>1
<1>. QED  BY <1>3, <1>4, <1>5, <1>7, <1>10, <1>11, <1>0

\* Forgetting what was read, and the position with it.
LEMMA WalksBack ==
    ASSUME NEW S, NEW f \in Seq(S), NEW g \in Seq(S), NEW b \in Seq(S), NEW p \in Nat,
           ReadUpTo(f, g, b, p)
    PROVE  p - Len(b) \in Nat /\ ReadUpTo(f, g, <<>>, p - Len(b))
<1>1. Len(f) \in Nat /\ Len(g) \in Nat /\ Len(b) \in Nat
  BY LenProperties
<1>. QED  BY <1>1 DEF ReadUpTo

-----------------------------------------------------------------------------
(* The inductive invariant.                                                *)

TypeInv ==
    /\ exists \in BOOLEAN /\ torn \in BOOLEAN /\ final \in BOOLEAN /\ quiet \in BOOLEAN
    /\ oneLoop \in BOOLEAN /\ stage \in Stages
    /\ kind \in [Clients -> {"run", "follow", "look"}]
    /\ pc \in [Clients -> {"idle", "waiting"} \cup Streaming \cup Over]
    /\ pos \in [Clients -> Nat]
    /\ buf \in [Clients -> Seq(Units)]
    /\ got \in [Clients -> Seq(Units)]
    /\ late \in [Clients -> BOOLEAN]
    /\ told \in [Clients -> {"none", "running", "final", "error"}]

\* ReaderInv, item by item
FollowInv(c) ==
    /\ pc[c] \in {"idle", "waiting", "not found"} => pos[c] = 0 /\ got[c] = <<>> /\ buf[c] = <<>>
    /\ pc[c] \in Streaming \cup {"marker", "gave up", "read"} => exists
    /\ ReadUpTo(file, got[c], buf[c], pos[c])
    /\ got[c] # <<>> => got[c][Len(got[c])] = NL
    /\ told[c] # "none" => kind[c] = "run" /\ pc[c] \in Over

\* Whose deadline is past and who has read everything, is in a lull.
LullInv(c) ==
    /\ late[c] /\ pc[c] = "waiting" /\ ~exists => quiet
    /\ late[c] /\ pc[c] = "tail" /\ pos[c] = Len(file) => quiet

MarkerInv(c) ==
    pc[c] = "marker" => /\ got[c] = file /\ ~torn
                        /\ \E i \in DOMAIN file : file[i] = Marker
                        /\ told[c] # "running"

IInv == TypeInv /\ FileInv /\ \A c \in Clients : FollowInv(c) /\ LullInv(c) /\ MarkerInv(c)

LEMMA Implied == IInv => LogInv /\ MarkerMeansAll /\ ToldTruth
<1>1. ASSUME IInv, NEW c \in Clients
      PROVE  ReaderInv(c)
  <2>1. /\ file \in Seq(Units) /\ got[c] \in Seq(Units) /\ buf[c] \in Seq(Units) /\ pos[c] \in Nat
        /\ ReadUpTo(file, got[c], buf[c], pos[c])
    BY <1>1 DEF IInv, TypeInv, FileInv, FollowInv
  <2>2. pos[c] \in 0..Len(file) /\ got[c] \o buf[c] = SubSeq(file, 1, pos[c])
    BY <2>1, BeginningOf
  <2>. QED  BY <1>1, <2>2 DEF IInv, FollowInv, ReaderInv
<1>. QED  BY <1>1 DEF IInv, TypeInv, MarkerInv, LogInv, MarkerMeansAll, ToldTruth

LEMMA InitInv == Init => IInv
<1> SUFFICES ASSUME Init PROVE IInv
  OBVIOUS
<1>1. TypeInv
  BY LogAssumption, EmptySeq DEF Init, TypeInv, Stages, Streaming
<1>2. FileInv
  BY EmptySeq DEF Init, FileInv
<1>3. ASSUME NEW c \in Clients
      PROVE  FollowInv(c) /\ LullInv(c) /\ MarkerInv(c)
  <2>1. Len(<<>>) = 0
    BY EmptySeq
  <2>. QED  BY <2>1 DEF Init, FollowInv, LullInv, MarkerInv, ReadUpTo, Streaming, Over
<1>. QED  BY <1>1, <1>2, <1>3 DEF IInv

-----------------------------------------------------------------------------
(* The engine's steps.                                                     *)

\* Of two parts, each ends within the whole.
LEMMA Parts ==
    ASSUME NEW a \in Nat, NEW b \in Nat, NEW f \in Nat, a + b <= f
    PROVE  /\ a <= f
           /\ \A n \in 1..b : a + n \in a + 1 .. f
           /\ a + b = f => \A i \in 1..f : i > a => i - a \in 1..b /\ a + (i - a) = i
OBVIOUS

\* Something is appended to the file while readers stand still.
LEMMA AppendsOne ==
    ASSUME IInv, NEW e \in Units, exists, stage \notin {"dead"}, file' = Append(file, e),
           torn \/ stage # "closed", quiet' \in BOOLEAN,
           UNCHANGED <<exists, oneLoop, kind, reading, late, told>>, FileInv', TypeInv'
    PROVE  IInv'
<1>1. ASSUME NEW c \in Clients
      PROVE  FollowInv(c)' /\ LullInv(c)' /\ MarkerInv(c)'
  <2>1. /\ file \in Seq(Units) /\ got[c] \in Seq(Units) /\ buf[c] \in Seq(Units) /\ pos[c] \in Nat
        /\ FollowInv(c) /\ LullInv(c) /\ MarkerInv(c)
    BY <1>1 DEF IInv, TypeInv, FileInv
  <2>2. ReadUpTo(Append(file, e), got[c], buf[c], pos[c])
    BY <2>1, FileGrows DEF FollowInv
  <2>3. FollowInv(c)'
    BY <2>1, <2>2 DEF FollowInv, reading
  <2>4. pos[c] # Len(Append(file, e))
    <3>1. Len(Append(file, e)) = Len(file) + 1 /\ Len(file) \in Nat
      BY <2>1, AppendProperties, LenProperties
    <3>2. pos[c] <= Len(file)
      BY <2>1 DEF FollowInv, ReadUpTo
    <3>. QED  BY <2>1, <3>1, <3>2
  <2>5. LullInv(c)'
    BY <2>1, <2>4 DEF LullInv, reading
  <2>6. pc[c] # "marker"
    <3>1. SUFFICES ASSUME pc[c] = "marker" PROVE FALSE
      OBVIOUS
    <3>2. ~torn /\ \E i \in DOMAIN file : file[i] = Marker
      BY <2>1, <3>1 DEF MarkerInv
    <3>. QED  BY <3>2 DEF IInv, FileInv
  <2>. QED  BY <2>3, <2>5, <2>6 DEF MarkerInv, reading
<1>. QED  BY <1>1 DEF IInv

LEMMA CreateInv == IInv /\ Create => IInv'
<1> SUFFICES ASSUME IInv, Create PROVE IInv'
  OBVIOUS
<1>. USE DEF IInv, Create, reading
<1>1. TypeInv' /\ FileInv'
  BY DEF TypeInv, FileInv
<1>2. ASSUME NEW c \in Clients
      PROVE  FollowInv(c)' /\ LullInv(c)' /\ MarkerInv(c)'
  <2>1. pc[c] \notin Streaming \cup {"marker", "gave up", "read"}
    BY DEF FollowInv
  <2>. QED  BY <2>1 DEF FollowInv, LullInv, MarkerInv, Streaming
<1>. QED  BY <1>1, <1>2

LEMMA WriteInv == IInv /\ Write => IInv'
<1> SUFFICES ASSUME IInv, Write PROVE IInv'
  OBVIOUS
<1>1. PICK w \in Writers : Begin(w)
  BY DEF Write
<1>2. w \in Jobs \cup {System} /\ stage \notin {"closed", "dead"} /\ stage' = stage
  BY <1>1 DEF Writers, Write
<1>3. w \in Units /\ w # Marker /\ w # NL
  BY <1>2, LogAssumption DEF Units
<1>4. file \in Seq(Units)
  BY DEF IInv, FileInv
<1>5. /\ Append(file, w) \in Seq(Units) /\ Len(Append(file, w)) = Len(file) + 1
      /\ \A i \in 1..Len(file) : Append(file, w)[i] = file[i]
      /\ Append(file, w)[Len(file) + 1] = w
      /\ Len(file) \in Nat /\ DOMAIN file = 1..Len(file)
      /\ DOMAIN Append(file, w) = 1..Len(file) + 1
  BY <1>3, <1>4, AppendProperties, LenProperties
<1>6. FileInv'
  <2>1. \A i \in DOMAIN file' : file'[i] # Marker
    <3>1. \A i \in DOMAIN file : file[i] # Marker
      BY <1>2 DEF IInv, FileInv
    <3>2. \A i \in 1..Len(file) + 1 : i \in 1..Len(file) \/ i = Len(file) + 1
      BY <1>5
    <3>. QED  BY <1>1, <1>3, <1>5, <3>1, <3>2 DEF Begin
  <2>. QED  BY <1>1, <1>2, <1>3, <1>5, <2>1 DEF IInv, FileInv, Begin
<1>7. TypeInv'
  BY <1>1, <1>2 DEF IInv, TypeInv, Begin, reading
<1>. QED  BY <1>1, <1>2, <1>3, <1>6, <1>7, AppendsOne DEF Begin, IInv, TypeInv

LEMMA WriteMarkerInv == IInv /\ WriteMarker => IInv'
<1> SUFFICES ASSUME IInv, WriteMarker PROVE IInv'
  OBVIOUS
<1>1. stage = "told" /\ Begin(Marker) /\ stage' = "closed"
  BY DEF WriteMarker, AfterMarker
<1>2. Marker \in Units /\ Marker # NL
  BY LogAssumption DEF Units
<1>4. file \in Seq(Units)
  BY DEF IInv, FileInv
<1>5. /\ Append(file, Marker) \in Seq(Units) /\ Len(Append(file, Marker)) = Len(file) + 1
      /\ \A i \in 1..Len(file) : Append(file, Marker)[i] = file[i]
      /\ Append(file, Marker)[Len(file) + 1] = Marker
      /\ Len(file) \in Nat /\ DOMAIN file = 1..Len(file)
      /\ DOMAIN Append(file, Marker) = 1..Len(file) + 1
  BY <1>2, <1>4, AppendProperties, LenProperties
<1>6. FileInv'
  <2>1. \A i \in DOMAIN file' : file'[i] = Marker => i = Len(file')
    <3>1. \A i \in DOMAIN file : file[i] # Marker
      BY <1>1 DEF IInv, FileInv
    <3>2. \A i \in 1..Len(file) + 1 : i \in 1..Len(file) \/ i = Len(file) + 1
      BY <1>5
    <3>. QED  BY <1>1, <1>5, <3>1, <3>2 DEF Begin
  <2>. QED  BY <1>1, <1>2, <1>5, <2>1 DEF IInv, FileInv, Begin
<1>7. TypeInv'
  BY <1>1 DEF IInv, TypeInv, Begin, reading, Stages
<1>. QED  BY <1>1, <1>2, <1>6, <1>7, AppendsOne DEF Begin, IInv, TypeInv

LEMMA FinishInv == IInv /\ Finish => IInv'
<1> SUFFICES ASSUME IInv, Finish PROVE IInv'
  OBVIOUS
<1>2. NL \in Units /\ Marker # NL
  BY LogAssumption DEF Units
<1>4. file \in Seq(Units) /\ exists
  BY EmptySeq DEF IInv, FileInv, TypeInv, Finish
<1>5. /\ Append(file, NL) \in Seq(Units) /\ Len(Append(file, NL)) = Len(file) + 1
      /\ \A i \in 1..Len(file) : Append(file, NL)[i] = file[i]
      /\ Append(file, NL)[Len(file) + 1] = NL
      /\ Len(file) \in Nat /\ DOMAIN file = 1..Len(file)
      /\ DOMAIN Append(file, NL) = 1..Len(file) + 1
  BY <1>2, <1>4, AppendProperties, LenProperties
<1>6. FileInv'
  <2>1. \A i \in DOMAIN file' : file'[i] = Marker =>
            i \in DOMAIN file /\ file[i] = Marker /\ i + 1 = Len(file') /\ file'[i + 1] = NL
    <3>1. \A i \in DOMAIN file : file[i] = Marker => i = Len(file)
      BY DEF IInv, FileInv, Finish
    <3>2. \A i \in 1..Len(file) + 1 : i \in 1..Len(file) \/ i = Len(file) + 1
      BY <1>5
    <3>. QED  BY <1>2, <1>5, <3>1, <3>2 DEF Finish
  <2>. QED  BY <1>4, <1>5, <2>1 DEF IInv, FileInv, Finish
<1>7. TypeInv'
  BY DEF IInv, TypeInv, Finish, reading
<1>. QED  BY <1>2, <1>4, <1>6, <1>7, AppendsOne DEF Finish, IInv, TypeInv

LEMMA RestInv == IInv /\ (WriteLess \/ Advance \/ Escape \/ Crash \/ Linger \/ Idle) => IInv'
<1>1. ASSUME IInv, WriteLess PROVE IInv'
  BY <1>1 DEF IInv, WriteLess, TypeInv, FileInv, FollowInv, LullInv, MarkerInv, reading
<1>2. ASSUME IInv, Advance PROVE IInv'
  <2>1. stage \in {"setup", "jobs", "publish"} /\ stage' \in {"jobs", "publish", "told"}
        /\ final' = (stage' = "told")
    BY <1>2 DEF Advance, StatusSet
  <2>2. TypeInv' /\ FileInv'
    BY <1>2, <2>1 DEF IInv, Advance, TypeInv, FileInv, reading, Stages
  <2>. QED  BY <1>2, <2>2 DEF IInv, Advance, FollowInv, LullInv, MarkerInv, reading
<1>3. ASSUME IInv, Crash PROVE IInv'
  <2>1. TypeInv' /\ FileInv'
    BY <1>3 DEF IInv, Crash, TypeInv, FileInv, Stages, Over, Streaming
  <2>2. ASSUME NEW c \in Clients
        PROVE  FollowInv(c)' /\ LullInv(c)' /\ MarkerInv(c)'
    <3>1. pc'[c] = pc[c] \/ pc'[c] = "broken"
      BY <1>3, <2>2 DEF Crash
    <3>2. pc[c] \in Over => pc'[c] = pc[c]
      BY <1>3, <2>2 DEF Crash
    <3>. QED  BY <1>3, <3>1, <3>2 DEF IInv, Crash, FollowInv, LullInv, MarkerInv, Over, Streaming
  <2>. QED  BY <2>1, <2>2 DEF IInv
<1>4. ASSUME IInv, Linger PROVE IInv'
  <2>1. TypeInv' /\ FileInv'
    BY <1>4 DEF IInv, Linger, TypeInv, FileInv, reading, run
  <2>. QED  BY <1>4, <2>1 DEF IInv, Linger, FollowInv, LullInv, MarkerInv, reading, run
<1>5. ASSUME IInv, Idle PROVE IInv'
  BY <1>5 DEF IInv, Idle, TypeInv, FileInv, FollowInv, LullInv, MarkerInv, vars
<1>6. ASSUME IInv, Escape PROVE IInv'
  <2>1. TypeInv' /\ FileInv'
    BY <1>6 DEF IInv, Escape, TypeInv, FileInv, reading, Stages
  <2>. QED  BY <1>6, <2>1 DEF IInv, Escape, FollowInv, LullInv, MarkerInv, reading
<1>. QED  BY <1>1, <1>2, <1>3, <1>4, <1>5, <1>6

-----------------------------------------------------------------------------
(* The followers' steps.                                                   *)

\* Who does not move keeps its part of the invariant.
LEMMA OthersStand ==
    ASSUME IInv, NEW c \in Clients, UNCHANGED <<run, quiet, oneLoop, kind>>, TypeInv',
           \A d \in Clients \ {c} : /\ pc'[d] = pc[d] /\ pos'[d] = pos[d] /\ buf'[d] = buf[d]
                                    /\ got'[d] = got[d] /\ late'[d] = late[d] /\ told'[d] = told[d],
           FollowInv(c)', LullInv(c)', MarkerInv(c)'
    PROVE  IInv'
<1>1. FileInv'
  BY DEF IInv, FileInv, run
<1>2. ASSUME NEW d \in Clients \ {c}
      PROVE  FollowInv(d)' /\ LullInv(d)' /\ MarkerInv(d)'
  <2>1. FollowInv(d) /\ LullInv(d) /\ MarkerInv(d)
    BY DEF IInv
  <2>. QED  BY <1>2, <2>1 DEF FollowInv, LullInv, MarkerInv, ReadUpTo, run
<1>. QED  BY <1>1, <1>2 DEF IInv

LEMMA AskInv == ASSUME IInv, NEW c \in Clients, Ask(c) PROVE IInv'
<1>1. TypeInv'
  BY DEF IInv, TypeInv, Ask, Goto, run
<1>2. FollowInv(c)' /\ LullInv(c)' /\ MarkerInv(c)'
  BY DEF IInv, TypeInv, FollowInv, LullInv, MarkerInv, Ask, Goto, run, Streaming, Over
<1>. QED  BY <1>1, <1>2, OthersStand DEF Ask, Goto, IInv, TypeInv

LEMMA OpenInv == ASSUME IInv, NEW c \in Clients, Open(c) PROVE IInv'
<1>1. TypeInv'
  BY DEF IInv, TypeInv, Open, Goto, run, Streaming
<1>2. FollowInv(c)' /\ LullInv(c)' /\ MarkerInv(c)'
  BY DEF IInv, TypeInv, FollowInv, LullInv, MarkerInv, Open, Goto, run, Streaming, Over
<1>. QED  BY <1>1, <1>2, OthersStand DEF Open, Goto, IInv, TypeInv

LEMMA NotFoundInv == ASSUME IInv, NEW c \in Clients, NotFound(c) PROVE IInv'
<1>1. TypeInv'
  BY DEF IInv, TypeInv, NotFound, Goto, run, Over
<1>2. FollowInv(c)' /\ LullInv(c)' /\ MarkerInv(c)'
  BY DEF IInv, TypeInv, FollowInv, LullInv, MarkerInv, NotFound, Goto, run, Streaming, Over
<1>. QED  BY <1>1, <1>2, OthersStand DEF NotFound, Goto, IInv, TypeInv

\* A read stops within the file, and goes on by at least one item.
LEMMA ReadWithin ==
    ASSUME NEW c \in Clients, TypeInv, FileInv, pos[c] < Len(file)
    PROVE  LET n == Least(pos[c] + Chunk, Len(file)) IN
           n \in Nat /\ pos[c] <= n /\ n <= Len(file)
<1>1. pos[c] \in Nat /\ Chunk \in Nat /\ Len(file) \in Nat
  BY LogAssumption, LenProperties DEF TypeInv, FileInv
<1>. QED  BY <1>1 DEF Least

LEMMA ReadInv == ASSUME IInv, NEW c \in Clients, Read(c) PROVE IInv'
<1>. DEFINE n == Least(pos[c] + Chunk, Len(file))
<1>0. TypeInv /\ FileInv /\ FollowInv(c) /\ pc[c] \in Streaming /\ pos[c] < Len(file)
  BY DEF IInv, Read, Streaming
<1>1. n \in Nat /\ pos[c] <= n /\ n <= Len(file)
  BY <1>0, ReadWithin
<1>2. /\ file \in Seq(Units) /\ got[c] \in Seq(Units) /\ buf[c] \in Seq(Units) /\ pos[c] \in Nat
      /\ ReadUpTo(file, got[c], buf[c], pos[c])
  BY <1>0 DEF TypeInv, FileInv, FollowInv
<1>3. /\ buf[c] \o SubSeq(file, pos[c] + 1, n) \in Seq(Units)
      /\ ReadUpTo(file, got[c], buf[c] \o SubSeq(file, pos[c] + 1, n), n)
  BY <1>1, <1>2, ReadsOn
<1>4. /\ buf' = [buf EXCEPT ![c] = buf[c] \o SubSeq(file, pos[c] + 1, n)]
      /\ pos' = [pos EXCEPT ![c] = n] /\ late' = [late EXCEPT ![c] = FALSE]
      /\ pc' = [pc EXCEPT ![c] = pc[c]] /\ UNCHANGED <<got, told, run, quiet, oneLoop, kind>>
  BY DEF Read, Unsent, Reset, Goto
<1>. HIDE DEF n
<1>5. TypeInv'
  BY <1>0, <1>1, <1>3, <1>4 DEF TypeInv, run
<1>6. pos'[c] = n /\ buf'[c] = buf[c] \o SubSeq(file, pos[c] + 1, n) /\ ~late'[c] /\ pc' = pc
  BY <1>0, <1>4 DEF TypeInv
<1>7. FollowInv(c)' /\ LullInv(c)' /\ MarkerInv(c)'
  <2>1. pc[c] \notin {"idle", "waiting", "not found", "marker"}
    BY <1>0 DEF Streaming
  <2>. QED  BY <1>0, <1>3, <1>4, <1>6, <2>1 DEF FollowInv, LullInv, MarkerInv, run
<1>8. \A d \in Clients \ {c} : /\ pc'[d] = pc[d] /\ pos'[d] = pos[d] /\ buf'[d] = buf[d]
                                /\ got'[d] = got[d] /\ late'[d] = late[d] /\ told'[d] = told[d]
  BY <1>0, <1>4 DEF TypeInv
<1>. QED  BY <1>4, <1>5, <1>7, <1>8, OthersStand

\* A line that reads as the marker ends the file.
LEMMA MarkerEndsFile ==
    ASSUME FileInv, NEW g \in Seq(Units), NEW i \in 1..Len(g), Len(g) <= Len(file),
           \A j \in 1..Len(g) : g[j] = file[j], i < Len(g), g[i] = Marker, g[i + 1] = NL
    PROVE  g = file /\ ~torn /\ (\E j \in DOMAIN file : file[j] = Marker)
<1>1. file \in Seq(Units) /\ Len(file) \in Nat /\ Len(g) \in Nat /\ DOMAIN file = 1..Len(file)
  BY LenProperties DEF FileInv
<1>2. i \in DOMAIN file /\ file[i] = Marker /\ i + 1 \in 1..Len(g) /\ file[i + 1] = NL
  BY <1>1
<1>3. i = Len(file) \/ i + 1 = Len(file)
  BY <1>2 DEF FileInv
<1>4. Len(g) = Len(file) /\ file[Len(file)] = NL
  BY <1>1, <1>2, <1>3
<1>5. g = file
  BY <1>1, <1>4, SeqEqual
<1>. QED  BY <1>2, <1>4, <1>5 DEF FileInv

LEMMA YieldStep ==
    ASSUME IInv, NEW c \in Clients, Yield(c)
    PROVE  \E n \in 1..Len(buf[c]) :
              /\ buf[c][n] = NL /\ \A i \in 1..n - 1 : buf[c][i] # NL
              /\ got' = [got EXCEPT ![c] = got[c] \o SubSeq(buf[c], 1, n)]
              /\ buf' = [buf EXCEPT ![c] = SubSeq(buf[c], n + 1, Len(buf[c]))]
              /\ \/ pc[c] \in Streaming /\ pc' = pc
                 \/ /\ SubSeq(buf[c], 1, n) = <<Marker, NL>>
                    /\ pc[c] = "tail" /\ pc' = [pc EXCEPT ![c] = "marker"]
              /\ UNCHANGED <<pos, late, told, run, quiet, oneLoop, kind>>
<1>1. buf[c] \in Seq(Units) /\ DOMAIN buf[c] = 1..Len(buf[c])
  BY LenProperties DEF IInv, TypeInv
<1>2. pc = [pc EXCEPT ![c] = pc[c]]
  BY DEF IInv, TypeInv
<1>. QED  BY <1>1, <1>2 DEF Yield, Goto, IsEof, Streaming

LEMMA YieldInv == ASSUME IInv, NEW c \in Clients, Yield(c) PROVE IInv'
<1>0. TypeInv /\ FileInv /\ FollowInv(c) /\ LullInv(c)
  BY DEF IInv
<1>1. /\ file \in Seq(Units) /\ got[c] \in Seq(Units) /\ buf[c] \in Seq(Units) /\ pos[c] \in Nat
      /\ ReadUpTo(file, got[c], buf[c], pos[c])
      /\ Len(got[c]) \in Nat /\ Len(buf[c]) \in Nat /\ Len(file) \in Nat
  BY <1>0, LenProperties DEF TypeInv, FileInv, FollowInv
<1>2. PICK n \in 1..Len(buf[c]) :
         /\ buf[c][n] = NL /\ \A i \in 1..n - 1 : buf[c][i] # NL
         /\ got' = [got EXCEPT ![c] = got[c] \o SubSeq(buf[c], 1, n)]
         /\ buf' = [buf EXCEPT ![c] = SubSeq(buf[c], n + 1, Len(buf[c]))]
         /\ \/ pc[c] \in Streaming /\ pc' = pc
            \/ /\ SubSeq(buf[c], 1, n) = <<Marker, NL>>
               /\ pc[c] = "tail" /\ pc' = [pc EXCEPT ![c] = "marker"]
         /\ UNCHANGED <<pos, late, told, run, quiet, oneLoop, kind>>
  BY YieldStep
<1>3. PICK g, b, line : /\ line = SubSeq(buf[c], 1, n) /\ g = got[c] \o line
                        /\ b = SubSeq(buf[c], n + 1, Len(buf[c]))
  OBVIOUS
<1>4. /\ g \in Seq(Units) /\ b \in Seq(Units) /\ Len(g) = Len(got[c]) + n
      /\ g[Len(got[c]) + n] = NL /\ ReadUpTo(file, g, b, pos[c])
      /\ Len(line) = n /\ \A i \in 1..n : line[i] = buf[c][i]
  <2>1. /\ got[c] \o SubSeq(buf[c], 1, n) \in Seq(Units)
        /\ SubSeq(buf[c], n + 1, Len(buf[c])) \in Seq(Units)
        /\ Len(got[c] \o SubSeq(buf[c], 1, n)) = Len(got[c]) + n
        /\ (got[c] \o SubSeq(buf[c], 1, n))[Len(got[c]) + n] = buf[c][n]
        /\ Len(SubSeq(buf[c], 1, n)) = n
        /\ \A i \in 1..n : SubSeq(buf[c], 1, n)[i] = buf[c][i]
        /\ ReadUpTo(file, got[c] \o SubSeq(buf[c], 1, n), SubSeq(buf[c], n + 1, Len(buf[c])), pos[c])
    BY <1>1, SendsOn
  <2>2. buf[c][n] = NL
    BY <1>2
  <2>. QED  BY <1>3, <2>1, <2>2, Zenon
<1>5. got' = [got EXCEPT ![c] = g] /\ buf' = [buf EXCEPT ![c] = b]
  BY <1>2, <1>3
<1>6. got'[c] = g /\ buf'[c] = b
  BY <1>0, <1>5 DEF TypeInv
<1>7. TypeInv'
  <2>1. /\ got' \in [Clients -> Seq(Units)] /\ buf' \in [Clients -> Seq(Units)]
    BY <1>0, <1>4, <1>5 DEF TypeInv
  <2>2. pc' \in [Clients -> {"idle", "waiting"} \cup Streaming \cup Over]
    <3>1. pc' = pc \/ pc' = [pc EXCEPT ![c] = "marker"]
      BY <1>2
    <3>. QED  BY <1>0, <3>1 DEF TypeInv, Over
  <2>. QED  BY <1>0, <1>2, <2>1, <2>2 DEF TypeInv, run
<1>8. pc[c] \in Streaming /\ (pc'[c] = pc[c] \/ (pc'[c] = "marker" /\ line = <<Marker, NL>>))
  BY <1>0, <1>2, <1>3 DEF TypeInv, Streaming
<1>9. FollowInv(c)'
  <2>1. g # <<>> => g[Len(g)] = NL
    BY <1>4
  <2>2. pc'[c] \notin {"idle", "waiting", "not found"} /\ told[c] = "none"
    BY <1>0, <1>8 DEF FollowInv, Streaming, Over
  <2>. QED  BY <1>0, <1>2, <1>4, <1>6, <1>8, <2>1, <2>2 DEF FollowInv, run
<1>10. LullInv(c)'
  BY <1>0, <1>2, <1>8 DEF LullInv, Streaming, run
<1>11. MarkerInv(c)'
  <2>1. SUFFICES ASSUME pc'[c] = "marker" PROVE MarkerInv(c)'
    BY DEF MarkerInv
  <2>2. line = <<Marker, NL>> /\ told[c] = "none"
    BY <1>0, <1>8, <2>1 DEF FollowInv, Streaming, Over
  <2>3. n = 2 /\ buf[c][1] = Marker
    BY <1>4, <2>2
  <2>4. DEFINE i == Len(got[c]) + 1
  <2>5. /\ i \in 1..Len(g) /\ i < Len(g) /\ i + 1 = Len(got[c]) + n /\ Len(g) <= Len(file)
        /\ \A j \in 1..Len(g) : g[j] = file[j]
    BY <1>1, <1>4, <2>3, LenProperties DEF ReadUpTo
  <2>6. g[i] = Marker
    <3>1. file[i] = Marker
      BY <1>1, <1>2, <2>3 DEF ReadUpTo
    <3>. QED  BY <2>5, <3>1
  <2>7. g = file /\ ~torn /\ \E j \in DOMAIN file : file[j] = Marker
    BY <1>0, <1>4, <2>5, <2>6, MarkerEndsFile
  <2>. QED  BY <1>2, <1>6, <2>2, <2>7 DEF MarkerInv, run
<1>12. \A d \in Clients \ {c} : /\ pc'[d] = pc[d] /\ pos'[d] = pos[d] /\ buf'[d] = buf[d]
                                 /\ got'[d] = got[d] /\ late'[d] = late[d] /\ told'[d] = told[d]
  BY <1>0, <1>2 DEF TypeInv
<1>. QED  BY <1>2, <1>7, <1>9, <1>10, <1>11, <1>12, OthersStand

LEMMA EndBacklogStep ==
    ASSUME IInv, NEW c \in Clients, EndBacklog(c)
    PROVE  /\ pc[c] = "backlog" /\ pos[c] = Len(file)
           /\ \A i \in DOMAIN buf[c] : buf[c][i] # NL
           /\ pos' = [pos EXCEPT ![c] = pos[c] - Len(buf[c])] /\ buf' = [buf EXCEPT ![c] = <<>>]
           /\ \/ SawEof(c) /\ pc' = [pc EXCEPT ![c] = "marker"] /\ late' = late
              \/ pc' = [pc EXCEPT ![c] = "read"] /\ late' = late
              \/ pc' = [pc EXCEPT ![c] = "tail"] /\ late' = [late EXCEPT ![c] = FALSE]
           /\ UNCHANGED <<got, told, run, quiet, oneLoop, kind>>
<1>1. ~Buffered(c) /\ pos[c] = Len(file) /\ UNCHANGED <<got, told>>
  BY DEF EndBacklog
<1>2. pos' = [pos EXCEPT ![c] = pos[c] - Len(buf[c])] /\ buf' = [buf EXCEPT ![c] = <<>>]
  BY DEF EndBacklog, WalkBack
<1>3. /\ pc[c] = "backlog" /\ UNCHANGED <<run, quiet, oneLoop, kind>>
      /\ \/ SawEof(c) /\ pc' = [pc EXCEPT ![c] = "marker"] /\ late' = late
         \/ pc' = [pc EXCEPT ![c] = "read"] /\ late' = late
         \/ pc' = [pc EXCEPT ![c] = "tail"] /\ late' = [late EXCEPT ![c] = FALSE]
  BY DEF EndBacklog, Goto
<1>. QED  BY <1>1, <1>2, <1>3 DEF Buffered

LEMMA EndBacklogInv == ASSUME IInv, NEW c \in Clients, EndBacklog(c) PROVE IInv'
<1>0. TypeInv /\ FileInv /\ FollowInv(c)
  BY DEF IInv
<1>1. /\ file \in Seq(Units) /\ got[c] \in Seq(Units) /\ buf[c] \in Seq(Units) /\ pos[c] \in Nat
      /\ ReadUpTo(file, got[c], buf[c], pos[c])
      /\ Len(got[c]) \in Nat /\ Len(buf[c]) \in Nat /\ Len(file) \in Nat
  BY <1>0, LenProperties DEF TypeInv, FileInv, FollowInv
<1>2. /\ pc[c] = "backlog" /\ pos[c] = Len(file)
      /\ pos' = [pos EXCEPT ![c] = pos[c] - Len(buf[c])] /\ buf' = [buf EXCEPT ![c] = <<>>]
      /\ \/ SawEof(c) /\ pc' = [pc EXCEPT ![c] = "marker"] /\ late' = late
         \/ pc' = [pc EXCEPT ![c] = "read"] /\ late' = late
         \/ pc' = [pc EXCEPT ![c] = "tail"] /\ late' = [late EXCEPT ![c] = FALSE]
      /\ UNCHANGED <<got, told, run, quiet, oneLoop, kind>>
  BY EndBacklogStep
<1>3. pos[c] - Len(buf[c]) \in Nat /\ ReadUpTo(file, got[c], <<>>, pos[c] - Len(buf[c]))
  BY <1>1, WalksBack
<1>4. <<>> \in Seq(Units)
  BY EmptySeq
<1>5. /\ pos' \in [Clients -> Nat] /\ buf' \in [Clients -> Seq(Units)]
      /\ pos'[c] = pos[c] - Len(buf[c]) /\ buf'[c] = <<>>
  BY <1>0, <1>2, <1>3, <1>4 DEF TypeInv
<1>6. /\ pc' \in [Clients -> {"idle", "waiting"} \cup Streaming \cup Over]
      /\ late' \in [Clients -> BOOLEAN]
      /\ pc'[c] \in {"marker", "read", "tail"}
      /\ pc'[c] = "tail" => ~late'[c]
      /\ pc'[c] = "marker" => SawEof(c)
  <2>1. CASE SawEof(c) /\ pc' = [pc EXCEPT ![c] = "marker"] /\ late' = late
    BY <1>0, <2>1 DEF TypeInv, Streaming, Over
  <2>2. CASE pc' = [pc EXCEPT ![c] = "read"] /\ late' = late
    BY <1>0, <2>2 DEF TypeInv, Streaming, Over
  <2>3. CASE pc' = [pc EXCEPT ![c] = "tail"] /\ late' = [late EXCEPT ![c] = FALSE]
    BY <1>0, <2>3 DEF TypeInv, Streaming, Over
  <2>. QED  BY <1>2, <2>1, <2>2, <2>3
<1>7. TypeInv'
  BY <1>0, <1>2, <1>5, <1>6 DEF TypeInv, run
<1>8. told[c] = "none"
  BY <1>0, <1>2 DEF FollowInv, Over
<1>9. FollowInv(c)'
  BY <1>0, <1>2, <1>3, <1>5, <1>6, <1>8 DEF FollowInv, run, Streaming
<1>10. LullInv(c)'
  BY <1>6 DEF LullInv
<1>11. MarkerInv(c)'
  <2>1. SUFFICES ASSUME pc'[c] = "marker" PROVE MarkerInv(c)'
    BY DEF MarkerInv
  <2>2. PICK i \in 2..Len(got[c]) : IsEof(SubSeq(got[c], i - 1, i))
    BY <1>6, <2>1 DEF SawEof
  <2>3. got[c][i - 1] = Marker /\ got[c][i] = NL
    <3>1. i - 1 \in Int /\ i \in Int /\ i \in Nat /\ i - 1 \in 1..Len(got[c]) /\ i \in 1..Len(got[c])
      BY <1>1
    <3>2. \A j \in i - 1 .. i : got[c][j] \in Units
      <4>1. \A j \in i - 1 .. i : j \in 1..Len(got[c])
        BY <1>1, <3>1
      <4>. QED  BY <1>1, <4>1, ElementOfSeq
    <3>3. \A j \in 1..i - (i - 1) + 1 : SubSeq(got[c], i - 1, i)[j] = got[c][(i - 1) + j - 1]
      BY <3>1, <3>2, SubSeqProperties
    <3>4. SubSeq(got[c], i - 1, i)[1] = got[c][i - 1] /\ SubSeq(got[c], i - 1, i)[2] = got[c][i]
      <4>1. /\ 1 \in 1..i - (i - 1) + 1 /\ 2 \in 1..i - (i - 1) + 1
            /\ (i - 1) + 1 - 1 = i - 1 /\ (i - 1) + 2 - 1 = i
        BY <3>1
      <4>. QED  BY <3>3, <4>1
    <3>5. SubSeq(got[c], i - 1, i) = <<Marker, NL>>
      BY <2>2 DEF IsEof
    <3>6. <<Marker, NL>>[1] = Marker /\ <<Marker, NL>>[2] = NL
      OBVIOUS
    <3>. QED  BY <3>4, <3>5, <3>6, Zenon
  <2>4. /\ i - 1 \in 1..Len(got[c]) /\ i - 1 < Len(got[c]) /\ (i - 1) + 1 = i
        /\ Len(got[c]) <= Len(file) /\ \A j \in 1..Len(got[c]) : got[c][j] = file[j]
    <3>1. i - 1 \in 1..Len(got[c]) /\ i - 1 < Len(got[c]) /\ (i - 1) + 1 = i
      BY <1>1
    <3>2. Len(got[c]) + Len(buf[c]) <= Len(file)
      BY <1>1 DEF ReadUpTo
    <3>3. Len(got[c]) \in Nat /\ Len(buf[c]) \in Nat /\ Len(file) \in Nat /\ pos[c] \in Nat
      BY <1>1
    <3>4. Len(got[c]) <= Len(file)
      BY <3>2, <3>3, Parts
    <3>. QED  BY <1>1, <3>1, <3>4 DEF ReadUpTo
  <2>5. got[c] = file /\ ~torn /\ \E j \in DOMAIN file : file[j] = Marker
    BY <1>0, <1>1, <2>3, <2>4, MarkerEndsFile
  <2>. QED  BY <1>2, <1>8, <2>5 DEF MarkerInv, run
<1>12. \A d \in Clients \ {c} : /\ pc'[d] = pc[d] /\ pos'[d] = pos[d] /\ buf'[d] = buf[d]
                                 /\ got'[d] = got[d] /\ late'[d] = late[d] /\ told'[d] = told[d]
  BY <1>0, <1>2 DEF TypeInv
<1>. QED  BY <1>2, <1>7, <1>9, <1>10, <1>11, <1>12, OthersStand

LEMMA GiveUpInv == ASSUME IInv, NEW c \in Clients, GiveUp(c) PROVE IInv'
<1>0. TypeInv /\ FollowInv(c)
  BY DEF IInv
<1>1. TypeInv'
  BY <1>0 DEF TypeInv, GiveUp, Goto, run, Over
<1>2. /\ pc[c] \notin Over /\ exists /\ pc'[c] = "gave up"
      /\ UNCHANGED <<exists, file, pos, buf, got, told, kind>>
  BY <1>0 DEF TypeInv, FollowInv, Streaming, GiveUp, Goto, run, Over
<1>3. FollowInv(c)' /\ LullInv(c)' /\ MarkerInv(c)'
  BY <1>0, <1>2 DEF FollowInv, LullInv, MarkerInv, ReadUpTo, Streaming
<1>. QED  BY <1>0, <1>1, <1>3, OthersStand DEF GiveUp, Goto, IInv, TypeInv

LEMMA DisconnectInv == ASSUME IInv, NEW c \in Clients, Disconnect(c) PROVE IInv'
<1>0. TypeInv /\ FollowInv(c)
  BY DEF IInv
<1>1. TypeInv'
  BY <1>0 DEF TypeInv, Disconnect, run, Over
<1>2. /\ pc[c] \notin Over /\ pc'[c] = "broken"
      /\ UNCHANGED <<exists, file, pos, buf, got, told, kind>>
  BY <1>0 DEF TypeInv, FollowInv, Streaming, Disconnect, run, Over
<1>3. FollowInv(c)' /\ LullInv(c)' /\ MarkerInv(c)'
  BY <1>0, <1>2 DEF FollowInv, LullInv, MarkerInv, ReadUpTo, Streaming
<1>. QED  BY <1>0, <1>1, <1>3, OthersStand DEF Disconnect, IInv, TypeInv

LEMMA AskStatusInv == ASSUME IInv, NEW c \in Clients, AskStatus(c) PROVE IInv'
<1>0. TypeInv /\ FileInv /\ FollowInv(c) /\ LullInv(c) /\ MarkerInv(c)
  BY DEF IInv
<1>1. /\ kind[c] = "run" /\ pc[c] \in Over /\ UNCHANGED <<run, quiet, oneLoop, kind, reading, late>>
      /\ \/ told' = [told EXCEPT ![c] = IF final THEN "final" ELSE "running"]
         \/ told' = [told EXCEPT ![c] = "error"]
  BY DEF AskStatus
<1>2. told' \in [Clients -> {"none", "running", "final", "error"}] /\ (final => told'[c] # "running")
  BY <1>0, <1>1 DEF TypeInv
<1>3. TypeInv'
  BY <1>0, <1>1, <1>2 DEF TypeInv, run, reading
<1>4. pc[c] = "marker" => final
  BY <1>0 DEF MarkerInv, FileInv
<1>5. FollowInv(c)' /\ LullInv(c)' /\ MarkerInv(c)'
  BY <1>0, <1>1, <1>2, <1>4 DEF FollowInv, LullInv, MarkerInv, ReadUpTo, run, reading
<1>6. \A d \in Clients \ {c} : /\ pc'[d] = pc[d] /\ pos'[d] = pos[d] /\ buf'[d] = buf[d]
                                /\ got'[d] = got[d] /\ late'[d] = late[d] /\ told'[d] = told[d]
  BY <1>0, <1>1 DEF TypeInv, reading
<1>. QED  BY <1>1, <1>3, <1>5, <1>6, OthersStand

LEMMA Preserved == IInv /\ [Next]_vars => IInv'
<1> SUFFICES ASSUME IInv, [Next]_vars PROVE IInv'
  OBVIOUS
<1>1. CASE Engine
  BY <1>1, CreateInv, WriteInv, WriteMarkerInv, FinishInv, RestInv DEF Engine
<1>2. CASE Escape \/ Crash \/ Linger \/ Idle
  BY <1>2, RestInv
<1>3. ASSUME NEW c \in Clients, Ask(c) \/ Follower(c) \/ Disconnect(c)
      PROVE  IInv'
  BY <1>3, AskInv, OpenInv, NotFoundInv, ReadInv, YieldInv, EndBacklogInv, GiveUpInv,
     DisconnectInv, AskStatusInv DEF Follower
<1>4. CASE UNCHANGED vars
  BY <1>4 DEF IInv, TypeInv, FileInv, FollowInv, LullInv, MarkerInv, vars
<1>. QED  BY <1>1, <1>2, <1>3, <1>4 DEF Next

LEMMA Always == Spec => []IInv
BY InitInv, Preserved, PTL DEF Spec

-----------------------------------------------------------------------------
(* The theorems.                                                           *)

\* LogInv holds of every run's log, with any number of jobs, lines and followers: what a
\* follower was sent and has read is the file up to its position.
THEOREM LogShape == Spec => []LogInv
BY Always, Implied, PTL

\* A stream that ends with the marker is the entire log (MarkerMeansAll).
THEOREM MarkerEndsAll == Spec => []MarkerMeansAll
BY Always, Implied, PTL

\* `forge run` prints a final status if it saw the marker (ToldTruth).
THEOREM TruthAfterMarker == Spec => []ToldTruth
BY Always, Implied, PTL

\* A step that begins the end of a stream is one of these.
LEMMA EndingStep ==
    ASSUME IInv, [Next]_vars, NEW c \in Clients, pc'[c] \in Over \ {"broken"}, pc[c] # pc'[c]
    PROVE  NotFound(c) \/ Yield(c) \/ EndBacklog(c) \/ GiveUp(c)
<1>1. TypeInv
  BY DEF IInv
<1>2. CASE Engine \/ Escape \/ Linger \/ Idle \/ UNCHANGED vars
  BY <1>2 DEF Engine, Create, Write, Begin, WriteMarker, Finish, WriteLess, Advance, Escape, Linger, Idle,
              vars, reading
<1>3. CASE Crash
  BY <1>1, <1>3 DEF Crash
<1>4. ASSUME NEW d \in Clients, Ask(d) \/ Follower(d) \/ Disconnect(d)
      PROVE  NotFound(c) \/ Yield(c) \/ EndBacklog(c) \/ GiveUp(c)
  <2>1. CASE Ask(d)
    BY <1>1, <2>1 DEF TypeInv, Ask, Goto, Over
  <2>2. CASE Open(d)
    BY <1>1, <2>2 DEF TypeInv, Open, Goto, Over
  <2>3. CASE Read(d)
    BY <1>1, <2>3 DEF TypeInv, Read, Goto
  <2>4. CASE AskStatus(d)
    BY <1>1, <2>4 DEF TypeInv, AskStatus, reading
  <2>5. CASE Disconnect(d)
    BY <1>1, <2>5 DEF TypeInv, Disconnect, Over
  <2>6. CASE NotFound(d) \/ Yield(d) \/ EndBacklog(d) \/ GiveUp(d)
    <3>1. pc' = pc \/ \E p \in Over \cup Streaming : pc' = [pc EXCEPT ![d] = p]
      <4>1. CASE NotFound(d) \/ GiveUp(d)
        BY <4>1 DEF NotFound, GiveUp, Goto, Over
      <4>2. CASE Yield(d)
        BY <4>2, YieldStep DEF Over
      <4>3. CASE EndBacklog(d)
        BY <4>3, EndBacklogStep DEF Over, Streaming
      <4>. QED  BY <2>6, <4>1, <4>2, <4>3
    <3>2. d # c => pc'[c] = pc[c]
      BY <1>1, <3>1 DEF TypeInv
    <3>. QED  BY <2>6, <3>2
  <2>. QED  BY <1>4, <2>1, <2>2, <2>3, <2>4, <2>5, <2>6 DEF Follower
<1>. QED  BY <1>2, <1>3, <1>4 DEF Next

\* Whole lines are what was sent, or in the buffer.
LEMMA UnseenIsBuffered ==
    ASSUME IInv, NEW c \in Clients, pos[c] = Len(file), NEW i \in DOMAIN file, i > Len(got[c])
    PROVE  \E j \in DOMAIN buf[c] : buf[c][j] = file[i]
<1>1. /\ file \in Seq(Units) /\ got[c] \in Seq(Units) /\ buf[c] \in Seq(Units)
      /\ ReadUpTo(file, got[c], buf[c], pos[c])
  BY DEF IInv, TypeInv, FileInv, FollowInv
<1>2. /\ Len(got[c]) \in Nat /\ Len(buf[c]) \in Nat /\ Len(file) \in Nat
      /\ DOMAIN file = 1..Len(file) /\ DOMAIN buf[c] = 1..Len(buf[c])
  BY <1>1, LenProperties
<1>3. Len(got[c]) + Len(buf[c]) = Len(file) /\ Len(got[c]) + Len(buf[c]) <= Len(file)
  BY <1>1, <1>2 DEF ReadUpTo
<1>4. i - Len(got[c]) \in 1..Len(buf[c])
  <2>1. i \in 1..Len(file)
    BY <1>2
  <2>2. Len(got[c]) \in Nat /\ Len(buf[c]) \in Nat
    BY <1>2
  <2>. QED  BY <1>2, <1>3, <2>1, <2>2, Parts
<1>5. Len(got[c]) + (i - Len(got[c])) = i
  BY <1>2
<1>6. buf[c][i - Len(got[c])] = file[i]
  BY <1>1, <1>4, <1>5 DEF ReadUpTo
<1>. QED  BY <1>2, <1>4, <1>6

\* A deadline ends a stream only when nothing was written for as long as it lasts
\* (GivesUpOnlyInLull).
THEOREM OnlyInLull == Spec => GivesUpOnlyInLull
<1>1. ASSUME IInv, [Next]_vars, NEW c \in Clients,
             pc'[c] \in {"gave up", "not found"}, pc[c] # pc'[c]
      PROVE  quiet
  <2>1. TypeInv /\ LullInv(c)
    BY <1>1 DEF IInv
  <2>2. NotFound(c) \/ Yield(c) \/ EndBacklog(c) \/ GiveUp(c)
    BY <1>1, EndingStep DEF Over
  <2>3. CASE NotFound(c)
    BY <2>1, <2>3 DEF NotFound, Goto, LullInv
  <2>4. CASE GiveUp(c)
    BY <2>1, <2>4 DEF GiveUp, Goto, LullInv, Drained, PastDeadline
  <2>5. ~Yield(c)
    BY <1>1, <2>1, YieldStep DEF TypeInv
  <2>6. ~EndBacklog(c)
    BY <1>1, <2>1, EndBacklogStep DEF TypeInv
  <2>. QED  BY <2>2, <2>3, <2>4, <2>5, <2>6
<1>2. IInv /\ [Next]_vars =>
        [\A c \in Clients : pc'[c] \in {"gave up", "not found"} /\ pc[c] # pc'[c] => quiet]_vars
  BY <1>1
<1>. QED  BY <1>2, Always, PTL DEF Spec, GivesUpOnlyInLull

\* When the engine ends a stream, every whole line then in the file was sent
\* (EndsWithoutLoss).
THEOREM WithoutLoss == Spec => EndsWithoutLoss
<1>1. ASSUME IInv, [Next]_vars, NEW c \in Clients,
             pc'[c] \in {"marker", "gave up", "read"}, pc[c] # pc'[c]
      PROVE  Unseen(c) = {}
  <2>1. TypeInv /\ FileInv
    BY <1>1 DEF IInv
  <2>2. SUFFICES ASSUME NEW i \in DOMAIN file, i > Len(got'[c]), file[i] = NL
                 PROVE  FALSE
    BY DEF Unseen
  <2>3. NotFound(c) \/ Yield(c) \/ EndBacklog(c) \/ GiveUp(c)
    BY <1>1, EndingStep DEF Over
  <2>4. ~NotFound(c)
    BY <1>1, <2>1 DEF TypeInv, NotFound, Goto
  <2>5. CASE GiveUp(c)
    <3>1. pos[c] = Len(file) /\ got' = got /\ ~\E j \in DOMAIN buf[c] : buf[c][j] = NL
      BY <2>5 DEF GiveUp, Drained, Buffered
    <3>. QED  BY <1>1, <2>2, <3>1, UnseenIsBuffered
  <2>6. CASE EndBacklog(c)
    <3>1. pos[c] = Len(file) /\ got' = got /\ ~\E j \in DOMAIN buf[c] : buf[c][j] = NL
      BY <1>1, <2>6, EndBacklogStep
    <3>. QED  BY <1>1, <2>2, <3>1, UnseenIsBuffered
  <2>7. CASE Yield(c)
    <3>1. pc'[c] = "marker" /\ UNCHANGED run
      BY <1>1, <2>1, <2>7, YieldStep DEF TypeInv
    <3>2. IInv'
      BY <1>1, Preserved
    <3>3. got'[c] = file
      BY <3>1, <3>2 DEF IInv, MarkerInv, run
    <3>4. i <= Len(file) /\ i \in Nat /\ Len(file) \in Nat
      BY <2>1, LenProperties DEF FileInv
    <3>. QED  BY <2>2, <3>3, <3>4
  <2>. QED  BY <2>3, <2>4, <2>5, <2>6, <2>7
<1>2. IInv /\ [Next]_vars =>
        [\A c \in Clients : pc'[c] \in {"marker", "gave up", "read"} /\ pc[c] # pc'[c] =>
             Unseen(c) = {}]_vars
  BY <1>1
<1>. QED  BY <1>2, Always, PTL DEF Spec, EndsWithoutLoss

-----------------------------------------------------------------------------
(* The streams implement LogFeed.                                          *)

\* What was sent with one more line is the beginning of the log up to a line end.
LEMMA DeliversLine ==
    ASSUME IInv, NEW c \in Clients, Yield(c)
    PROVE  Feed!Deliver(c)
<1>0. TypeInv /\ FileInv /\ FollowInv(c)
  BY DEF IInv
<1>1. /\ file \in Seq(Units) /\ got[c] \in Seq(Units) /\ buf[c] \in Seq(Units) /\ pos[c] \in Nat
      /\ ReadUpTo(file, got[c], buf[c], pos[c])
  BY <1>0 DEF TypeInv, FileInv, FollowInv
<1>1a. Len(got[c]) \in Nat /\ Len(buf[c]) \in Nat /\ Len(file) \in Nat
  BY <1>1, LenProperties
<1>1b. Len(got[c]) + Len(buf[c]) <= Len(file) /\ \A i \in 1..Len(buf[c]) : buf[c][i] = file[Len(got[c]) + i]
  BY <1>1 DEF ReadUpTo
<1>2. PICK n \in 1..Len(buf[c]) :
         /\ buf[c][n] = NL /\ \A i \in 1..n - 1 : buf[c][i] # NL
         /\ got' = [got EXCEPT ![c] = got[c] \o SubSeq(buf[c], 1, n)]
         /\ buf' = [buf EXCEPT ![c] = SubSeq(buf[c], n + 1, Len(buf[c]))]
         /\ \/ pc[c] \in Streaming /\ pc' = pc
            \/ /\ SubSeq(buf[c], 1, n) = <<Marker, NL>>
               /\ pc[c] = "tail" /\ pc' = [pc EXCEPT ![c] = "marker"]
         /\ UNCHANGED <<pos, late, told, run, quiet, oneLoop, kind>>
  BY YieldStep
<1>3. PICK m \in Nat : m = Len(got[c]) + n
  BY <1>1a
<1>4. m \in Len(got[c]) + 1 .. Len(file) /\ file[m] = NL
  <2>1. Len(got[c]) + Len(buf[c]) <= Len(file)
    BY <1>1b
  <2>2. m \in Len(got[c]) + 1 .. Len(file)
    BY <1>1a, <1>3, <2>1, Parts
  <2>3. buf[c][n] = file[Len(got[c]) + n]
    BY <1>1b
  <2>. QED  BY <1>2, <1>3, <2>2, <2>3
<1>5. \A i \in Len(got[c]) + 1 .. m - 1 : file[i] # NL
  <2>1. TAKE i \in Len(got[c]) + 1 .. m - 1
  <2>2. /\ i - Len(got[c]) \in 1..n - 1 /\ i - Len(got[c]) \in 1..Len(buf[c])
        /\ Len(got[c]) + (i - Len(got[c])) = i
    BY <1>1a, <1>3
  <2>3. buf[c][i - Len(got[c])] # NL /\ buf[c][i - Len(got[c])] = file[i]
    BY <1>1b, <1>2, <2>2
  <2>. QED  BY <2>3
<1>6. got[c] \o SubSeq(buf[c], 1, n) = SubSeq(file, 1, m)
  <2>1. PICK g : g = got[c] \o SubSeq(buf[c], 1, n)
    OBVIOUS
  <2>2. /\ g \in Seq(Units) /\ Len(g) = m
        /\ ReadUpTo(file, g, SubSeq(buf[c], n + 1, Len(buf[c])), pos[c])
    <3>1. LET h == got[c] \o SubSeq(buf[c], 1, n) IN
          /\ h \in Seq(Units) /\ Len(h) = Len(got[c]) + n
          /\ ReadUpTo(file, h, SubSeq(buf[c], n + 1, Len(buf[c])), pos[c])
      BY <1>1, SendsOn
    <3>. QED  BY <1>3, <2>1, <3>1, Zenon
  <2>3. \A i \in 1..m : g[i] = file[i]
    BY <2>2 DEF ReadUpTo
  <2>4. \A i \in 1..m : file[i] \in Units
    BY <1>1, <1>1a, <1>4, ElementOfSeq
  <2>5. /\ SubSeq(file, 1, m) \in Seq(Units)
        /\ Len(SubSeq(file, 1, m)) = IF 1 <= m THEN m - 1 + 1 ELSE 0
        /\ \A i \in 1..m - 1 + 1 : SubSeq(file, 1, m)[i] = file[1 + i - 1]
    <3>1. 1 \in Int /\ m \in Int
      OBVIOUS
    <3>. QED  BY <2>4, <3>1, SubSeqProperties
  <2>6. Len(SubSeq(file, 1, m)) = m /\ \A i \in 1..m : SubSeq(file, 1, m)[i] = file[i]
    BY <2>5
  <2>7. g = SubSeq(file, 1, m)
    <3>1. \A i \in 1..Len(g) : g[i] = SubSeq(file, 1, m)[i]
      BY <2>2, <2>3, <2>6
    <3>. QED  BY <2>2, <2>5, <2>6, <3>1, SeqEqual
  <2>. QED  BY <2>1, <2>7
<1>7. got' = [got EXCEPT ![c] = SubSeq(file, 1, m)]
  BY <1>2, <1>6
<1>8. /\ c \notin {d \in Clients : pc[d] \in Over}
      /\ {d \in Clients : pc'[d] \in Over} \in
            {{d \in Clients : pc[d] \in Over}, {d \in Clients : pc[d] \in Over} \cup {c}}
  <2>1. pc[c] \notin Over
    BY <1>2 DEF Streaming, Over
  <2>2. CASE pc' = pc
    BY <2>1, <2>2
  <2>3. CASE pc' = [pc EXCEPT ![c] = "marker"]
    <3>1. \A d \in Clients : pc'[d] \in Over <=> pc[d] \in Over \/ d = c
      BY <1>0, <2>3 DEF TypeInv, Over
    <3>. QED  BY <2>1, <3>1
  <2>. QED  BY <1>2, <2>1, <2>2, <2>3
<1>9. UNCHANGED file
  BY <1>2 DEF run
<1>. QED  BY <1>4, <1>5, <1>7, <1>8, <1>9 DEF Feed!Deliver

\* Every step of the streams is a step of the feed, or none.
LEMMA StepsFeed == IInv /\ [Next]_vars => [Feed!Next]_(Feed!feed)
<1> SUFFICES ASSUME IInv, [Next]_vars PROVE [Feed!Next]_(Feed!feed)
  OBVIOUS
<1>. DEFINE over == {c \in Clients : pc[c] \in Over}
<1>0. TypeInv
  BY DEF IInv
<1>1. CASE Write \/ WriteMarker \/ Finish
  <2>1. /\ \E u \in Units : file' = Append(file, u)
        /\ UNCHANGED <<got, pc>>
    <3>1. CASE Write
      <4>1. PICK w \in Writers : Begin(w)
        BY <3>1 DEF Write
      <4>. QED  BY <4>1 DEF Begin, Writers, Units, reading
    <3>2. CASE WriteMarker \/ Finish
      BY <3>2 DEF WriteMarker, Finish, Begin, Units, reading
    <3>. QED  BY <1>1, <3>1, <3>2
  <2>. QED  BY <2>1 DEF Feed!Next, Feed!Write
<1>2. CASE Create \/ WriteLess \/ Advance \/ Escape \/ Linger \/ Idle \/ UNCHANGED vars
  BY <1>2 DEF Create, WriteLess, Advance, Escape, Linger, Idle, vars, reading, run, Feed!feed
<1>3. ASSUME file' = file, got' = got, \A c \in Clients : pc[c] \in Over => pc'[c] \in Over
      PROVE  Feed!Next
  BY <1>3 DEF Feed!Next, Feed!End
<1>4. CASE Crash
  <2>1. \A c \in Clients : pc[c] \in Over => pc'[c] \in Over
    BY <1>4 DEF Crash, Over
  <2>. QED  BY <1>3, <1>4, <2>1 DEF Crash
<1>5. ASSUME NEW c \in Clients, Ask(c) \/ Follower(c) \/ Disconnect(c)
      PROVE  [Feed!Next]_(Feed!feed)
  <2>1. CASE Yield(c)
    BY <2>1, DeliversLine DEF Feed!Next
  <2>2. CASE Ask(c) \/ Open(c) \/ NotFound(c) \/ GiveUp(c) \/ Disconnect(c) \/ EndBacklog(c)
             \/ Read(c) \/ AskStatus(c)
    <3>1. file' = file /\ got' = got
      BY <2>2, EndBacklogStep DEF Ask, Open, NotFound, GiveUp, Disconnect, Read, AskStatus, Goto, run,
                  reading
    <3>2. pc' = pc \/ (pc[c] \notin Over /\ \E p : pc' = [pc EXCEPT ![c] = p])
      <4>1. CASE Ask(c) \/ Open(c) \/ NotFound(c) \/ GiveUp(c) \/ Disconnect(c)
        BY <4>1 DEF Ask, Open, NotFound, GiveUp, Disconnect, Goto, Over
      <4>2. CASE EndBacklog(c)
        BY <4>2, EndBacklogStep DEF Over
      <4>3. CASE Read(c) \/ AskStatus(c)
        BY <1>0, <4>3 DEF Read, AskStatus, Goto, Over, reading
      <4>. QED  BY <2>2, <4>1, <4>2, <4>3
    <3>3. \A d \in Clients : pc[d] \in Over => pc'[d] \in Over
      BY <1>0, <3>2 DEF TypeInv
    <3>. QED  BY <1>3, <3>1, <3>3
  <2>. QED  BY <1>5, <2>1, <2>2 DEF Follower
<1>. QED  BY <1>1, <1>2, <1>4, <1>5 DEF Next, Engine

\* LogStream implements LogFeed (ImplementsFeed): whoever follows a log is sent its lines
\* whole, in order, none lost or repeated where the backlog ends and the tail begins.
THEOREM Implementation == Spec => ImplementsFeed
<1>1. Init => Feed!Init
  BY DEF Init, Feed!Init, Over
<1>. QED  BY <1>1, StepsFeed, Always, PTL DEF Spec, ImplementsFeed, Feed!Spec

-----------------------------------------------------------------------------
(* A stream is no longer than its log.                                     *)

Unread(c) == Len(file) - pos[c]
Undelivered(c) == Len(file) - Len(got[c])

\* The steps that a client can take unless the log grows.  The walk back before the tail
\* has the last, unfinished line read twice, which the backlog counts for.
StreamLeft(c) ==
    IF pc[c] = "idle" THEN 3 * Len(file) + 5
    ELSE IF pc[c] = "waiting" THEN 3 * Len(file) + 4
    ELSE IF pc[c] = "backlog" THEN Unread(c) + Undelivered(c) + Len(file) + 3
    ELSE IF pc[c] = "tail" THEN Unread(c) + Undelivered(c) + 2
    ELSE IF kind[c] = "run" /\ told[c] = "none" THEN 1 ELSE 0

StreamCounted == \A c \in Clients : StreamLeft(c) \in 0..3 * Len(file) + 5

ClientMoves(c) ==
    <<pc'[c], pos'[c], buf'[c], got'[c], told'[c]>> # <<pc[c], pos[c], buf[c], got[c], told[c]>>

\* A follower does not spin or start again: each of its steps brings its end nearer, and
\* only a longer log has it take longer, by three steps at most for a text or line end.
StreamsShorten ==
    /\ []StreamCounted
    /\ [][\A c \in Clients :
            IF file' # file
              THEN StreamLeft(c)' <= StreamLeft(c) + 3 * (Len(file') - Len(file))
              ELSE IF ClientMoves(c) THEN StreamLeft(c)' < StreamLeft(c)
                                     ELSE StreamLeft(c)' = StreamLeft(c)]_vars

LEMMA Lengths ==
    ASSUME IInv, NEW c \in Clients
    PROVE  /\ Len(file) \in Nat /\ Unread(c) \in 0..Len(file) /\ Undelivered(c) \in 0..Len(file)
           /\ Unread(c) \in Nat /\ Undelivered(c) \in Nat
           /\ Len(buf[c]) \in Nat /\ pos[c] \in Nat /\ Len(got[c]) \in Nat
           /\ Len(got[c]) + Len(buf[c]) = pos[c] /\ pos[c] <= Len(file)
<1>1. /\ file \in Seq(Units) /\ got[c] \in Seq(Units) /\ buf[c] \in Seq(Units) /\ pos[c] \in Nat
      /\ ReadUpTo(file, got[c], buf[c], pos[c])
  BY DEF IInv, TypeInv, FileInv, FollowInv
<1>2. Len(file) \in Nat /\ Len(got[c]) \in Nat /\ Len(buf[c]) \in Nat
  BY <1>1, LenProperties
<1>3. Len(got[c]) + Len(buf[c]) = pos[c] /\ pos[c] <= Len(file)
  BY <1>1 DEF ReadUpTo
<1>. DEFINE l == Len(file)
            g == Len(got[c])
            b == Len(buf[c])
            p == pos[c]
<1>4. Unread(c) = l - p /\ Undelivered(c) = l - g
  BY DEF Unread, Undelivered
<1>5. l \in Nat /\ g \in Nat /\ b \in Nat /\ p \in Nat /\ g + b = p /\ p <= l
  BY <1>1, <1>2, <1>3
<1>. HIDE DEF l, g, b, p
<1>6. l - p \in 0..l /\ l - g \in 0..l /\ l - p \in Nat /\ l - g \in Nat
  BY <1>5
<1>. QED  BY <1>4, <1>5, <1>6 DEF l, g, b, p

LEMMA StreamBounded ==
    ASSUME IInv, NEW c \in Clients
    PROVE  /\ StreamLeft(c) \in 0..3 * Len(file) + 5
           /\ pc[c] \in {"idle", "waiting", "backlog", "tail"} => StreamLeft(c) >= 2
           /\ pc[c] \notin {"idle", "waiting", "backlog", "tail"} => StreamLeft(c) \in 0..1
<1>1. Len(file) \in Nat /\ Unread(c) \in 0..Len(file) /\ Undelivered(c) \in 0..Len(file)
  BY Lengths
<1>. DEFINE n == Len(file)
            u == Unread(c)
            d == Undelivered(c)
<1>2. n \in Nat /\ u \in 0..n /\ d \in 0..n
  BY <1>1
<1>3. StreamLeft(c) = IF pc[c] = "idle" THEN 3 * n + 5
                      ELSE IF pc[c] = "waiting" THEN 3 * n + 4
                      ELSE IF pc[c] = "backlog" THEN u + d + n + 3
                      ELSE IF pc[c] = "tail" THEN u + d + 2
                      ELSE IF kind[c] = "run" /\ told[c] = "none" THEN 1 ELSE 0
  BY DEF StreamLeft
<1>. HIDE DEF n, u, d
<1>4. /\ StreamLeft(c) \in 0..3 * n + 5
      /\ pc[c] \in {"idle", "waiting", "backlog", "tail"} => StreamLeft(c) >= 2
      /\ pc[c] \notin {"idle", "waiting", "backlog", "tail"} => StreamLeft(c) \in 0..1
  BY <1>2, <1>3
<1>. QED  BY <1>4 DEF n

\* A client that does not move is as far as before.
LEMMA StreamStands ==
    ASSUME NEW c \in Clients, file' = file, kind' = kind, ~ClientMoves(c)
    PROVE  StreamLeft(c)' = StreamLeft(c)
BY DEF ClientMoves, StreamLeft, Unread, Undelivered

\* Where a stream ends, at most the question for the status is left.
LEMMA StreamOver ==
    ASSUME IInv, IInv', NEW c \in Clients, pc[c] \in {"idle", "waiting", "backlog", "tail"},
           pc'[c] \in Over
    PROVE  StreamLeft(c)' < StreamLeft(c)
<1>1. pc'[c] \notin {"idle", "waiting", "backlog", "tail"}
  BY Zenon DEF Over
<1>2. StreamLeft(c)' \in 0..1
  BY <1>1 DEF StreamLeft
<1>3. StreamLeft(c) >= 2 /\ StreamLeft(c) \in Nat
  <2>1. Len(file) \in Nat
    BY Lengths
  <2>. QED  BY <2>1, StreamBounded
<1>. QED  BY <1>2, <1>3

LEMMA ReadNearer ==
    ASSUME IInv, NEW c \in Clients, Read(c)
    PROVE  StreamLeft(c)' < StreamLeft(c)
<1>. DEFINE n == Least(pos[c] + Chunk, Len(file))
            u == Unread(c)
            v == Unread(c)'
            d == Undelivered(c)
            l == Len(file)
            p == pos[c]
            q == pos'[c]
<1>1. /\ pc[c] \in {"backlog", "tail"} /\ pos[c] < Len(file) /\ pos'[c] = n
      /\ pc'[c] = pc[c] /\ file' = file /\ got' = got
  BY DEF IInv, TypeInv, Read, Goto, run
<1>2. /\ l \in Nat /\ p \in Nat /\ d \in Nat /\ p < l /\ Chunk \in Nat \ {0}
      /\ q = IF p + Chunk < l THEN p + Chunk ELSE l
      /\ u = l - p /\ v = l - q /\ Undelivered(c)' = d
  <2>1. l \in Nat /\ p \in Nat /\ d \in Nat /\ Chunk \in Nat \ {0}
    BY Lengths, LogAssumption
  <2>2. u = l - p /\ v = l - q /\ Undelivered(c)' = d
    BY <1>1 DEF Unread, Undelivered
  <2>3. q = IF p + Chunk < l THEN p + Chunk ELSE l
    BY <1>1 DEF Least
  <2>. QED  BY <1>1, <2>1, <2>2, <2>3
<1>. HIDE DEF n, u, v, d, l, p, q
<1>3. v < u /\ u \in Nat /\ v \in Nat /\ d \in Nat /\ l \in Nat
  BY <1>2
<1>4. /\ StreamLeft(c) = IF pc[c] = "backlog" THEN u + d + l + 3 ELSE u + d + 2
      /\ StreamLeft(c)' = IF pc[c] = "backlog" THEN v + d + l + 3 ELSE v + d + 2
  BY <1>1, <1>2 DEF StreamLeft, u, v, d, l
<1>. QED  BY <1>3, <1>4

LEMMA YieldNearer ==
    ASSUME IInv, IInv', NEW c \in Clients, Yield(c)
    PROVE  StreamLeft(c)' < StreamLeft(c)
<1>1. PICK k \in 1..Len(buf[c]) :
        /\ got' = [got EXCEPT ![c] = got[c] \o SubSeq(buf[c], 1, k)]
        /\ buf' = [buf EXCEPT ![c] = SubSeq(buf[c], k + 1, Len(buf[c]))]
        /\ \/ pc[c] \in Streaming /\ pc' = pc
           \/ pc[c] = "tail" /\ pc' = [pc EXCEPT ![c] = "marker"]
        /\ UNCHANGED <<pos, late, told, run, quiet, oneLoop, kind>>
  BY YieldStep
<1>2. CASE pc[c] = "tail" /\ pc' = [pc EXCEPT ![c] = "marker"]
  <2>1. pc'[c] = "marker"
    BY <1>2 DEF IInv, TypeInv
  <2>. QED  BY <1>2, <2>1, StreamOver DEF Over
<1>3. CASE pc[c] \in Streaming /\ pc' = pc
  <2>. DEFINE u == Unread(c)
              d == Undelivered(c)
              e == Undelivered(c)'
              l == Len(file)
              g == Len(got[c])
  <2>1. Len(got'[c]) = Len(got[c]) + k
    <3>1. buf[c] \in Seq(Units) /\ got[c] \in Seq(Units) /\ got'[c] = got[c] \o SubSeq(buf[c], 1, k)
      BY <1>1 DEF IInv, TypeInv
    <3>2. SubSeq(buf[c], 1, k) \in Seq(Units) /\ Len(SubSeq(buf[c], 1, k)) = k
      <4>1. k \in Nat /\ 1 <= k /\ k <= Len(buf[c]) /\ Len(buf[c]) \in Nat
        BY Lengths
      <4>. QED  BY <3>1, <4>1, SubSeqProperties
    <3>. QED  BY <3>1, <3>2, ConcatProperties
  <2>2. file' = file /\ k \in Nat /\ k >= 1 /\ g \in Nat /\ d \in Nat /\ u \in Nat /\ l \in Nat
    <3>1. g \in Nat /\ d \in Nat /\ u \in Nat /\ l \in Nat
      BY Lengths
    <3>2. k \in Nat /\ k >= 1
      OBVIOUS
    <3>3. file' = file
      BY <1>1 DEF run
    <3>. QED  BY <3>1, <3>2, <3>3
  <2>3. d = l - g /\ e = l - (g + k)
    BY <2>1, <2>2 DEF Undelivered
  <2>4. /\ StreamLeft(c) = IF pc[c] = "backlog" THEN u + d + l + 3 ELSE u + d + 2
        /\ StreamLeft(c)' = IF pc[c] = "backlog" THEN u + e + l + 3 ELSE u + e + 2
    BY <1>1, <1>3, <2>2 DEF StreamLeft, Unread, Streaming
  <2>. HIDE DEF u, d, e, l, g
  <2>5. e < d /\ e \in Int
    BY <2>2, <2>3
  <2>. QED  BY <2>2, <2>4, <2>5
<1>. QED  BY <1>1, <1>2, <1>3

LEMMA TailNearer ==
    ASSUME IInv, IInv', NEW c \in Clients, EndBacklog(c)
    PROVE  StreamLeft(c)' < StreamLeft(c)
<1>1. /\ pc[c] = "backlog" /\ pos[c] = Len(file) /\ pos'[c] = pos[c] - Len(buf[c])
      /\ pc'[c] \in {"marker", "read", "tail"} /\ file' = file /\ got' = got
  BY EndBacklogStep DEF IInv, TypeInv, run
<1>2. CASE pc'[c] \in {"marker", "read"}
  BY <1>1, <1>2, StreamOver DEF Over
<1>3. CASE pc'[c] = "tail"
  <2>. DEFINE u == Unread(c)
              b == Len(buf[c])
              d == Undelivered(c)
              l == Len(file)
              g == Len(got[c])
  <2>1. /\ b \in Nat /\ d \in Nat /\ l \in Nat /\ g \in Nat /\ g + b = l
        /\ u = l - l /\ Unread(c)' = l - (l - b) /\ Undelivered(c)' = d
    <3>1. b \in Nat /\ d \in Nat /\ l \in Nat /\ g \in Nat /\ g + b = l
      BY <1>1, Lengths
    <3>2. u = l - l /\ Unread(c)' = l - (l - b) /\ Undelivered(c)' = d
      BY <1>1 DEF Unread, Undelivered
    <3>. QED  BY <3>1, <3>2
  <2>2. StreamLeft(c) = u + d + l + 3 /\ StreamLeft(c)' = (l - (l - b)) + d + 2
    BY <1>1, <1>3, <2>1 DEF StreamLeft
  <2>. HIDE DEF u, b, d, l, g
  <2>. QED  BY <2>1, <2>2
<1>. QED  BY <1>1, <1>2, <1>3

LEMMA ClientNearer ==
    ASSUME IInv, IInv', NEW c \in Clients, Ask(c) \/ Follower(c) \/ Disconnect(c)
    PROVE  /\ StreamLeft(c)' < StreamLeft(c)
           /\ file' = file /\ kind' = kind
           /\ \A d \in Clients \ {c} : ~ClientMoves(d)
<1>1. file' = file /\ kind' = kind
  BY DEF Ask, Follower, Open, NotFound, Read, Yield, EndBacklog, GiveUp, AskStatus, Disconnect, Goto,
         run
<1>2. \A d \in Clients \ {c} : ~ClientMoves(d)
  BY DEF IInv, TypeInv, Ask, Follower, Open, NotFound, Read, Yield, EndBacklog, GiveUp, AskStatus,
         Disconnect, Goto, reading, ClientMoves
<1>3. CASE Ask(c) \/ Open(c)
  <2>. DEFINE l == Len(file)
  <2>1. /\ l \in Nat
        /\ \/ pc[c] = "idle" /\ pc'[c] = "waiting"
           \/ pc[c] = "waiting" /\ pc'[c] = "backlog"
    BY <1>3, Lengths DEF Ask, Open, Goto, IInv, TypeInv
  <2>2. pc[c] = "waiting" => Undelivered(c) = l /\ Unread(c) = l
    <3>1. HAVE pc[c] = "waiting"
    <3>2. pos[c] = 0 /\ Len(got[c]) = 0
      BY <3>1, EmptySeq DEF IInv, FollowInv
    <3>3. Undelivered(c) = l - 0 /\ Unread(c) = l - 0
      BY <3>2 DEF Undelivered, Unread
    <3>. HIDE DEF l
    <3>. QED  BY <2>1, <3>3
  <2>3. UNCHANGED <<Undelivered(c), Unread(c), file>>
    BY <1>1, <1>3 DEF Ask, Open, Undelivered, Unread
  <2>4. CASE pc[c] = "idle" /\ pc'[c] = "waiting"
    <3>1. StreamLeft(c) = 3 * l + 5 /\ StreamLeft(c)' = 3 * l + 4
      BY <2>3, <2>4 DEF StreamLeft
    <3>. HIDE DEF l
    <3>2. StreamLeft(c)' < StreamLeft(c)
      BY <2>1, <3>1
    <3>. QED  BY <1>1, <1>2, <3>2
  <2>5. CASE pc[c] = "waiting" /\ pc'[c] = "backlog"
    <3>1. StreamLeft(c) = 3 * l + 4 /\ StreamLeft(c)' = l + l + l + 3
      BY <2>2, <2>3, <2>5 DEF StreamLeft
    <3>. HIDE DEF l
    <3>2. StreamLeft(c)' < StreamLeft(c)
      BY <2>1, <3>1
    <3>. QED  BY <1>1, <1>2, <3>2
  <2>. QED  BY <1>1, <1>2, <2>1, <2>4, <2>5
<1>4. CASE NotFound(c) \/ GiveUp(c) \/ Disconnect(c)
  <2>1. pc[c] \in {"waiting", "backlog", "tail"}
    BY <1>4 DEF NotFound, GiveUp, Disconnect, Goto
  <2>2. pc'[c] \in Over
    BY <1>4, Zenon DEF NotFound, GiveUp, Disconnect, Goto, Over, IInv, TypeInv
  <2>. QED  BY <1>1, <1>2, <2>1, <2>2, StreamOver
<1>5. CASE AskStatus(c)
  <2>1. /\ pc[c] \in Over /\ kind[c] = "run" /\ told[c] = "none" /\ pc' = pc
        /\ told'[c] # "none"
    BY <1>5 DEF AskStatus, IInv, TypeInv, reading
  <2>2. pc[c] \notin {"idle", "waiting", "backlog", "tail"}
    BY <2>1, Zenon DEF Over
  <2>3. StreamLeft(c) = 1 /\ StreamLeft(c)' = 0
    BY <1>1, <2>1, <2>2 DEF StreamLeft
  <2>. QED  BY <1>1, <1>2, <2>3
<1>. QED  BY <1>1, <1>2, <1>3, <1>4, <1>5, ReadNearer, YieldNearer, TailNearer DEF Follower

\* A text or a line end more is three steps more at most: to read, to send, and to read again.
LEMMA LongerLog ==
    ASSUME IInv, NEW e, file' = Append(file, e), UNCHANGED <<kind, reading, told>>,
           NEW c \in Clients
    PROVE  StreamLeft(c)' <= StreamLeft(c) + 3 * (Len(file') - Len(file))
<1>. DEFINE l == Len(file)
            u == Unread(c)
            d == Undelivered(c)
            p == pos[c]
            g == Len(got[c])
<1>0. /\ l \in Nat /\ Len(file') = l + 1 /\ u \in Nat /\ d \in Nat /\ p \in Nat /\ g \in Nat
      /\ u = l - p /\ d = l - g
      /\ Unread(c)' = (l + 1) - p /\ Undelivered(c)' = (l + 1) - g
  <2>1. file \in Seq(Units)
    BY DEF IInv, FileInv
  <2>2. Len(file') = Len(file) + 1
    BY <2>1 DEF Units
  <2>3. l \in Nat /\ u \in Nat /\ d \in Nat /\ p \in Nat /\ g \in Nat
    BY Lengths
  <2>4. /\ u = l - p /\ d = l - g
        /\ Unread(c)' = (l + 1) - p /\ Undelivered(c)' = (l + 1) - g
    BY <2>2 DEF Unread, Undelivered, reading
  <2>. QED  BY <2>2, <2>3, <2>4
<1>1. /\ l \in Nat /\ Len(file') = l + 1 /\ u \in Nat /\ d \in Nat
      /\ Unread(c)' = u + 1 /\ Undelivered(c)' = d + 1
  <2>. HIDE DEF l, u, d, p, g
  <2>. QED  BY <1>0
<1>2. /\ StreamLeft(c) = IF pc[c] = "idle" THEN 3 * l + 5
                         ELSE IF pc[c] = "waiting" THEN 3 * l + 4
                         ELSE IF pc[c] = "backlog" THEN u + d + l + 3
                         ELSE IF pc[c] = "tail" THEN u + d + 2
                         ELSE IF kind[c] = "run" /\ told[c] = "none" THEN 1 ELSE 0
      /\ StreamLeft(c)' = IF pc[c] = "idle" THEN 3 * (l + 1) + 5
                          ELSE IF pc[c] = "waiting" THEN 3 * (l + 1) + 4
                          ELSE IF pc[c] = "backlog" THEN (u + 1) + (d + 1) + (l + 1) + 3
                          ELSE IF pc[c] = "tail" THEN (u + 1) + (d + 1) + 2
                          ELSE IF kind[c] = "run" /\ told[c] = "none" THEN 1 ELSE 0
  BY <1>1 DEF StreamLeft, reading
<1>3. Len(file') - Len(file) = 1
  BY <1>1
<1>. HIDE DEF l, u, d
<1>. QED  BY <1>1, <1>2, <1>3

\* Streams end where the engine's writing does: what is left of StreamsEnd is that the
\* loop serves them, and that time passes.
THEOREM StreamsHalt == Spec => StreamsShorten
<1>. DEFINE Step == \A c \in Clients :
            IF file' # file
              THEN StreamLeft(c)' <= StreamLeft(c) + 3 * (Len(file') - Len(file))
              ELSE IF ClientMoves(c) THEN StreamLeft(c)' < StreamLeft(c)
                                     ELSE StreamLeft(c)' = StreamLeft(c)
<1>1. IInv => StreamCounted
  BY StreamBounded DEF StreamCounted
<1>2. IInv /\ IInv' /\ [Next]_vars => [Step]_vars
  <2> SUFFICES ASSUME IInv, IInv', Next PROVE Step
    OBVIOUS
  <2>1. CASE Write \/ WriteMarker \/ Finish
    <3>1. PICK e : file' = Append(file, e)
      BY <2>1 DEF Write, WriteMarker, Finish, Begin
    <3>2. UNCHANGED <<kind, reading, told>>
      BY <2>1 DEF Write, WriteMarker, Finish, Begin
    <3>3. Len(file') = Len(file) + 1 /\ Len(file) \in Nat
      BY <3>1 DEF IInv, FileInv
    <3>4. file' # file
      BY <3>3
    <3>. QED  BY <3>1, <3>2, <3>4, LongerLog
  <2>2. CASE Create \/ WriteLess \/ Advance \/ Escape \/ Linger \/ Idle
    <3>1. UNCHANGED <<file, kind, reading, told>>
      BY <2>2 DEF Create, WriteLess, Advance, Escape, Linger, Idle, run, vars, reading
    <3>. QED  BY <3>1, StreamStands DEF ClientMoves, reading
  <2>3. CASE Crash
    <3>1. UNCHANGED <<file, kind, pos, buf, got, told>>
      BY <2>3 DEF Crash
    <3>2. ASSUME NEW c \in Clients, ClientMoves(c) PROVE StreamLeft(c)' < StreamLeft(c)
      <4>1. pc[c] \notin Over \cup {"idle"} /\ pc'[c] = "broken"
        BY <2>3, <3>1, <3>2 DEF Crash, ClientMoves
      <4>2. pc[c] \in {"waiting"} \cup Streaming
        BY <4>1 DEF IInv, TypeInv
      <4>. QED  BY <4>1, <4>2, StreamOver DEF Over, Streaming
    <3>. QED  BY <3>1, <3>2, StreamStands
  <2>4. ASSUME NEW c \in Clients, Ask(c) \/ Follower(c) \/ Disconnect(c)
        PROVE  Step
    BY <2>4, ClientNearer, StreamStands
  <2>. QED  BY <2>1, <2>2, <2>3, <2>4 DEF Next, Engine
<1>. QED  BY <1>1, <1>2, Always, PTL DEF Spec, StreamsShorten
=============================================================================
