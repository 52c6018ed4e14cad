----------------------- MODULE ArtifactRegistryProofs -----------------------
(***************************************************************************)
(* Theorems about ArtifactRegistry: for any number of uploads, downloads,  *)
(* workers, coordinates and contents, through any failure and crash, the   *)
(* registry is an immutable store whose rows can always be served.         *)
(***************************************************************************)
EXTENDS ArtifactRegistry, TLAPS

\* Digests are equal only for equal contents.
LEMMA Collisionless ==
    ASSUME NEW a, NEW b, Sha256(a) = Sha256(b) PROVE a = b
  BY DEF Sha256

LEMMA RowFacts ==
    ASSUME RegistryInv, NEW c \in Coordinates, NEW r \in rows[c]
    PROVE  RowInv(c, r) /\ r \in Row /\ r.id \in Uploads
  <1>1. RowInv(c, r)
    BY DEF RegistryInv
  <1>2. rows \in [Coordinates -> SUBSET Row]
    BY DEF RegistryInv, TypeOK
  <1>3. r \in Row
    BY <1>2
  <1>4. r.id \in Uploads
    BY <1>3 DEF Row
  <1> QED BY <1>1, <1>3, <1>4

LEMMA InitInv == Init => RegistryInv
  <1> SUFFICES ASSUME Init PROVE RegistryInv
    OBVIOUS
  <1>1. TypeOK
    <2>1. form \in [Uploads -> Form]
      BY RegistryAssumption DEF Init
    <2> QED BY <2>1 DEF Init, TypeOK
  <1>2. \A u \in Uploads : UploadInv(u)
    BY DEF Init, UploadInv
  <1> QED BY <1>1, <1>2 DEF Init, RegistryInv, BlobsInv, DownloadInv

\* A step of an upload that only moves its handler along or removes its file, when
\* neither phase is one that rows are written or answered in.
LEMMA QuietStep ==
    ASSUME RegistryInv, NEW u \in Uploads, NEW to,
           to \in {"waiting", "parsing", "writing", "written", "verified", "placing", "stored",
                   "created", "conflict", "rejected", "unauthorized", "error", "unstored",
                   "lost"},
           phase' = [phase EXCEPT ![u] = to],
           phase[u] \in {"inserted"} => to \in {"created", "lost"},
           phase[u] \in Handled \cup {"waiting"},
           UNCHANGED <<form, blobs, rows, download>>,
           temp' \in [Uploads -> Contents \cup {Partial, NoFile}],
           \A v \in Uploads \ {u} : temp'[v] = temp[v],
           UploadInv(u)'
    PROVE  RegistryInv'
  <1>1. TypeOK'
    BY DEF RegistryInv, TypeOK, Handled, Answered, Broken
  <1>2. \A v \in Uploads \ {u} : UploadInv(v)'
    BY DEF RegistryInv, TypeOK, UploadInv
  <1>3. \A c \in Coordinates : \A r \in rows'[c] : RowInv(c, r)'
    <2> SUFFICES ASSUME NEW c \in Coordinates, NEW r \in rows[c] PROVE RowInv(c, r)'
      OBVIOUS
    <2>1. RowInv(c, r) /\ r.id \in Uploads
      BY RowFacts
    <2>2. phase'[r.id] \in {"inserted", "created", "lost"}
      BY <2>1 DEF RegistryInv, TypeOK, RowInv, Handled
    <2> QED BY <2>1, <2>2 DEF RowInv
  <1> QED BY <1>1, <1>2, <1>3 DEF RegistryInv, BlobsInv, DownloadInv

LEMMA PlaceInv ==
    ASSUME RegistryInv, NEW u \in Uploads, Place(u) PROVE RegistryInv'
  <1> DEFINE path == Sha256(form[u].file)
  <1>1. /\ phase[u] = "placing" /\ phase' = [phase EXCEPT ![u] = "stored"]
        /\ temp' = [temp EXCEPT ![u] = NoFile]
        /\ blobs' = [d \in DOMAIN blobs \cup {path} |-> IF d = path THEN temp[u] ELSE blobs[d]]
        /\ form' = form /\ rows' = rows /\ download' = download
    BY DEF Place, Step, Unlink
  <1>2. form[u].file \in Contents /\ path \in Digests /\ temp[u] = form[u].file
        /\ path = form[u].checksum
    BY <1>1 DEF RegistryInv, TypeOK, Form, Digests, UploadInv
  <1> HIDE DEF path
  <1>3. TypeOK'
    BY <1>1, <1>2 DEF RegistryInv, TypeOK, Handled
  <1>4. BlobsInv'
    BY <1>1, <1>2 DEF RegistryInv, BlobsInv, path
  <1>5. DOMAIN blobs \subseteq DOMAIN blobs' /\ path \in DOMAIN blobs'
    BY <1>1
  <1>6. \A v \in Uploads : UploadInv(v)'
    <2> TAKE v \in Uploads
    <2>1. CASE v = u
      BY <2>1, <1>1, <1>2, <1>5 DEF RegistryInv, TypeOK, UploadInv, Answered, path
    <2>2. CASE v # u
      BY <2>2, <1>1, <1>5 DEF RegistryInv, TypeOK, UploadInv
    <2> QED BY <2>1, <2>2
  <1>7. \A c \in Coordinates : \A r \in rows'[c] : RowInv(c, r)'
    <2> SUFFICES ASSUME NEW c \in Coordinates, NEW r \in rows[c] PROVE RowInv(c, r)'
      BY <1>1
    <2>1. RowInv(c, r) /\ r.id \in Uploads
      BY RowFacts
    <2>2. phase'[r.id] = phase[r.id]
      BY <2>1, <1>1 DEF RegistryInv, TypeOK, RowInv
    <2> QED BY <2>1, <2>2, <1>1, <1>5 DEF RowInv
  <1>8. \A d \in Downloads : DownloadInv(d)'
    BY <1>1 DEF RegistryInv, DownloadInv
  <1> QED BY <1>3, <1>4, <1>6, <1>7, <1>8 DEF RegistryInv

LEMMA InsertInv ==
    ASSUME RegistryInv, NEW u \in Uploads, Step(u, "stored", "inserted"), Free(u),
           rows' = [rows EXCEPT ![form[u].at] = {[id |-> u, sha256 |-> Sha256(form[u].file)]}],
           UNCHANGED <<form, temp, blobs, download>>
    PROVE  RegistryInv'
  <1> DEFINE at == form[u].at
             row == [id |-> u, sha256 |-> form[u].checksum]
  <1>1. /\ form[u] \in Form /\ at \in Coordinates /\ form[u].file \in Contents
        /\ Sha256(form[u].file) = form[u].checksum /\ form[u].checksum \in DOMAIN blobs
        /\ row \in Row /\ row.id = u /\ row.sha256 = form[u].checksum
    BY DEF RegistryInv, TypeOK, UploadInv, Form, Step, Row, Digests
  <1>2. /\ rows[at] = {} /\ rows' = [rows EXCEPT ![at] = {row}]
        /\ phase[u] = "stored" /\ phase' = [phase EXCEPT ![u] = "inserted"]
    BY <1>1 DEF Free, Step
  <1> HIDE DEF at, row
  <1>3. rows' \in [Coordinates -> SUBSET Row] /\ rows'[at] = {row}
    <2>1. rows \in [Coordinates -> SUBSET Row] /\ {row} \in SUBSET Row
      BY <1>1 DEF RegistryInv, TypeOK
    <2> QED BY <2>1, <1>1, <1>2
  <1>4. \A c \in Coordinates : rows[c] # {} => rows'[c] = rows[c]
    BY <1>2 DEF RegistryInv, TypeOK
  <1>5. TypeOK'
    BY <1>2, <1>3 DEF RegistryInv, TypeOK, Handled
  <1>6. \A v \in Uploads : UploadInv(v)'
    <2> TAKE v \in Uploads
    <2>1. CASE v = u
      BY <2>1, <1>1, <1>2, <1>3 DEF RegistryInv, TypeOK, UploadInv, Answered, at, row
    <2>2. CASE v # u
      <3>1. UploadInv(v) /\ phase'[v] = phase[v] /\ form[v].at \in Coordinates
        BY <2>2, <1>2 DEF RegistryInv, TypeOK, Form
      <3>2. phase[v] \in {"inserted", "created", "conflict"} => rows'[form[v].at] = rows[form[v].at]
        BY <3>1, <1>4 DEF UploadInv
      <3> QED BY <3>1, <3>2 DEF UploadInv
    <2> QED BY <2>1, <2>2
  <1>7. \A c \in Coordinates : \A r \in rows'[c] : RowInv(c, r)'
    <2> TAKE c \in Coordinates
    <2>1. CASE c = at
      <3>1. form' = form /\ blobs' = blobs /\ form[u].at = at /\ at' = at /\ row' = row
        BY DEF at, row
      <3>2. phase'[u] = "inserted"
        BY <1>2 DEF RegistryInv, TypeOK
      <3> SUFFICES ASSUME NEW r \in rows'[c] PROVE RowInv(c, r)'
        OBVIOUS
      <3>3. c = at /\ r = row
        BY <2>1, <1>3
      <3> QED BY <3>1, <3>2, <3>3, <1>1, <1>3 DEF RowInv
    <2>2. CASE c # at
      <3> SUFFICES ASSUME NEW r \in rows[c] PROVE RowInv(c, r)'
        BY <2>2, <1>2
      <3>1. RowInv(c, r) /\ r.id \in Uploads
        BY RowFacts
      <3>2. rows'[c] = rows[c] /\ phase'[r.id] = phase[r.id]
        BY <3>1, <2>2, <1>2 DEF RegistryInv, TypeOK, RowInv
      <3> QED BY <3>1, <3>2 DEF RowInv
    <2> QED BY <2>1, <2>2
  <1>8. \A d \in Downloads : DownloadInv(d)'
    <2> TAKE d \in Downloads
    <2>1. DownloadInv(d) /\ (download[d].phase \in {"found", "served"} => download[d].at \in Coordinates)
      BY DEF RegistryInv, TypeOK, Found, Served
    <2> QED BY <2>1, <1>4 DEF DownloadInv
  <1> QED BY <1>5, <1>6, <1>7, <1>8 DEF RegistryInv, BlobsInv

LEMMA HandleInv ==
    ASSUME RegistryInv, NEW u \in Uploads, Handle(u) PROVE RegistryInv'
  <1> USE DEF Step, Unlink
  <1>0. /\ UploadInv(u) /\ form[u] \in Form
        /\ phase \in [Uploads -> {"waiting"} \cup Handled \cup Answered \cup Broken]
        /\ temp \in [Uploads -> Contents \cup {Partial, NoFile}]
    BY DEF RegistryInv, TypeOK
  <1>1. CASE Authenticate(u)
    BY <1>0, <1>1, QuietStep DEF Authenticate, UploadInv, Handled, Answered
  <1>2. CASE Open(u)
    BY <1>0, <1>2, QuietStep DEF Open, UploadInv, Handled, Answered
  <1>13. CASE OpenFails(u)
    BY <1>0, <1>13, QuietStep DEF OpenFails, UploadInv, Handled, Answered
  <1>3. CASE Write(u)
    BY <1>0, <1>3, QuietStep DEF Write, Flushed, UploadInv, Handled, Answered, Form
  <1>4. CASE WriteFails(u)
    BY <1>0, <1>4, QuietStep DEF WriteFails, UploadInv, Handled, Answered
  <1>5. CASE Verify(u)
    BY <1>0, <1>5, QuietStep DEF Verify, Matches, UploadInv, Handled, Answered
  <1>6. CASE Look(u)
    BY <1>0, <1>6, QuietStep DEF Look, There, UploadInv, Handled, Answered
  <1>7. CASE Place(u)
    BY <1>7, PlaceInv
  <1>8. CASE PlaceFails(u)
    BY <1>0, <1>8, QuietStep DEF PlaceFails, Finally, UploadInv, Handled, Answered
  <1>9. CASE Insert(u)
    <2>1. CASE Step(u, "stored", "inserted")
      BY <2>1, <1>0, <1>9, InsertInv DEF Insert
    <2>2. CASE ~Step(u, "stored", "inserted")
      BY <2>2, <1>0, <1>9, QuietStep DEF Insert, Free, UploadInv, Handled, Answered
    <2> QED BY <2>1, <2>2
  <1>10. CASE InsertFails(u)
    BY <1>0, <1>10, QuietStep DEF InsertFails, UploadInv, Handled, Answered
  <1>11. CASE Answer(u)
    BY <1>0, <1>11, QuietStep DEF Answer, UploadInv, Handled, Answered
  <1>12. CASE Crash(u)
    BY <1>0, <1>12, QuietStep DEF Crash, UploadInv, Handled, Answered
  <1> QED BY <1>1, <1>2, <1>3, <1>4, <1>5, <1>6, <1>7, <1>8, <1>9, <1>10, <1>11, <1>12,
         <1>13 DEF Handle

LEMMA ReadInv ==
    ASSUME RegistryInv, NEW d \in Downloads, Find(d) \/ Serve(d) PROVE RegistryInv'
  <1>1. UNCHANGED <<form, phase, temp, blobs, rows>>
    BY DEF Find, Serve
  <1>2. /\ download' = [e \in Downloads |-> download'[e]]
        /\ \A e \in Downloads : e # d => download'[e] = download[e]
    <2>1. download = [e \in Downloads |-> download[e]]
      BY DEF RegistryInv, TypeOK
    <2> QED BY <2>1 DEF Find, Serve
  <1>3. /\ download'[d] \in Found \cup Served \cup [phase : {"idle", "not found"}]
        /\ DownloadInv(d)'
    <2>1. CASE Find(d)
      <3>1. PICK c \in Coordinates :
              download' = [download EXCEPT ![d] =
                  IF rows[c] = {} THEN [phase |-> "not found"]
                  ELSE [phase |-> "found", at |-> c, row |-> CHOOSE r \in rows[c] : TRUE]]
        BY <2>1 DEF Find
      <3>2. CASE rows[c] = {}
        BY <3>1, <3>2 DEF RegistryInv, TypeOK, DownloadInv
      <3>3. CASE rows[c] # {}
        <4>1. PICK r \in rows[c] : r = CHOOSE x \in rows[c] : TRUE
          BY <3>3
        <4>2. r \in Row /\ rows[c] = {r}
          BY RowFacts DEF RowInv
        <4> QED BY <1>1, <3>1, <3>3, <4>1, <4>2 DEF RegistryInv, TypeOK, DownloadInv, Found
      <3> QED BY <3>2, <3>3
    <2>2. CASE Serve(d)
      <3> DEFINE row == download[d].row
                 c == download[d].at
      <3>1. /\ download[d].phase = "found" /\ c \in Coordinates /\ row \in Row
            /\ rows[c] = {row}
        BY <2>2 DEF Serve, RegistryInv, TypeOK, DownloadInv, Found, Served
      <3>2. RowInv(c, row) /\ row.id \in Uploads
        BY <3>1, RowFacts
      <3>3. row.sha256 \in DOMAIN blobs /\ blobs[row.sha256] \in Contents
        BY <3>2 DEF RowInv, RegistryInv, TypeOK
      <3>4. blobs[row.sha256] = form[row.id].file
        <4>1. Sha256(blobs[row.sha256]) = Sha256(form[row.id].file)
          BY <3>2, <3>3 DEF RowInv, RegistryInv, BlobsInv
        <4> QED BY <4>1, Collisionless
      <3>5. download'[d] = [phase |-> "served", at |-> c, row |-> row, body |-> blobs[row.sha256]]
        BY <2>2, <3>3 DEF Serve, RegistryInv, TypeOK
      <3>6. download'[d] \in Served
        BY <3>1, <3>3, <3>5 DEF Served
      <3>7. /\ download'[d].phase = "served" /\ download'[d].at = c /\ download'[d].row = row
            /\ download'[d].body = blobs[row.sha256]
        BY <3>5
      <3>8. DownloadInv(d)'
        BY <1>1, <3>1, <3>4, <3>7 DEF DownloadInv
      <3> QED BY <3>6, <3>8
    <2> QED BY <2>1, <2>2
  <1>4. TypeOK'
    <2> DEFINE Seen == Found \cup Served \cup [phase : {"idle", "not found"}]
    <2>1. \A e \in Downloads : download'[e] \in Seen
      BY <1>2, <1>3 DEF RegistryInv, TypeOK
    <2> HIDE DEF Seen
    <2>2. download' \in [Downloads -> Seen]
      BY <2>1, <1>2
    <2> USE DEF Seen
    <2> QED BY <2>2, <1>1 DEF RegistryInv, TypeOK
  <1>5. \A e \in Downloads : DownloadInv(e)'
    BY <1>1, <1>2, <1>3 DEF RegistryInv, DownloadInv
  <1> QED BY <1>1, <1>4, <1>5 DEF RegistryInv, BlobsInv, UploadInv, RowInv

LEMMA NextInv == RegistryInv /\ [Next]_vars => RegistryInv'
  <1> SUFFICES ASSUME RegistryInv, [Next]_vars PROVE RegistryInv'
    OBVIOUS
  <1>1. CASE \E u \in Uploads : Handle(u)
    BY <1>1, HandleInv
  <1>2. CASE \E d \in Downloads : Find(d) \/ Serve(d)
    BY <1>2, ReadInv
  <1>3. CASE UNCHANGED vars
    <2>1. UNCHANGED <<form, phase, temp, blobs, rows, download>>
      BY <1>3 DEF vars
    <2>2. TypeOK' /\ BlobsInv'
      BY <2>1 DEF RegistryInv, TypeOK, BlobsInv
    <2>3. /\ \A u \in Uploads : UploadInv(u)'
          /\ \A d \in Downloads : DownloadInv(d)'
      BY <2>1 DEF RegistryInv, UploadInv, DownloadInv
    <2>4. \A c \in Coordinates : \A r \in rows'[c] : RowInv(c, r)'
      BY <2>1 DEF RegistryInv, RowInv
    <2> QED BY <2>2, <2>3, <2>4 DEF RegistryInv
  <1> QED BY <1>1, <1>2, <1>3 DEF Next, Quiet

\* Files, table and handlers hold together.
THEOREM Coherent == Spec => []RegistryInv
  BY InitInv, NextInv, PTL DEF Spec

\* Every published coordinate can be served, with the bytes that were published.
THEOREM Servable == Spec => []RowsServable
  <1>1. ASSUME RegistryInv, NEW c \in Coordinates, NEW r \in rows[c]
        PROVE  r.sha256 \in DOMAIN blobs /\ blobs[r.sha256] = form[r.id].file
    <2>1. RowInv(c, r)
      BY <1>1, RowFacts
    <2>2. r.sha256 \in DOMAIN blobs /\ Sha256(blobs[r.sha256]) = Sha256(form[r.id].file)
      BY <1>1, <2>1 DEF RowInv, RegistryInv, BlobsInv
    <2> QED BY <2>2, Collisionless
  <1>2. RegistryInv => RowsServable
    BY <1>1 DEF RowsServable
  <1> QED BY <1>2, Coherent, PTL

\* Every answer to an upload is true.
THEOREM Truthful == Spec => []AnswersTrue
  <1>1. ASSUME RegistryInv, NEW u \in Uploads
        PROVE  /\ UploadInv(u) /\ form[u].at \in Coordinates
               /\ \A r \in rows[form[u].at] : phase[r.id] \in {"inserted", "created", "lost"}
    <2>1. UploadInv(u) /\ form[u].at \in Coordinates
      BY <1>1 DEF RegistryInv, TypeOK, Form
    <2> QED BY <1>1, <2>1 DEF RegistryInv, RowInv
  <1>2. RegistryInv => AnswersTrue
    <2> SUFFICES ASSUME RegistryInv, NEW u \in Uploads
        PROVE LET row == rows[form[u].at] IN
        /\ phase[u] = "created" =>
              row = {[id |-> u, sha256 |-> form[u].checksum]} /\ form[u].checksum \in DOMAIN blobs
        /\ phase[u] = "conflict" => \E r \in row : r.id # u
        /\ phase[u] \in Unpublished => \A r \in row : r.id # u
      BY DEF AnswersTrue
    <2> QED BY <1>1 DEF UploadInv, Unpublished
  <1> QED BY <1>2, Coherent, PTL

\* Every step of a handler keeps its file to itself, and removes it before any other end.
LEMMA TempsStep ==
    ASSUME RegistryInv, TempsRemoved, NEW u \in Uploads, Handle(u)
    PROVE  TempsRemoved'
  <1> USE DEF Step, Unlink, TempsRemoved
  <1>0. /\ phase = [v \in Uploads |-> phase[v]] /\ temp = [v \in Uploads |-> temp[v]]
        /\ \A v \in Uploads : temp[v] # NoFile =>
              phase[v] \in {"writing", "written", "verified", "placing", "unstored", "lost"}
    BY DEF RegistryInv, TypeOK
  <1>1. CASE Authenticate(u) \/ Open(u) \/ OpenFails(u) \/ Write(u) \/ WriteFails(u)
    BY <1>0, <1>1 DEF Authenticate, Open, OpenFails, Write, WriteFails
  <1>2. CASE Verify(u) \/ Look(u) \/ Place(u) \/ PlaceFails(u)
    BY <1>0, <1>2 DEF Verify, Look, Place, PlaceFails, Finally
  <1>3. CASE Insert(u) \/ InsertFails(u) \/ Answer(u) \/ Crash(u)
    BY <1>0, <1>3 DEF Insert, InsertFails, Answer, Crash, Handled
  <1> QED BY <1>1, <1>2, <1>3 DEF Handle

\* Only uploads under way, and those a write, a mkdir or a crash ended, have a temporary
\* file.
THEOREM NoLitter == Spec => []TempsRemoved
  <1>1. Init => TempsRemoved
    BY DEF Init, TempsRemoved
  <1>2. RegistryInv /\ TempsRemoved /\ [Next]_vars => TempsRemoved'
    <2> SUFFICES ASSUME RegistryInv, TempsRemoved, [Next]_vars PROVE TempsRemoved'
      OBVIOUS
    <2>1. CASE \E u \in Uploads : Handle(u)
      BY <2>1, TempsStep
    <2>2. CASE UNCHANGED <<phase, temp>>
      BY <2>2 DEF TempsRemoved
    <2> QED BY <2>1, <2>2 DEF Next, Quiet, vars, Find, Serve
  <1> QED BY <1>1, <1>2, Coherent, PTL DEF Spec

\* Every download that finds a row serves what that row's upload sent.
THEOREM Faithful == Spec => []DownloadsTrue
  <1>1. RegistryInv => DownloadsTrue
    BY DEF RegistryInv, TypeOK, DownloadInv, DownloadsTrue, Found, Served
  <1> QED BY <1>1, Coherent, PTL

\* What an upload's handler leaves alone: a row that is there, a blob that is there.
LEMMA HandlerKeeps ==
    ASSUME RegistryInv, NEW u \in Uploads, Handle(u)
    PROVE  /\ \A c \in Coordinates : rows[c] # {} => rows'[c] = rows[c]
           /\ \A d \in DOMAIN blobs : d \in DOMAIN blobs' /\ blobs'[d] = blobs[d]
  <1>1. CASE Place(u)
    <2> DEFINE path == Sha256(form[u].file)
    <2>1. /\ rows' = rows /\ phase[u] = "placing"
          /\ blobs' = [d \in DOMAIN blobs \cup {path} |-> IF d = path THEN temp[u] ELSE blobs[d]]
      BY <1>1 DEF Place, Step
    <2>2. temp[u] = form[u].file
      BY <2>1 DEF RegistryInv, UploadInv
    <2>3. path \in DOMAIN blobs => blobs[path] = temp[u]
      BY <2>2, Collisionless DEF RegistryInv, BlobsInv
    <2> HIDE DEF path
    <2> QED BY <2>1, <2>3
  <1>2. CASE Insert(u)
    BY <1>2 DEF Insert, Free, RegistryInv, TypeOK
  <1>3. CASE ~Place(u) /\ ~Insert(u)
    BY <1>3 DEF Handle, Authenticate, Open, OpenFails, Write, WriteFails, Verify, Look, PlaceFails,
                InsertFails, Answer, Crash
  <1> QED BY <1>1, <1>2, <1>3

\* What is published or stored never changes.
THEOREM NeverChanges == Spec => Immutable
  <1>1. ASSUME RegistryInv, [Next]_vars
        PROVE  [/\ \A c \in Coordinates : rows[c] # {} => rows'[c] = rows[c]
                /\ \A d \in DOMAIN blobs : d \in DOMAIN blobs' /\ blobs'[d] = blobs[d]]_vars
    <2>1. CASE \E u \in Uploads : Handle(u)
      BY <1>1, <2>1, HandlerKeeps
    <2>2. CASE \E d \in Downloads : Find(d) \/ Serve(d)
      BY <2>2 DEF Find, Serve
    <2> QED BY <1>1, <2>1, <2>2 DEF Next, Quiet
  <1> QED BY <1>1, Coherent, PTL DEF Spec, Immutable

-----------------------------------------------------------------------------
TargetBar == [u \in Uploads |-> form[u].at]
PublishedBar == [c \in Coordinates |-> {r.id : r \in rows[c]}]
FateBar == [u \in Uploads |-> FateOf(u)]

LEMMA InitMaps == Init => Promise!Init
  <1> SUFFICES ASSUME Init PROVE Promise!Init
    OBVIOUS
  <1>1. form \in [Uploads -> Form]
    BY RegistryAssumption DEF Init
  <1>2. TargetBar \in [Uploads -> Coordinates]
    BY <1>1 DEF TargetBar, Form
  <1>3. PublishedBar = [c \in Coordinates |-> {}]
    BY DEF Init, PublishedBar
  <1>4. FateBar = [u \in Uploads |-> "asked"]
    BY DEF Init, FateBar, FateOf, Unpublished
  <1> QED BY <1>2, <1>3, <1>4 DEF Promise!Init, TargetBar, PublishedBar, FateBar

\* A handler's step that does not write the table ends the abstract request or
\* stutters.
LEMMA EndMaps ==
    ASSUME RegistryInv, NEW u \in Uploads, NEW to, phase' = [phase EXCEPT ![u] = to],
           form' = form, rows' = rows
    PROVE  /\ TargetBar' = TargetBar /\ PublishedBar' = PublishedBar
           /\ FateBar' = [FateBar EXCEPT ![u] = FateOf(u)'] /\ FateBar[u] = FateOf(u)
           /\ FateOf(u)' = CASE to \in Handled \ {"inserted"} \/ to = "waiting" -> "asked"
                            [] to = "inserted" -> "published"
                            [] to \in Unpublished -> "refused"
                            [] OTHER -> to
  <1>1. phase'[u] = to /\ \A v \in Uploads : v # u => phase'[v] = phase[v]
    BY DEF RegistryInv, TypeOK
  <1>2. \A v \in Uploads : v # u => FateOf(v)' = FateOf(v)
    BY <1>1 DEF FateOf
  <1>3. FateBar' = [FateBar EXCEPT ![u] = FateOf(u)'] /\ FateBar[u] = FateOf(u)
    BY <1>2 DEF FateBar
  <1>4. FateOf(u)' = CASE to \in Handled \ {"inserted"} \/ to = "waiting" -> "asked"
                       [] to = "inserted" -> "published"
                       [] to \in Unpublished -> "refused"
                       [] OTHER -> to
    BY <1>1 DEF FateOf
  <1> QED BY <1>3, <1>4 DEF TargetBar, PublishedBar

LEMMA HandleMaps ==
    ASSUME RegistryInv, NEW u \in Uploads, Handle(u)
    PROVE  [Promise!Next]_(Promise!vars)
  <1> USE DEF Step
  <1> DEFINE Stutter == TargetBar' = TargetBar /\ PublishedBar' = PublishedBar /\ FateBar' = FateBar
  <1>0. /\ UploadInv(u) /\ form[u].at \in Coordinates /\ TargetBar[u] = form[u].at
        /\ PublishedBar[form[u].at] = {r.id : r \in rows[form[u].at]}
    BY DEF RegistryInv, TypeOK, Form, TargetBar, PublishedBar
  <1>1. Stutter => [Promise!Next]_(Promise!vars)
    BY DEF Promise!vars, TargetBar, PublishedBar, FateBar
  <1> HIDE DEF Stutter
  <1>2. ASSUME NEW to, phase' = [phase EXCEPT ![u] = to], form' = form, rows' = rows,
               FateOf(u)' = FateOf(u)
        PROVE  Stutter
    BY <1>2, EndMaps DEF Stutter, FateBar
  <1>3. ASSUME NEW to, phase' = [phase EXCEPT ![u] = to], form' = form, rows' = rows,
               \/ FateOf(u) = "asked" /\ FateOf(u)' = "refused"
               \/ FateOf(u) \in {"asked", "published"} /\ FateOf(u)' = "lost"
               \/ FateOf(u) = "published" /\ FateOf(u)' = "created"
               \/ FateOf(u) = "asked" /\ FateOf(u)' = "conflict" /\ rows[form[u].at] # {}
        PROVE  Promise!Next
    <2>1. /\ TargetBar' = TargetBar /\ PublishedBar' = PublishedBar
          /\ FateBar' = [FateBar EXCEPT ![u] = FateOf(u)'] /\ FateBar[u] = FateOf(u)
      BY <1>3, EndMaps
    <2>2. CASE FateOf(u) = "asked" /\ FateOf(u)' = "refused"
      <3>1. Promise!Refused(u)
        BY <2>1, <2>2 DEF Promise!Refused, Promise!Ends, TargetBar, PublishedBar, FateBar
      <3> QED BY <3>1 DEF Promise!Next
    <2>3. CASE FateOf(u) \in {"asked", "published"} /\ FateOf(u)' = "lost"
      <3>1. Promise!Lost(u)
        BY <2>1, <2>3 DEF Promise!Lost, Promise!Ends, TargetBar, PublishedBar, FateBar
      <3> QED BY <3>1 DEF Promise!Next
    <2>4. CASE FateOf(u) = "published" /\ FateOf(u)' = "created"
      <3>1. Promise!Created(u)
        BY <2>1, <2>4 DEF Promise!Created, Promise!Ends, TargetBar, PublishedBar, FateBar
      <3> QED BY <3>1 DEF Promise!Next
    <2>5. CASE FateOf(u) = "asked" /\ FateOf(u)' = "conflict" /\ rows[form[u].at] # {}
      <3>1. PublishedBar[TargetBar[u]] # {}
        BY <1>0, <2>5
      <3>2. Promise!Conflict(u)
        BY <2>1, <2>5, <3>1
           DEF Promise!Conflict, Promise!Ends, TargetBar, PublishedBar, FateBar
      <3> QED BY <3>2 DEF Promise!Next
    <2> QED BY <1>3, <2>2, <2>3, <2>4, <2>5
  <1>4. CASE Insert(u) /\ Step(u, "stored", "inserted")
    <2>1. /\ rows[form[u].at] = {} /\ phase[u] = "stored" /\ phase' = [phase EXCEPT ![u] = "inserted"]
          /\ rows' = [rows EXCEPT ![form[u].at] = {[id |-> u, sha256 |-> Sha256(form[u].file)]}]
          /\ form' = form
      BY <1>4 DEF Insert, Free, RegistryInv, TypeOK
    <2>2. phase'[u] = "inserted" /\ \A v \in Uploads : v # u => phase'[v] = phase[v]
      BY <2>1 DEF RegistryInv, TypeOK
    <2>3. /\ \A v \in Uploads : v # u => FateOf(v)' = FateOf(v)
          /\ FateOf(u) = "asked" /\ FateOf(u)' = "published"
      BY <2>1, <2>2 DEF FateOf, Handled, Unpublished
    <2>4. /\ FateBar[u] = "asked" /\ FateBar' = [FateBar EXCEPT ![u] = "published"]
      BY <2>3 DEF FateBar
    <2>5. \A c \in Coordinates : rows'[c] = IF c = form[u].at
                                              THEN {[id |-> u, sha256 |-> Sha256(form[u].file)]}
                                              ELSE rows[c]
      BY <2>1 DEF RegistryInv, TypeOK
    <2>6. {r.id : r \in {[id |-> u, sha256 |-> Sha256(form[u].file)]}} = {u}
      OBVIOUS
    <2>7. \A c \in Coordinates : {r.id : r \in rows'[c]} = IF c = form[u].at THEN {u}
                                                           ELSE {r.id : r \in rows[c]}
      BY <2>5, <2>6
    <2>8. PublishedBar' = [PublishedBar EXCEPT ![TargetBar[u]] = {u}]
      BY <1>0, <2>7 DEF PublishedBar
    <2>9. PublishedBar[TargetBar[u]] = {} /\ TargetBar' = TargetBar
      BY <1>0, <2>1 DEF TargetBar
    <2>10. Promise!Publish(u)
      BY <2>4, <2>8, <2>9 DEF Promise!Publish, TargetBar, PublishedBar, FateBar
    <2> QED BY <2>10 DEF Promise!Next
  <1>5. CASE ~(Insert(u) /\ Step(u, "stored", "inserted"))
    <2>1. PICK to : /\ phase' = [phase EXCEPT ![u] = to] /\ form' = form /\ rows' = rows
                    /\ \/ to \in (Handled \ {"inserted"}) /\ phase[u] \in {"waiting"} \cup (Handled \ {"inserted"})
                       \/ to \in Unpublished
                             /\ phase[u] \in {"waiting"} \cup (Handled \ {"inserted"})
                       \/ to = "lost" /\ phase[u] \in Handled
                       \/ to = "created" /\ phase[u] = "inserted"
                       \/ to = "conflict" /\ phase[u] = "stored" /\ rows[form[u].at] # {}
      BY <1>5 DEF Handle, Authenticate, Open, OpenFails, Write, WriteFails, Verify, Look, Place, PlaceFails,
                  Insert, Free, InsertFails, Answer, Crash, Handled, Unpublished
    <2>2. FateOf(u)' = CASE to \in Handled \ {"inserted"} \/ to = "waiting" -> "asked"
                         [] to = "inserted" -> "published"
                         [] to \in Unpublished -> "refused"
                         [] OTHER -> to
      BY <2>1, EndMaps
    <2>3. CASE FateOf(u)' = FateOf(u)
      BY <1>1, <1>2, <2>1, <2>3
    <2>4. CASE FateOf(u)' # FateOf(u)
      <3>1. \/ FateOf(u) = "asked" /\ FateOf(u)' = "refused"
            \/ FateOf(u) \in {"asked", "published"} /\ FateOf(u)' = "lost"
            \/ FateOf(u) = "published" /\ FateOf(u)' = "created"
            \/ FateOf(u) = "asked" /\ FateOf(u)' = "conflict" /\ rows[form[u].at] # {}
        BY <2>1, <2>2, <2>4 DEF FateOf, Handled, Unpublished
      <3> QED BY <1>3, <2>1, <3>1
    <2> QED BY <2>3, <2>4
  <1> QED BY <1>4, <1>5

\* The registry implements the immutable store.
THEOREM Implementation == Spec => ImplementsImmutableStore
  <1>1. ASSUME RegistryInv, [Next]_vars PROVE [Promise!Next]_(Promise!vars)
    <2>1. CASE \E u \in Uploads : Handle(u)
      BY <1>1, <2>1, HandleMaps
    <2>2. CASE UNCHANGED <<form, phase, rows>>
      BY <2>2 DEF Promise!vars, FateOf
    <2> QED BY <1>1, <2>1, <2>2 DEF Next, Quiet, vars, Find, Serve
  <1> QED BY <1>1, InitMaps, Coherent, PTL DEF Spec, ImplementsImmutableStore, Promise!Spec

=============================================================================
