-------------------------- MODULE ArtifactRegistry --------------------------
(***************************************************************************)
(* The registry's uploads and downloads: registry/main.py over the blob    *)
(* files of registry/storage.py and the SQLite table of                    *)
(* registry/metadata.py.                                                   *)
(*                                                                         *)
(* An upload goes through the file system and the table in several steps;  *)
(* another worker may run, or its own may die, between any two of them.    *)
(* With Workers = 1 handlers never interleave: they are coroutines without *)
(* an await, on one event loop.  Every failure of the operating system or  *)
(* of SQLite that the code meets is an action (HTTP 500); removing a file  *)
(* that is there is taken not to fail.                                     *)
(***************************************************************************)
EXTENDS Naturals, FiniteSets

CONSTANTS Uploads,        \* upload requests; a client that tries again sends another
          Downloads,      \* download requests
          Coordinates,    \* (name, version)
          Contents,       \* whole artifacts
          Partial,        \* the start of one
          NoFile,         \* no file
          Unparsable,     \* a declared checksum that is not sha256:<64 hex digits>
          Workers,        \* server processes
          Batches         \* the uploads considered: upload -> its form

\* SHA-256, without collisions.
Sha256(bytes) == <<"sha256", bytes>>
Digests == {Sha256(b) : b \in Contents}

\* What a client sends: the coordinate, the file, the checksum it declares, and
\* whether name, version and deps are valid.
Form == [at : Coordinates, file : Contents, checksum : Digests \cup {Unparsable},
         valid : BOOLEAN]

ASSUME RegistryAssumption ==
    /\ Partial \notin Contents /\ NoFile \notin Contents \cup {Partial}
    /\ Unparsable \notin Digests
    /\ Workers \in Nat \ {0}
    /\ Batches \subseteq [Uploads -> Form]

VARIABLES
    form,        \* upload -> its form
    phase,       \* upload -> how far its handler is, or how it was answered
    temp,        \* upload -> its .upload-* file
    blobs,       \* the files under their digests
    rows,        \* table artifacts: coordinate -> its row, as a set of at most one
    download     \* download -> its phase, coordinate, row and body

vars == <<form, phase, temp, blobs, rows, download>>

\* A row; `id` tells rows apart, as published_at and the primary key do.
Row == [id : Uploads, sha256 : Digests]

Handled == {"parsing", "writing", "written", "verified", "placing", "stored", "inserted"}
Answered == {"created", "conflict", "rejected", "unauthorized"}
Broken == {"error", "unstored", "lost"}    \* a 500, "unstored" one that keeps its file
Unpublished == {"rejected", "unauthorized", "error", "unstored"}

Init == /\ form \in Batches
        /\ phase = [u \in Uploads |-> "waiting"]
        /\ temp = [u \in Uploads |-> NoFile]
        /\ blobs = [d \in {} |-> NoFile]
        /\ rows = [c \in Coordinates |-> {}]
        /\ download = [d \in Downloads |-> [phase |-> "idle"]]

Busy == {u \in Uploads : phase[u] \in Handled}

Step(u, from, to) == phase[u] = from /\ phase' = [phase EXCEPT ![u] = to]
Unlink(u) == temp' = [temp EXCEPT ![u] = NoFile]

-----------------------------------------------------------------------------
\* require_auth, before the handler runs.
Authenticate(u) ==
    /\ Cardinality(Busy) < Workers
    /\ Step(u, "waiting", "parsing") \/ Step(u, "waiting", "unauthorized")
    /\ UNCHANGED <<form, temp, blobs, rows, download>>

\* parse_declared_checksum, then the temporary file.
Open(u) ==
    /\ IF form[u].checksum = Unparsable
         THEN Step(u, "parsing", "rejected") /\ UNCHANGED temp
         ELSE Step(u, "parsing", "writing") /\ temp' = [temp EXCEPT ![u] = Partial]
    /\ UNCHANGED <<form, blobs, rows, download>>

\* The temporary file cannot be made.
OpenFails(u) ==
    /\ form[u].checksum # Unparsable /\ Step(u, "parsing", "error")
    /\ UNCHANGED <<form, temp, blobs, rows, download>>

Buffered(u) == Partial                                             \* mutant: no flush
Flushed(u) == form[u].file

Write(u) ==
    /\ Step(u, "writing", "written") /\ temp' = [temp EXCEPT ![u] = Flushed(u)]
    /\ UNCHANGED <<form, blobs, rows, download>>

\* A disk error while writing, which keeps the file (delete=False), or while
\* making the blob's directory, before the `try`.
WriteFails(u) ==
    /\ Step(u, "writing", "unstored") \/ Step(u, "verified", "unstored")
    /\ UNCHANGED <<form, temp, blobs, rows, download>>

Unchecked(u) == TRUE                                               \* mutant: declared is trusted
Matches(u) == Sha256(form[u].file) = form[u].checksum

Verify(u) ==
    /\ IF Matches(u) THEN Step(u, "written", "verified") /\ UNCHANGED temp
                     ELSE Step(u, "written", "rejected") /\ Unlink(u)
    /\ UNCHANGED <<form, blobs, rows, download>>

\* final_path.exists()
DirectoryThere(u) == DOMAIN blobs # {}                             \* mutant: parent.exists()
There(u) == Sha256(form[u].file) \in DOMAIN blobs

Look(u) ==
    /\ IF There(u)
         THEN Step(u, "verified", "stored") /\ Unlink(u)
         ELSE Step(u, "verified", "placing") /\ UNCHANGED temp
    /\ UNCHANGED <<form, blobs, rows, download>>

\* os.replace; the `finally` finds no file left to remove.
Place(u) ==
    /\ Step(u, "placing", "stored") /\ Unlink(u)
    /\ LET path == Sha256(form[u].file)
       IN  blobs' = [d \in DOMAIN blobs \cup {path} |->
                        IF d = path THEN temp[u] ELSE blobs[d]]
    /\ UNCHANGED <<form, rows, download>>

LeftThere(u) == UNCHANGED temp                                     \* mutant: no `finally`
Finally(u) == Unlink(u)

PlaceFails(u) ==
    /\ Step(u, "placing", "error") /\ Finally(u)
    /\ UNCHANGED <<form, blobs, rows, download>>

\* publish: validation, then the INSERT under UNIQUE(name, version).
AlwaysFree(u) == TRUE                                              \* mutant: INSERT OR REPLACE
Free(u) == rows[form[u].at] = {}

Insert(u) ==
    /\ IF ~form[u].valid THEN Step(u, "stored", "rejected") /\ UNCHANGED rows
       ELSE IF ~Free(u) THEN Step(u, "stored", "conflict") /\ UNCHANGED rows
       ELSE /\ Step(u, "stored", "inserted")
            /\ rows' = [rows EXCEPT ![form[u].at] = {[id |-> u, sha256 |-> Sha256(form[u].file)]}]
    /\ UNCHANGED <<form, temp, blobs, download>>

\* The database stays locked, or the disk is full.
InsertFails(u) ==
    /\ Step(u, "stored", "error")
    /\ UNCHANGED <<form, temp, blobs, rows, download>>

Answer(u) ==
    /\ Step(u, "inserted", "created")
    /\ UNCHANGED <<form, temp, blobs, rows, download>>

\* The worker dies.  (A client that gives up waiting does not stop the handler.)
Crash(u) ==
    /\ phase[u] \in Handled /\ phase' = [phase EXCEPT ![u] = "lost"]
    /\ UNCHANGED <<form, temp, blobs, rows, download>>

-----------------------------------------------------------------------------
\* download_artifact reads the row, then the blob it names.
Find(d) ==
    /\ download[d].phase = "idle"
    /\ \E c \in Coordinates :
         download' = [download EXCEPT ![d] =
             IF rows[c] = {} THEN [phase |-> "not found"]
             ELSE [phase |-> "found", at |-> c, row |-> CHOOSE r \in rows[c] : TRUE]]
    /\ UNCHANGED <<form, phase, temp, blobs, rows>>

Serve(d) ==
    /\ download[d].phase = "found"
    /\ LET row == download[d].row IN
       download' = [download EXCEPT ![d] =
           IF row.sha256 \in DOMAIN blobs
             THEN [phase |-> "served", at |-> @.at, row |-> row, body |-> blobs[row.sha256]]
             ELSE [phase |-> "blob not found", at |-> @.at]]
    /\ UNCHANGED <<form, phase, temp, blobs, rows>>

-----------------------------------------------------------------------------
Handle(u) == \/ Authenticate(u) \/ Open(u) \/ OpenFails(u) \/ Write(u) \/ WriteFails(u)
             \/ Verify(u) \/ Look(u) \/ Place(u) \/ PlaceFails(u) \/ Insert(u) \/ InsertFails(u)
             \/ Answer(u) \/ Crash(u)

\* The server waits for more requests.
Quiet == /\ \A u \in Uploads : phase[u] \in Answered \cup Broken
         /\ \A d \in Downloads : download[d].phase \in {"served", "not found", "blob not found"}
         /\ UNCHANGED vars

Next == \/ \E u \in Uploads : Handle(u)
        \/ \E d \in Downloads : Find(d) \/ Serve(d)
        \/ Quiet

Spec == Init /\ [][Next]_vars

-----------------------------------------------------------------------------
Found == [phase : {"found"}, at : Coordinates, row : Row]
Served == [phase : {"served"}, at : Coordinates, row : Row, body : Contents]

TypeOK ==
    /\ form \in [Uploads -> Form]
    /\ phase \in [Uploads -> {"waiting"} \cup Handled \cup Answered \cup Broken]
    /\ temp \in [Uploads -> Contents \cup {Partial, NoFile}]
    /\ DOMAIN blobs \subseteq Digests /\ blobs \in [DOMAIN blobs -> Contents]
    /\ rows \in [Coordinates -> SUBSET Row]
    /\ download \in [Downloads -> Found \cup Served \cup [phase : {"idle", "not found"}]]

\* Blobs are named by what is in them.
BlobsInv == \A d \in DOMAIN blobs : Sha256(blobs[d]) = d

\* Where an upload is in its handler tells what it has done to files and table.
UploadInv(u) ==
    /\ phase[u] \in {"written", "verified", "placing"} => temp[u] = form[u].file
    /\ phase[u] \in {"verified", "placing", "stored", "inserted", "created", "conflict"} =>
          Sha256(form[u].file) = form[u].checksum
    /\ phase[u] \in {"stored", "inserted", "created", "conflict"} =>
          form[u].checksum \in DOMAIN blobs
    /\ phase[u] \in {"inserted", "created"} =>
          rows[form[u].at] = {[id |-> u, sha256 |-> form[u].checksum]}
    /\ phase[u] = "conflict" => rows[form[u].at] # {}

RowInv(c, r) ==
    /\ rows[c] = {r} /\ form[r.id].at = c
    /\ r.sha256 = Sha256(form[r.id].file) /\ r.sha256 = form[r.id].checksum
    /\ phase[r.id] \in {"inserted", "created", "lost"}
    /\ r.sha256 \in DOMAIN blobs

DownloadInv(d) ==
    /\ download[d].phase \in {"found", "served"} => rows[download[d].at] = {download[d].row}
    /\ download[d].phase = "served" => download[d].body = form[download[d].row.id].file

\* How files, table and handlers hold together.
RegistryInv ==
    /\ TypeOK
    /\ BlobsInv
    /\ \A u \in Uploads : UploadInv(u)
    /\ \A c \in Coordinates : \A r \in rows[c] : RowInv(c, r)
    /\ \A d \in Downloads : DownloadInv(d)

\* What is published can be served: the blob of every row is there, whole, under its
\* digest, and it is the file of the upload that wrote the row, wherever other
\* uploads of the same bytes, failures and crashes fall between the two stores.
RowsServable ==
    \A c \in Coordinates : \A r \in rows[c] :
        r.sha256 \in DOMAIN blobs /\ blobs[r.sha256] = form[r.id].file

\* Answers tell the truth: a client told 201 owns the row and its bytes are those it
\* declared; one told 409 lost to the row of another upload; one told 400, 401 or
\* 500 published nothing.
AnswersTrue ==
    \A u \in Uploads :
        LET row == rows[form[u].at] IN
        /\ phase[u] = "created" =>
              row = {[id |-> u, sha256 |-> form[u].checksum]} /\ form[u].checksum \in DOMAIN blobs
        /\ phase[u] = "conflict" => \E r \in row : r.id # u
        /\ phase[u] \in Unpublished => \A r \in row : r.id # u

\* A temporary file belongs to an upload that has yet to be placed, or else to one that a
\* failed write, a failed mkdir or a crash ended.  None outlives any other answer, nor the
\* 500 of a failed os.replace, whichever of two uploads of the same bytes was first.
TempsRemoved ==
    \A u \in Uploads : temp[u] # NoFile =>
        phase[u] \in {"writing", "written", "verified", "placing", "unstored", "lost"}

\* A download that found its row gets the blob, and the body is what that row's upload
\* sent, though the blob is read after the row.
DownloadsTrue ==
    \A d \in Downloads :
        /\ download[d].phase # "blob not found"
        /\ download[d].phase = "served" =>
              /\ rows[download[d].at] = {download[d].row}
              /\ download[d].body = form[download[d].row.id].file

\* A published coordinate and a stored blob never change (README: "(name, version)
\* is immutable").
Immutable ==
    [][/\ \A c \in Coordinates : rows[c] # {} => rows'[c] = rows[c]
       /\ \A d \in DOMAIN blobs : d \in DOMAIN blobs' /\ blobs'[d] = blobs[d]]_vars

\* The registry implements the immutable store: a handler publishes with its INSERT.
FateOf(u) ==
    CASE phase[u] \in Handled \ {"inserted"} \/ phase[u] = "waiting" -> "asked"
      [] phase[u] = "inserted" -> "published"
      [] phase[u] \in Unpublished -> "refused"
      [] OTHER -> phase[u]

Promise == INSTANCE ImmutableStore WITH
               target <- [u \in Uploads |-> form[u].at],
               published <- [c \in Coordinates |-> {r.id : r \in rows[c]}],
               fate <- [u \in Uploads |-> FateOf(u)]
ImplementsImmutableStore == Promise!Spec
=============================================================================
